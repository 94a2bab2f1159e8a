---------------------------- MODULE EpochChange ----------------------------
(***************************************************************************)
(* One execution of the epoch-change zkVM program                          *)
(* (src/programs/epoch-change/src/main.rs) together with the ratchet it    *)
(* calls, TrustedState::verify_and_ratchet_inner (spec 4.2, not under      *)
(* src/).                                                                  *)
(*                                                                         *)
(* The inputs come from an untrusted prover; the chain and the signatures  *)
(* a prover can obtain are those of module Chain.                          *)
(*                                                                         *)
(* The proof's length is fixed when its bytes are decoded; each entry is   *)
(* chosen when the ratchet reaches it.  As the ratchet reads the entries   *)
(* in order and each step depends only on those already read, this gives   *)
(* the same executions as choosing the whole list up front.                *)
(***************************************************************************)
EXTENDS TrustedState

CONSTANT MaxProofLen   \* the most entries an epoch-change proof holds

ASSUME ProofLenAssumption == MaxProofLen \in Nat

(***************************************************************************)
(* A ledger header, reduced to what the ratchet reads: its epoch and the   *)
(* optional next-epoch committee.  The version, accumulator root and block *)
(* id are not read by the epoch-change program.                            *)
(***************************************************************************)
Header == [epoch : Epochs, next : Committees \cup {None}]

\* A header of the real chain: not epoch-ending, or naming the real successor.
Genuine(h) ==
  \/ h.next = None
  \/ h.epoch < MaxEpoch /\ h.next = ChainCommittee[h.epoch + 1]

\* LedgerInfoWithSignatures: a header and the list of its signers.
LedgerInfos ==
  UNION {{[header |-> h, sigs |-> s] :
            s \in SignerLists(CanSign(Genuine(h), h.epoch))} :
           h \in Header}

\* Bytes that do not decode give no trusted state, no length and no proof.
ASSUME DecodeAssumption ==
  Malformed \notin TrustedStates \cup Nat \cup Seq(LedgerInfos)

Errors == {"DeserializationError", "UnexpectedTrustedStateVariant",
           "MissingNextEpochState", "UnexpectedEpoch", "UnknownSigner",
           "DuplicateSigner", "InvalidQuorum"}

VARIABLES
  pc,         \* "start", "ratchet", "verifying", "done" or "aborted"
  trusted,    \* the decoded TrustedState
  proofLen,   \* the number of entries of the decoded EpochChangeProof
  idx,        \* the entries the ratchet has applied
  cur,        \* the epoch state the ratchet currently trusts
  latest,     \* the header of the last applied entry, or None
  committed,  \* the public values committed so far
  err         \* the error the program aborted with, or None

vars == <<pc, trusted, proofLen, idx, cur, latest, committed, err>>

TypeOK ==
  /\ pc \in {"start", "ratchet", "verifying", "done", "aborted"}
  /\ trusted \in TrustedStates \cup {None}
  /\ proofLen \in 0..MaxProofLen
  /\ idx \in 0..MaxProofLen
  /\ cur \in EpochStates(0..MaxEpoch + 1) \cup Waypoints \cup {None}
  /\ latest \in Header \cup {None}
  /\ committed \in Seq({VerifierHash(c) : c \in Committees})
  /\ err \in Errors \cup {None}

Init ==
  /\ pc = "start"
  /\ trusted = None
  /\ proofLen = 0
  /\ idx = 0
  /\ cur = None
  /\ latest = None
  /\ committed = << >>
  /\ err = None

Abort(e) ==
  /\ pc' = "aborted"
  /\ err' = e
  /\ UNCHANGED <<trusted, proofLen, idx, cur, latest, committed>>

(***************************************************************************)
(* main.rs 9-14: read both buffers and decode them into the trusted state  *)
(* ts and a proof of n entries; if either does not decode (Malformed), its *)
(* expect panics.                                                          *)
(***************************************************************************)
ReadInputs(ts, n) ==
  /\ pc = "start"
  /\ \/ /\ ts = Malformed \/ n = Malformed
        /\ Abort("DeserializationError")
     \/ /\ ts # Malformed /\ n # Malformed
        /\ trusted' = ts
        /\ proofLen' = n
        /\ cur' = ts
        /\ pc' = "ratchet"
        /\ UNCHANGED <<idx, latest, committed, err>>

(***************************************************************************)
(* verify_and_ratchet_inner, entry: only an EpochState can be ratcheted, *)
(* and an empty proof carries no next committee.                           *)
(***************************************************************************)
RatchetBegin ==
  /\ pc = "ratchet"
  /\ \/ /\ trusted.kind = "Waypoint"
        /\ Abort("UnexpectedTrustedStateVariant")
     \/ /\ trusted.kind = "EpochState"
        /\ proofLen = 0
        /\ Abort("MissingNextEpochState")
     \/ /\ trusted.kind = "EpochState"
        /\ proofLen > 0
        /\ pc' = "verifying"
        /\ UNCHANGED <<trusted, proofLen, idx, cur, latest, committed, err>>

\* A plausible bug of the entry check: an entry without a next committee is
\* not refused.
EntryErrorAcceptingMissingNext(li, es) ==
  IF li.header.epoch # es.epoch THEN "UnexpectedEpoch"
  ELSE VerifySignatures(li.sigs, es.verifier)

(***************************************************************************)
(* The check of one entry against the current epoch state: the entry     *)
(* belongs to the current epoch (entries out of order are refused), its    *)
(* signatures hold a quorum of the current committee, and it names the     *)
(* next committee.                                                          *)
(***************************************************************************)
EntryError(li, es) ==
  IF li.header.epoch # es.epoch THEN "UnexpectedEpoch"
  ELSE IF VerifySignatures(li.sigs, es.verifier) # "Ok"
       THEN VerifySignatures(li.sigs, es.verifier)
  ELSE IF li.header.next = None THEN "MissingNextEpochState"
  ELSE "Ok"

\* A plausible bug of the ratchet loop: the trusted state is ratcheted in
\* place, so the committee it started from is lost.
RatchetStepInPlace(li) ==
  /\ pc = "verifying"
  /\ idx < proofLen
  /\ \/ /\ EntryError(li, cur) = "Ok"
        /\ cur' = [kind |-> "EpochState", epoch |-> cur.epoch + 1,
                   verifier |-> li.header.next]
        /\ trusted' = [trusted EXCEPT !.verifier = li.header.next]
        /\ latest' = li.header
        /\ idx' = idx + 1
        /\ UNCHANGED <<pc, proofLen, committed, err>>
     \/ /\ EntryError(li, cur) # "Ok"
        /\ Abort(EntryError(li, cur))

(***************************************************************************)
(* The ratchet loop, one entry li: adopt the entry's next committee for    *)
(* the following epoch, or abort with the entry's error.                   *)
(***************************************************************************)
RatchetStep(li) ==
  /\ pc = "verifying"
  /\ idx < proofLen
  /\ \/ /\ EntryError(li, cur) = "Ok"
        /\ cur' = [kind |-> "EpochState", epoch |-> cur.epoch + 1,
                   verifier |-> li.header.next]
        /\ latest' = li.header
        /\ idx' = idx + 1
        /\ UNCHANGED <<pc, trusted, proofLen, committed, err>>
     \/ /\ EntryError(li, cur) # "Ok"
        /\ Abort(EntryError(li, cur))

\* A plausible bug of lines 36-37: the two hashes committed in swapped order.
CommitHashesSwapped ==
  /\ pc = "verifying"
  /\ idx = proofLen
  /\ committed' = committed \o << VerifierHash(latest.next),
                                   VerifierHash(trusted.verifier) >>
  /\ pc' = "done"
  /\ UNCHANGED <<trusted, proofLen, idx, cur, latest, err>>

(***************************************************************************)
(* main.rs 18-37: the ratchet returned TrustedStateChange::Epoch with the  *)
(* last applied entry; commit the hash of the trusted state's committee    *)
(* and of the last entry's next committee, in that order.  The panics of   *)
(* lines 25, 28 and 32 cannot fire after a successful ratchet.             *)
(***************************************************************************)
CommitHashes ==
  /\ pc = "verifying"
  /\ idx = proofLen
  /\ committed' = committed \o << VerifierHash(trusted.verifier),
                                   VerifierHash(latest.next) >>
  /\ pc' = "done"
  /\ UNCHANGED <<trusted, proofLen, idx, cur, latest, err>>

Next ==
  \/ \E ts \in TrustedStates \cup {Malformed},
        n \in (0..MaxProofLen) \cup {Malformed} : ReadInputs(ts, n)
  \/ RatchetBegin
  \/ \E li \in LedgerInfos : RatchetStep(li)
  \/ CommitHashes

Spec == Init /\ [][Next]_vars

-----------------------------------------------------------------------------
\* The trusted state given to the program is a real epoch state of the chain.
TrustedIsGenuine ==
  /\ trusted # None
  /\ trusted.kind = "EpochState"
  /\ trusted.verifier = ChainCommittee[trusted.epoch]

(***************************************************************************)
(* RatchetSound: when the program starts from a real epoch state and       *)
(* commits, the committed pair is the hash of that committee and the hash  *)
(* of the real committee proofLen epochs later.  Forged entries signed by  *)
(* faulty keys, duplicated or unknown signers, entries replayed out of     *)
(* order and entries without a next committee are never adopted.           *)
(***************************************************************************)
RatchetSound ==
  (pc = "done" /\ TrustedIsGenuine) =>
    /\ trusted.epoch + proofLen \in Epochs
    /\ committed = << VerifierHash(ChainCommittee[trusted.epoch]),
                      VerifierHash(ChainCommittee[trusted.epoch + proofLen]) >>

-----------------------------------------------------------------------------
(***************************************************************************)
(* The program implements EpochChangeAbstract: decoding, the ratchet and   *)
(* the commit are seen as one decode step and one commit or abort step.    *)
(* The ratchet's own steps are stutters of the abstract run.               *)
(***************************************************************************)
AbsPc ==
  CASE pc = "start" -> "start"
    [] pc \in {"ratchet", "verifying"} -> "running"
    [] pc \in {"done", "aborted"} -> pc

Abstract == INSTANCE EpochChangeAbstract WITH pc <- AbsPc

(***************************************************************************)
(* Every run of main.rs is a run of EpochChangeAbstract: it commits only   *)
(* after decoding an EpochState, and only the trusted committee's hash     *)
(* followed by that of a committee of a later epoch, the real one when the *)
(* trusted state is real; a run never commits twice or after aborting.     *)
(***************************************************************************)
AbstractSpec == Abstract!Spec

-----------------------------------------------------------------------------
(***************************************************************************)
(* The inductive invariant behind TypeOK and RatchetSound.  While the     *)
(* ratchet runs, cur is the trusted state advanced by idx epochs, and once *)
(* an entry is applied cur's committee is the one the last applied header  *)
(* names.  Started from a real epoch state, cur stays the real epoch state  *)
(* of its epoch.                                                           *)
(***************************************************************************)
RatchetProgress ==
  /\ pc \in {"start", "ratchet"} => idx = 0
  /\ pc \in {"ratchet", "verifying", "done"} => trusted \in TrustedStates
  /\ pc \in {"ratchet", "verifying"} /\ idx = 0 => cur = trusted
  /\ pc \in {"verifying", "done"} =>
       /\ trusted \in EpochStates(Epochs)
       /\ 0 < proofLen /\ idx <= proofLen
       /\ cur \in EpochStates(0..MaxEpoch + 1)
       /\ cur.epoch = trusted.epoch + idx
       /\ idx > 0 => latest \in Header /\ latest.next = cur.verifier
  /\ pc = "done" =>
       /\ idx = proofLen
       /\ committed = << VerifierHash(trusted.verifier),
                         VerifierHash(latest.next) >>
  /\ pc # "done" => committed = << >>

RatchetOnChain ==
  TrustedIsGenuine /\ pc \in {"verifying", "done"} =>
    /\ cur.epoch \in Epochs
    /\ cur.verifier = ChainCommittee[cur.epoch]

(***************************************************************************)
(* A trusted committee that governs some epoch of the chain, but perhaps   *)
(* not the trusted state's epoch, still only ratchets along the chain:     *)
(* the real chain's headers are the only ones its members sign, so once an *)
(* entry is adopted, cur is the real epoch state of its epoch.  The        *)
(* chaining verifier relies on this, as it matches committee hashes and    *)
(* never epochs.                                                            *)
(***************************************************************************)
IsChainCommittee(c) == \E e \in Epochs : c = ChainCommittee[e]

AdoptedOnChain ==
  /\ pc \in {"verifying", "done"}
  /\ idx > 0
  /\ IsChainCommittee(trusted.verifier)
  => /\ cur.epoch \in Epochs
     /\ cur.verifier = ChainCommittee[cur.epoch]

IInv == TypeOK /\ RatchetProgress /\ RatchetOnChain /\ AdoptedOnChain
=============================================================================
