------------------------- MODULE EpochChangeProofs -------------------------
(***************************************************************************)
(* Proofs about one execution of the epoch-change program, for every     *)
(* chain, committee set, fault set and bound that satisfy the module's    *)
(* assumptions.                                                            *)
(***************************************************************************)
EXTENDS EpochChange, ChainProofs

(***************************************************************************)
(* An entry of the current epoch of the real chain whose signatures pass  *)
(* verify_signatures against that epoch's committee is a header of the    *)
(* real chain: otherwise only faulty keys could have signed it, and they  *)
(* hold no quorum.                                                          *)
(***************************************************************************)
LEMMA QuorumEntryIsGenuine ==
  ASSUME NEW li \in LedgerInfos, NEW e \in Epochs,
         VerifySignatures(li.sigs, ChainCommittee[e]) = "Ok"
  PROVE  Genuine(li.header)
<1>1. PICK h \in Header :
        /\ li.header = h
        /\ li.sigs \in SignerLists(CanSign(Genuine(h), h.epoch))
  BY DEF LedgerInfos
<1>2. Genuine(h) \in BOOLEAN
  BY DEF Genuine
<1>3. QED
  BY <1>1, <1>2, QuorumNeedsHonestSigner

\* The outcomes of the entry check.
LEMMA EntryErrorResult ==
  ASSUME NEW li, NEW es
  PROVE  EntryError(li, es) \in Errors \cup {"Ok"}
BY VerifySignaturesResult DEF EntryError, Errors

LEMMA LedgerInfoHeader ==
  ASSUME NEW li \in LedgerInfos
  PROVE  li.header \in Header
BY DEF LedgerInfos

\* Epoch states of the chain's epochs are epoch states of 0..MaxEpoch + 1.
LEMMA EpochStatesWiden ==
  ASSUME MaxEpoch \in Nat
  PROVE  EpochStates(Epochs) \subseteq EpochStates(0..MaxEpoch + 1)
BY DEF EpochStates, Epochs

\* A trusted state with kind "EpochState" is an epoch state of the chain.
LEMMA TrustedIsEpochState ==
  ASSUME NEW x \in TrustedStates, x.kind = "EpochState"
  PROVE  x \in EpochStates(Epochs)
BY DEF TrustedStates, Waypoints

(***************************************************************************)
(* An entry that passes the entry check against an epoch state whose       *)
(* committee governs some epoch of the chain is the real chain's entry     *)
(* ending that epoch state's epoch: the next epoch state is the real one.  *)
(***************************************************************************)
LEMMA AdoptedEntryOnChain ==
  ASSUME ChainAssumption,
         NEW li \in LedgerInfos, NEW es, es.epoch \in Nat,
         IsChainCommittee(es.verifier),
         EntryError(li, es) = "Ok"
  PROVE  /\ es.epoch + 1 \in Epochs
         /\ li.header.next = ChainCommittee[es.epoch + 1]
<1>1. PICK e \in Epochs : es.verifier = ChainCommittee[e]
  BY DEF IsChainCommittee
<1>2. /\ li.header.epoch = es.epoch
      /\ VerifySignatures(li.sigs, ChainCommittee[e]) = "Ok"
      /\ li.header.next # None
  BY <1>1 DEF EntryError
<1>3. Genuine(li.header)
  BY <1>2, QuorumEntryIsGenuine
<1>4. li.header \in Header
  BY LedgerInfoHeader
<1>5. QED
  BY <1>2, <1>3, <1>4 DEF Genuine, Epochs, Header

\* The program starts in a state of IInv.
LEMMA InitIInv == Init => IInv
BY ProofLenAssumption DEF Init, IInv, TypeOK, RatchetProgress, RatchetOnChain,
   AdoptedOnChain

(***************************************************************************)
(* Every step of the program, or a stutter, keeps IInv.                   *)
(***************************************************************************)
LEMMA NextIInv == IInv /\ [Next]_vars => IInv'
<1> USE ChainAssumption, ProofLenAssumption
<1>2. IInv /\ [Next]_vars => IInv'
  <2> SUFFICES ASSUME IInv, [Next]_vars PROVE IInv'
    OBVIOUS
  <2> USE DEF IInv
  <2>1. ASSUME NEW e \in Errors, Abort(e), pc # "done" PROVE IInv'
    <3>1. TypeOK'
      BY <2>1 DEF Abort, TypeOK
    <3>2. RatchetProgress'
      BY <2>1 DEF Abort, RatchetProgress
    <3>3. RatchetOnChain'
      BY <2>1 DEF Abort, RatchetOnChain
    <3>4. AdoptedOnChain'
      BY <2>1 DEF Abort, AdoptedOnChain
    <3>5. QED
      BY <3>1, <3>2, <3>3, <3>4
  <2>2. CASE \E ts \in TrustedStates \cup {Malformed},
               n \in (0..MaxProofLen) \cup {Malformed} : ReadInputs(ts, n)
    <3>1. PICK ts \in TrustedStates \cup {Malformed},
               n \in (0..MaxProofLen) \cup {Malformed} : ReadInputs(ts, n)
      BY <2>2
    <3>2. CASE ts = Malformed \/ n = Malformed
      BY <3>1, <3>2, <2>1 DEF ReadInputs, Errors
    <3>3. CASE ts # Malformed /\ n # Malformed
      <4> USE <3>1, <3>3
      <4>1. ts \in EpochStates(0..MaxEpoch + 1) \cup Waypoints
        BY EpochStatesWiden DEF TrustedStates
      <4>2. TypeOK'
        BY <4>1 DEF ReadInputs, TypeOK
      <4>3. RatchetProgress'
        BY DEF ReadInputs, RatchetProgress
      <4>4. RatchetOnChain'
        BY DEF ReadInputs, RatchetOnChain
      <4>5. AdoptedOnChain'
        BY DEF ReadInputs, AdoptedOnChain
      <4>6. QED
        BY <4>2, <4>3, <4>4, <4>5
    <3>4. QED
      BY <3>2, <3>3
  <2>3. CASE RatchetBegin
    <3>1. CASE pc' = "verifying" /\ trusted.kind = "EpochState"
               /\ proofLen > 0 /\ UNCHANGED <<trusted, proofLen, idx, cur,
                                               latest, committed, err>>
      <4> USE <3>1
      <4>1. pc = "ratchet" /\ idx = 0 /\ cur = trusted /\ committed = << >>
        BY <2>3 DEF RatchetBegin, RatchetProgress
      <4>2. trusted \in EpochStates(Epochs)
        BY <4>1, TrustedIsEpochState DEF RatchetProgress
      <4>3. TypeOK'
        BY <4>1 DEF TypeOK
      <4>4. trusted.epoch \in Nat /\ cur \in EpochStates(0..MaxEpoch + 1)
        BY <4>1, <4>2, EpochStatesWiden DEF Epochs
      <4>5. RatchetProgress'
        <5>1. (pc \in {"ratchet", "verifying", "done"} => trusted \in TrustedStates)'
          BY <4>1 DEF RatchetProgress
        <5>2. (pc \in {"verifying", "done"} =>
                 /\ trusted \in EpochStates(Epochs)
                 /\ 0 < proofLen /\ idx <= proofLen
                 /\ cur \in EpochStates(0..MaxEpoch + 1)
                 /\ cur.epoch = trusted.epoch + idx
                 /\ idx > 0 => latest \in Header /\ latest.next = cur.verifier)'
          <6>1. /\ pc' = "verifying" /\ trusted' = trusted /\ idx' = 0
                /\ cur' = cur /\ proofLen' = proofLen /\ proofLen > 0
            BY <4>1
          <6>2. trusted' \in EpochStates(Epochs)
            BY <6>1, <4>2
          <6>3. 0 < proofLen' /\ idx' <= proofLen'
            BY <6>1 DEF TypeOK
          <6>4. cur' \in EpochStates(0..MaxEpoch + 1)
            BY <6>1, <4>4
          <6>5. cur'.epoch = trusted'.epoch + idx'
            BY <6>1, <4>1, <4>4
          <6>6. QED
            BY <6>1, <6>2, <6>3, <6>4, <6>5
        <5>3. QED
          BY <4>1, <5>1, <5>2 DEF RatchetProgress
      <4>6. RatchetOnChain'
        BY <4>1, <4>2 DEF RatchetOnChain, TrustedIsGenuine, EpochStates
      <4>7. AdoptedOnChain'
        BY <4>1 DEF AdoptedOnChain
      <4>8. QED
        BY <4>3, <4>5, <4>6, <4>7
    <3>2. QED
      BY <2>3, <3>1, <2>1 DEF RatchetBegin, Errors
  <2>4. CASE \E li \in LedgerInfos : RatchetStep(li)
    <3>1. PICK li \in LedgerInfos : RatchetStep(li)
      BY <2>4
    <3>2. /\ pc = "verifying" /\ idx < proofLen
          /\ \/ /\ EntryError(li, cur) = "Ok"
                /\ cur' = [kind |-> "EpochState", epoch |-> cur.epoch + 1,
                           verifier |-> li.header.next]
                /\ latest' = li.header
                /\ idx' = idx + 1
                /\ UNCHANGED <<pc, trusted, proofLen, committed, err>>
             \/ /\ EntryError(li, cur) # "Ok"
                /\ Abort(EntryError(li, cur))
      BY <3>1 DEF RatchetStep
    <3>3. CASE EntryError(li, cur) # "Ok"
      BY <3>2, <3>3, <2>1, EntryErrorResult
    <3>4. CASE EntryError(li, cur) = "Ok"
      <4> USE <3>1, <3>2, <3>4
      <4>1. /\ li.header.epoch = cur.epoch
            /\ VerifySignatures(li.sigs, cur.verifier) = "Ok"
            /\ li.header.next # None
        BY DEF EntryError
      <4>2. li.header \in Header
        BY LedgerInfoHeader
      <4>3. /\ pc = "verifying" /\ idx < proofLen /\ 0 < proofLen
            /\ trusted \in EpochStates(Epochs)
            /\ cur \in EpochStates(0..MaxEpoch + 1)
            /\ cur.epoch = trusted.epoch + idx
            /\ committed = << >>
        BY DEF RatchetProgress
      <4>5. cur.epoch \in Epochs /\ li.header.next \in Committees
        BY <4>1, <4>2 DEF Header
      <4>6. cur' \in EpochStates(0..MaxEpoch + 1)
        BY <4>5 DEF EpochStates, Epochs
      <4>7. TypeOK'
        BY <4>2, <4>3, <4>6 DEF TypeOK
      <4>8. RatchetProgress'
        <5>1. (pc \in {"ratchet", "verifying", "done"} => trusted \in TrustedStates)'
          BY <4>3 DEF RatchetProgress
        <5>2. cur'.epoch = trusted'.epoch + idx'
          BY <4>3, <4>5 DEF EpochStates, Epochs, TypeOK
        <5>3. (pc \in {"verifying", "done"} =>
                 /\ trusted \in EpochStates(Epochs)
                 /\ 0 < proofLen /\ idx <= proofLen
                 /\ cur \in EpochStates(0..MaxEpoch + 1)
                 /\ cur.epoch = trusted.epoch + idx
                 /\ idx > 0 => latest \in Header /\ latest.next = cur.verifier)'
          BY <4>2, <4>3, <4>6, <5>2 DEF TypeOK, EpochStates
        <5>4. QED
          BY <4>3, <5>1, <5>3 DEF RatchetProgress, TypeOK
      <4>9. RatchetOnChain'
        <5> SUFFICES ASSUME TrustedIsGenuine
                     PROVE  /\ cur.epoch + 1 \in Epochs
                            /\ li.header.next = ChainCommittee[cur.epoch + 1]
          BY <4>3 DEF RatchetOnChain, TrustedIsGenuine
        <5>1. cur.epoch \in Epochs /\ cur.verifier = ChainCommittee[cur.epoch]
          BY <4>3 DEF RatchetOnChain
        <5>2. Genuine(li.header)
          BY <4>1, <5>1, QuorumEntryIsGenuine
        <5>3. QED
          BY <4>1, <5>1, <5>2 DEF Genuine, Epochs
      <4>10. AdoptedOnChain'
        <5> SUFFICES ASSUME IsChainCommittee(trusted.verifier)
                     PROVE  /\ cur.epoch + 1 \in Epochs
                            /\ li.header.next = ChainCommittee[cur.epoch + 1]
          BY <4>3 DEF AdoptedOnChain
        <5>1. IsChainCommittee(cur.verifier)
          <6>1. CASE idx = 0
            BY <6>1, <4>3 DEF RatchetProgress
          <6>2. CASE idx > 0
            BY <6>2, <4>3 DEF AdoptedOnChain, IsChainCommittee
          <6>3. QED
            BY <6>1, <6>2, <4>3 DEF TypeOK
        <5>2. cur.epoch \in Nat
          BY <4>3 DEF EpochStates
        <5>3. QED
          BY <5>1, <5>2, AdoptedEntryOnChain
      <4>11. QED
        BY <4>7, <4>8, <4>9, <4>10
    <3>5. QED
      BY <3>3, <3>4
  <2>5. CASE CommitHashes
    <3> USE <2>5 DEF CommitHashes
    <3>1. /\ pc = "verifying" /\ idx = proofLen /\ 0 < proofLen
          /\ trusted \in EpochStates(Epochs)
          /\ cur \in EpochStates(0..MaxEpoch + 1)
          /\ latest \in Header /\ latest.next = cur.verifier
          /\ committed = << >>
      BY DEF RatchetProgress
    <3>4. trusted.verifier \in Committees /\ latest.next \in Committees
      BY <3>1 DEF EpochStates
    <3>5. TypeOK'
      BY <3>1, <3>4 DEF TypeOK
    <3>6. RatchetProgress'
      BY <3>1 DEF RatchetProgress
    <3>7. RatchetOnChain'
      BY <3>1 DEF RatchetOnChain, TrustedIsGenuine
    <3>8. AdoptedOnChain'
      BY <3>1 DEF AdoptedOnChain
    <3>9. QED
      BY <3>5, <3>6, <3>7, <3>8
  <2>6. CASE UNCHANGED vars
    BY <2>6 DEF vars, TypeOK, RatchetProgress, RatchetOnChain, TrustedIsGenuine,
       AdoptedOnChain, IsChainCommittee
  <2>7. QED
    BY <2>2, <2>3, <2>4, <2>5, <2>6 DEF Next
<1>3. QED
  BY <1>2

(***************************************************************************)
(* IInv holds in every state of every execution of the program.           *)
(***************************************************************************)
THEOREM IInvInvariant == Spec => []IInv
BY InitIInv, NextIInv, PTL DEF Spec

(***************************************************************************)
(* The program's committed values never have the wrong type: the ratchet *)
(* never adopts a missing committee, and the program commits two committee *)
(* hashes once.                                                             *)
(***************************************************************************)
THEOREM TypeCorrect == Spec => []TypeOK
BY IInvInvariant, PTL DEF IInv

(***************************************************************************)
(* RatchetSound for every instance: started from a real epoch state, the  *)
(* program commits only the real committee proofLen epochs later.         *)
(***************************************************************************)
THEOREM RatchetSoundness == Spec => []RatchetSound
<1>1. IInv => RatchetSound
  BY DEF IInv, RatchetSound, RatchetProgress, RatchetOnChain, TrustedIsGenuine
<1>2. QED
  BY <1>1, IInvInvariant, PTL
(***************************************************************************)
(* The program implements EpochChangeAbstract under the mapping AbsPc:    *)
(* decoding is the abstract Decode, every abort is Fail, the ratchet's    *)
(* steps are stutters, and the commit is Commit, whose choice of          *)
(* committee IInv justifies: the last adopted committee, the chain's one  *)
(* proofLen > 0 epochs on when the trusted state is real.                 *)
(***************************************************************************)
THEOREM Refinement == Spec => AbstractSpec
<1> USE ChainAssumption, ProofLenAssumption
<1>1. Init => Abstract!Init
  BY DEF Init, Abstract!Init, AbsPc
<1>2. IInv /\ [Next]_vars => [Abstract!Next]_Abstract!vars
  <2> SUFFICES ASSUME IInv, [Next]_vars PROVE [Abstract!Next]_Abstract!vars
    OBVIOUS
  <2> USE DEF IInv
  <2>1. ASSUME NEW e, Abort(e), pc \in {"start", "ratchet", "verifying"}
        PROVE  Abstract!Fail
    BY <2>1 DEF Abort, Abstract!Fail, AbsPc
  <2>2. ASSUME pc \in {"ratchet", "verifying"}, pc' \in {"ratchet", "verifying"},
               UNCHANGED <<trusted, committed>>
        PROVE  UNCHANGED Abstract!vars
    BY <2>2 DEF Abstract!vars, AbsPc
  <2>3. CASE \E ts \in TrustedStates \cup {Malformed},
               n \in (0..MaxProofLen) \cup {Malformed} : ReadInputs(ts, n)
    <3>1. PICK ts \in TrustedStates \cup {Malformed},
               n \in (0..MaxProofLen) \cup {Malformed} : ReadInputs(ts, n)
      BY <2>3
    <3>2. CASE ts = Malformed \/ n = Malformed
      BY <3>1, <3>2, <2>1 DEF ReadInputs, Abstract!Next
    <3>3. CASE ts # Malformed /\ n # Malformed
      <4>1. pc = "start" /\ pc' = "ratchet" /\ trusted' = ts
            /\ ts \in TrustedStates /\ UNCHANGED committed
        BY <3>1, <3>3 DEF ReadInputs
      <4>2. AbsPc = "start" /\ AbsPc' = "running"
        BY <4>1 DEF AbsPc
      <4>3. ts \in Abstract!TrustedStates
        BY <4>1 DEF Abstract!TrustedStates, TrustedStates, Abstract!EpochStates,
           EpochStates, Abstract!Waypoints, Waypoints, Abstract!Epochs, Epochs
      <4>4. Abstract!Decode
        BY <4>1, <4>2, <4>3 DEF Abstract!Decode
      <4>5. QED
        BY <4>4 DEF Abstract!Next
    <3>4. QED
      BY <3>2, <3>3
  <2>4. CASE RatchetBegin
    BY <2>4, <2>1, <2>2 DEF RatchetBegin, Abstract!Next
  <2>5. CASE \E li \in LedgerInfos : RatchetStep(li)
    <3>1. PICK li \in LedgerInfos : RatchetStep(li)
      BY <2>5
    <3>2. QED
      BY <3>1, <2>1, <2>2 DEF RatchetStep, Abstract!Next
  <2>6. CASE CommitHashes
    <3>1. /\ pc = "verifying" /\ idx = proofLen /\ 0 < proofLen
          /\ trusted \in EpochStates(Epochs)
          /\ cur \in EpochStates(0..MaxEpoch + 1)
          /\ cur.epoch = trusted.epoch + idx
          /\ latest \in Header /\ latest.next = cur.verifier
      BY <2>6 DEF CommitHashes, RatchetProgress
    <3>2. latest.next \in Abstract!Successors(trusted)
      <4>1. CASE trusted.verifier = ChainCommittee[trusted.epoch]
        <5>1. cur.epoch \in Epochs /\ cur.verifier = ChainCommittee[cur.epoch]
          BY <3>1, <4>1, <2>6, NoneAssumption DEF CommitHashes, RatchetOnChain,
             TrustedIsGenuine, EpochStates, TrustedStates
        <5>2. cur.epoch \in (trusted.epoch + 1)..MaxEpoch
          BY <3>1, <5>1 DEF EpochStates, Epochs, TypeOK
        <5>3. QED
          BY <3>1, <4>1, <5>1, <5>2 DEF Abstract!Successors
      <4>2. CASE trusted.verifier # ChainCommittee[trusted.epoch]
        BY <3>1, <4>2 DEF Abstract!Successors, EpochStates
      <4>3. QED
        BY <4>1, <4>2
    <3>3. AbsPc = "running" /\ AbsPc' = "done" /\ UNCHANGED trusted
      BY <2>6, <3>1 DEF CommitHashes, AbsPc
    <3>4. committed' = << Abstract!VerifierHash(trusted.verifier),
                          Abstract!VerifierHash(latest.next) >>
      BY <2>6, <3>1 DEF CommitHashes, RatchetProgress, Abstract!VerifierHash,
         VerifierHash
    <3>5. Abstract!Commit
      BY <3>1, <3>2, <3>3, <3>4 DEF Abstract!Commit, EpochStates
    <3>6. QED
      BY <3>5 DEF Abstract!Next
  <2>7. CASE UNCHANGED vars
    BY <2>7 DEF vars, Abstract!vars, AbsPc
  <2>8. QED
    BY <2>3, <2>4, <2>5, <2>6, <2>7 DEF Next
<1>3. QED
  BY <1>1, <1>2, IInvInvariant, PTL DEF Spec, AbstractSpec, Abstract!Spec
=============================================================================
