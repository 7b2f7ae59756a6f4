----------------------------- MODULE MultisigIsm -----------------------------
(***************************************************************************)
(* The MessageIdMultisigISM (contracts/ism-multisig/src/lib.rs): accepts a *)
(* message when `threshold` registered validators have signed a checkpoint *)
(* with its id.                                                            *)
(*                                                                         *)
(* verify walks the signatures and the validators with a cursor each; an   *)
(* action is one move of a cursor, so that the loop has an invariant.  It  *)
(* calls no contract: nothing else runs until it has answered.             *)
(***************************************************************************)
EXTENDS Naturals, Sequences, FiniteSets

CONSTANTS
    EthAddresses,   \* addresses of validators' keys; only their order matters
    Stranger,       \* what recovering a signature of something else yields
    Owners,         \* identities that may own the module
    NoOwner,        \* owner before init
    Callers,        \* identities that call the administration
    Messages,       \* records [origin, id]
    Checkpoints,    \* the hook, root and index a metadata names
    MaxValidators,  \* u8::MAX
    MaxSignatures   \* bound on the signatures in a metadata

ASSUME MultisigAssumption ==
    /\ EthAddresses \subseteq Nat /\ IsFiniteSet(EthAddresses)
    /\ Stranger \notin EthAddresses
    /\ NoOwner \notin Owners
    /\ \A m \in Messages : m = [origin |-> m.origin, id |-> m.id]
    /\ MaxValidators \in Nat /\ MaxSignatures \in Nat

VARIABLES
    validators,     \* registered validators, ascending
    threshold,      \* signatures required
    owner,
    signed,         \* what each key has signed: pairs of key and digest
    call            \* the verify call in progress, or Idle

vars == <<validators, threshold, owner, signed, call>>

-----------------------------------------------------------------------------
(* Digests and signatures.                                                  *)

\* Mutant: a signature is for the checkpoint, whichever message it is for.
DigestWithoutId(checkpoint, message) ==
    <<message.origin, checkpoint, "any">>

\* compute_digest, and checkpoint::checkpoint_digest on the validators' side:
\* nested hashes of all of origin, hook, root, index and message id.
Digest(checkpoint, message) ==
    <<message.origin, checkpoint, message.id>>

\* What a validator signs: its checkpoint of a message.
SignedDigest(checkpoint, message) ==
    <<message.origin, checkpoint, message.id>>

Digests == {SignedDigest(c, m) : c \in Checkpoints, m \in Messages}

Signatures == [signer : EthAddresses, digest : Digests]

\* ecrecover_eth_address: the key that made the signature when it is for this
\* digest, else an address nobody registered (or no key at all).
Recovered(signature, digest) ==
    IF signature.digest = digest THEN signature.signer ELSE Stranger

\* A metadata of 68 bytes and whole signatures; any other length is refused.
Metadata == [checkpoint : Checkpoints, signatures : Seq(Signatures)]

-----------------------------------------------------------------------------
(* State.                                                                   *)

Idle == [pc |-> "idle"]

Calls ==
    [pc : {"scan", "accepted", "refused"}, message : Messages,
     metadata : Metadata, i : Nat, validator_index : Nat]

\* MultisigIsm::new
Init ==
    /\ validators = <<>> /\ threshold = 0 /\ owner = NoOwner
    /\ signed = {}
    /\ call = Idle

TypeOK ==
    /\ validators \in Seq(EthAddresses)
    /\ threshold \in Nat
    /\ owner \in Owners \cup {NoOwner}
    /\ signed \subseteq EthAddresses \X Digests
    /\ call \in Calls \cup {Idle}
    /\ call # Idle => call.validator_index <= Len(validators)

-----------------------------------------------------------------------------
(* Configuration.                                                           *)

\* The order check compares neighbours.
SortedValidators(vs) == \A i \in 2..Len(vs) : vs[i - 1] < vs[i]

\* The assertions init and set_validators_and_threshold share
ValidConfig(vs, t) ==
    /\ Len(vs) \in 1..MaxValidators
    /\ t > 0 /\ t <= Len(vs)
    /\ SortedValidators(vs)

Initialize(o, vs, t) ==
    /\ call = Idle
    /\ owner = NoOwner
    /\ ValidConfig(vs, t)
    /\ owner' = o /\ validators' = vs /\ threshold' = t
    /\ UNCHANGED <<signed, call>>

\* only_owner
OnlyOwner(caller) == owner # NoOwner /\ caller = owner

SetValidatorsAndThreshold(caller, vs, t) ==
    /\ call = Idle
    /\ OnlyOwner(caller)
    /\ ValidConfig(vs, t)
    /\ validators' = vs /\ threshold' = t
    /\ UNCHANGED <<owner, signed, call>>

TransferOwnership(caller, new_owner) ==
    /\ call = Idle
    /\ OnlyOwner(caller)
    /\ owner' = new_owner
    /\ UNCHANGED <<validators, threshold, signed, call>>

\* A validator signs a checkpoint it saw, in its own time.
Sign(key, checkpoint, message) ==
    /\ call = Idle
    /\ signed' = signed \cup {<<key, SignedDigest(checkpoint, message)>>}
    /\ UNCHANGED <<validators, threshold, owner, call>>

-----------------------------------------------------------------------------
(* verify.                                                                  *)

\* Whoever submits a metadata has the signatures that were made, in any order
\* and as often as it likes.
Made(metadata) ==
    \A j \in DOMAIN metadata.signatures :
        <<metadata.signatures[j].signer, metadata.signatures[j].digest>> \in signed

\* The j-th signer verify recovers
Signer(j) ==
    Recovered(call.metadata.signatures[j],
              Digest(call.metadata.checkpoint, call.message))

Verify(message, metadata) ==
    /\ call = Idle
    /\ threshold > 0 /\ Len(validators) > 0
    /\ Made(metadata)
    /\ call' = [pc |-> IF Len(metadata.signatures) >= threshold
                       THEN "scan" ELSE "refused",
                message |-> message, metadata |-> metadata,
                i |-> 0, validator_index |-> 0]
    /\ UNCHANGED <<validators, threshold, owner, signed>>

Scanning == call.pc = "scan" /\ call.i < threshold

\* The inner loop passes a validator that is not this signer.
SkipValidator ==
    /\ Scanning
    /\ call.validator_index < Len(validators)
    /\ validators[call.validator_index + 1] # Signer(call.i + 1)
    /\ call' = [call EXCEPT !.validator_index = @ + 1]
    /\ UNCHANGED <<validators, threshold, owner, signed>>

\* Mutant: the cursor stays on the validator it has matched.
MatchSignerAgain ==
    /\ Scanning
    /\ call.validator_index < Len(validators)
    /\ validators[call.validator_index + 1] = Signer(call.i + 1)
    /\ call' = [call EXCEPT !.i = @ + 1]
    /\ UNCHANGED <<validators, threshold, owner, signed>>

\* Mutant: the cursor also passes the next validator.
MatchSignerTwoOn ==
    /\ Scanning
    /\ call.validator_index < Len(validators)
    /\ validators[call.validator_index + 1] = Signer(call.i + 1)
    /\ call' = [call EXCEPT !.i = @ + 1, !.validator_index = @ + 2]
    /\ UNCHANGED <<validators, threshold, owner, signed>>

\* The validator is found: both cursors move past it.
MatchSigner ==
    /\ Scanning
    /\ call.validator_index < Len(validators)
    /\ validators[call.validator_index + 1] = Signer(call.i + 1)
    /\ call' = [call EXCEPT !.i = @ + 1, !.validator_index = @ + 1]
    /\ UNCHANGED <<validators, threshold, owner, signed>>

\* "insufficient valid signatures": no validators are left.
Exhausted ==
    /\ Scanning
    /\ call.validator_index >= Len(validators)
    /\ call' = [call EXCEPT !.pc = "refused"]
    /\ UNCHANGED <<validators, threshold, owner, signed>>

Accept ==
    /\ call.pc = "scan" /\ call.i = threshold
    /\ call' = [call EXCEPT !.pc = "accepted"]
    /\ UNCHANGED <<validators, threshold, owner, signed>>

\* The Mailbox has the answer.
Return ==
    /\ call.pc \in {"accepted", "refused"}
    /\ call' = Idle
    /\ UNCHANGED <<validators, threshold, owner, signed>>

-----------------------------------------------------------------------------
(* TLC enumerates configurations and metadata up to these bounds.           *)

Configs == UNION {[1..n -> EthAddresses] : n \in 0..Cardinality(EthAddresses)}

\* The metadata that can be put together of signatures made so far
SubmittedMetadata ==
    LET made == {[signer |-> s[1], digest |-> s[2]] : s \in signed}
    IN  [checkpoint : Checkpoints,
         signatures : UNION {[1..n -> made] : n \in 0..MaxSignatures}]

Next ==
    \/ \E vs \in Configs, t \in 1..MaxValidators :
        \/ \E o \in Owners : Initialize(o, vs, t)
        \/ \E caller \in Callers : SetValidatorsAndThreshold(caller, vs, t)
    \/ \E caller \in Callers, o \in Owners : TransferOwnership(caller, o)
    \/ \E k \in EthAddresses, c \in Checkpoints, m \in Messages : Sign(k, c, m)
    \/ \E m \in Messages, metadata \in SubmittedMetadata : Verify(m, metadata)
    \/ SkipValidator
    \/ MatchSigner
    \/ Exhausted
    \/ Accept
    \/ Return

Spec == Init /\ [][Next]_vars

-----------------------------------------------------------------------------
(* Properties.                                                              *)

\* The keys that signed what the call is about, among the registered ones
Signers ==
    {v \in {validators[k] : k \in DOMAIN validators} :
        <<v, SignedDigest(call.metadata.checkpoint, call.message)>> \in signed}

\* An accepted message was signed, with its own origin and id, by as many
\* different registered validators as the threshold asks for: one validator's
\* signature repeated, or made for another message, does not count.
QuorumSigned ==
    call.pc = "accepted" => Cardinality(Signers) >= threshold

\* What a relayer should submit: signatures of validators, for this message, in
\* the order the validators are kept in.
InOrder ==
    /\ Len(call.metadata.signatures) >= threshold
    /\ \A j \in 1..threshold :
        \E k \in DOMAIN validators : validators[k] = Signer(j)
    /\ \A j \in 2..threshold : Signer(j - 1) < Signer(j)

\* A well-ordered quorum is never refused: the two cursors lose no signer.
QuorumAccepted == call.pc = "refused" => ~InOrder

\* From the first configuration on, the threshold can be met and is not zero.
\* A signer cannot hold two places.
ConfigSound ==
    owner # NoOwner =>
        /\ threshold \in 1..Len(validators)
        /\ \A j, k \in DOMAIN validators : j < k => validators[j] < validators[k]
=============================================================================
