-------------------------- MODULE ValidatorsProofs --------------------------
(* Theorems about MultisigIsm and, through the instance MCValidators puts     *)
(* beside it, ValidatorAnnounce: for every value of their constants.          *)
EXTENDS MCValidators, FiniteSetTheorems, FunctionTheorems, WellFoundedInduction, TLAPS

-----------------------------------------------------------------------------
(* Order.                                                                   *)

\* Comparing neighbours, as the code does, orders every pair: otherwise take the
\* first place that is not above all places before it.
LEMMA NeighboursOrderAll ==
    ASSUME NEW n \in Nat, NEW f,
           \A j \in 1..n : f[j] \in Nat,
           \A j \in 2..n : f[j - 1] < f[j]
    PROVE  \A j, k \in 1..n : j < k => f[j] < f[k]
<1> DEFINE Bad == {k \in Nat : k \in 1..n /\ \E j \in 1..n : j < k /\ ~(f[j] < f[k])}
<1>1. SUFFICES ASSUME Bad # {} PROVE FALSE
    OBVIOUS
<1>2. PICK k \in Bad : \A l \in Bad : ~(<<l, k>> \in OpToRel(<, Nat))
    <2> HIDE DEF Bad
    <2>1. Bad \subseteq Nat
        BY DEF Bad
    <2>2. QED
        BY <1>1, <2>1, NatLessThanWellFounded, WFMin
<1>3. \A l \in Bad : ~(l < k)
    BY <1>2 DEF OpToRel
<1>4. PICK j \in 1..n : j < k /\ ~(f[j] < f[k])
    OBVIOUS
<1>5. k \in 2..n /\ k - 1 \in 1..n /\ f[k - 1] < f[k]
    BY <1>4
<1>6. CASE j = k - 1
    BY <1>4, <1>5, <1>6
<1>7. CASE j < k - 1
    <2>1. ~(f[j] < f[k - 1])
        BY <1>4, <1>5
    <2>2. k - 1 \in Bad /\ k - 1 < k
        BY <1>5, <1>7, <2>1
    <2>3. QED
        BY <1>3, <2>2
<1>8. QED
    BY <1>4, <1>5, <1>6, <1>7

\* A valid configuration lists its validators in order, all of them.
LEMMA ValidConfigOrdered ==
    ASSUME NEW vs \in Seq(EthAddresses), NEW t, ValidConfig(vs, t)
    PROVE  \A j, k \in DOMAIN vs : j < k => vs[j] < vs[k]
<1>1. \A j \in 1..Len(vs) : vs[j] \in Nat
    BY MultisigAssumption
<1>2. \A j \in 2..Len(vs) : vs[j - 1] < vs[j]
    BY DEF ValidConfig, SortedValidators
<1>3. \A j, k \in 1..Len(vs) : j < k => vs[j] < vs[k]
    <2> DEFINE n == Len(vs)
    <2>1. n \in Nat
        OBVIOUS
    <2> HIDE DEF n
    <2>2. QED
        BY <1>1, <1>2, <2>1, NeighboursOrderAll DEF n
<1>4. QED
    BY <1>3

\* An accepted signature of a registered validator was made by it for the digest.
LEMMA RecoveredSigned ==
    ASSUME NEW s, NEW d, NEW v \in EthAddresses, Recovered(s, d) = v
    PROVE  s.signer = v /\ s.digest = d
BY MultisigAssumption DEF Recovered

-----------------------------------------------------------------------------
(* Types.                                                                   *)

\* The verify call runs on a configuration and keeps its cursors in range.
TypeInv ==
    /\ TypeOK
    /\ owner = NoOwner => threshold = 0 /\ call = Idle

\* What the environment enumerates is well typed.
LEMMA InputTypes ==
    /\ \A vs \in Configs : vs \in Seq(EthAddresses)
    /\ TypeOK => \A metadata \in SubmittedMetadata : metadata \in Metadata
<1>1. \A vs \in Configs : vs \in Seq(EthAddresses)
    <2>1. Cardinality(EthAddresses) \in Nat
        BY MultisigAssumption, FS_CardinalityType
    <2>2. QED
        BY <2>1 DEF Configs
<1>2. ASSUME TypeOK, NEW metadata \in SubmittedMetadata
      PROVE  metadata \in Metadata
    <2> DEFINE made == {[signer |-> s[1], digest |-> s[2]] : s \in signed}
    <2>1. made \subseteq Signatures
        BY <1>2 DEF TypeOK, Signatures
    <2>2. \A q \in UNION {[1..n -> made] : n \in 0..MaxSignatures} : q \in Seq(Signatures)
        BY <2>1, MultisigAssumption
    <2>3. QED
        BY <2>2 DEF SubmittedMetadata, Metadata
<1>3. QED
    BY <1>1, <1>2

LEMMA TypeInit == Init => TypeInv
BY DEF Init, TypeInv, TypeOK, Idle

LEMMA TypeNext == TypeInv /\ [Next]_vars => TypeInv'
<1> SUFFICES ASSUME TypeInv, [Next]_vars PROVE TypeInv'
    OBVIOUS
<1> USE DEF TypeInv
<1>t. TypeOK
    OBVIOUS
<1>1. ASSUME NEW vs \in Configs, NEW t \in 1..MaxValidators, NEW o \in Owners,
             Initialize(o, vs, t)
      PROVE  TypeInv'
    BY <1>1, InputTypes, MultisigAssumption DEF Initialize, TypeOK, Idle
<1>2. ASSUME NEW vs \in Configs, NEW t \in 1..MaxValidators, NEW caller,
             SetValidatorsAndThreshold(caller, vs, t)
      PROVE  TypeInv'
    BY <1>2, InputTypes, MultisigAssumption
    DEF SetValidatorsAndThreshold, OnlyOwner, TypeOK, Idle
<1>3. ASSUME NEW caller, NEW o \in Owners, TransferOwnership(caller, o)
      PROVE  TypeInv'
    BY <1>3, MultisigAssumption DEF TransferOwnership, OnlyOwner, TypeOK, Idle
<1>4. ASSUME NEW k \in EthAddresses, NEW c \in Checkpoints, NEW m \in Messages,
             Sign(k, c, m)
      PROVE  TypeInv'
    BY <1>4 DEF Sign, TypeOK, Digests, Idle
<1>5. ASSUME NEW m \in Messages, NEW metadata \in SubmittedMetadata,
             Verify(m, metadata)
      PROVE  TypeInv'
    <2>1. metadata \in Metadata
        BY <1>t, InputTypes
    <2>2. call' \in Calls
        BY <1>5, <2>1 DEF Verify, Calls
    <2>3. call'.validator_index = 0 /\ Len(validators) \in Nat
        BY <1>5 DEF Verify, TypeOK
    <2>4. owner' # NoOwner
        BY <1>5 DEF Verify, TypeOK
    <2>5. QED
        BY <1>5, <2>2, <2>3, <2>4 DEF Verify, TypeOK
<1>6. CASE SkipValidator
    BY <1>6 DEF SkipValidator, Scanning, TypeOK, Calls, Idle
<1>7. CASE MatchSigner
    <2>1. call \in Calls
        BY <1>7 DEF MatchSigner, Scanning, TypeOK, Idle
    <2>2. call' \in Calls /\ call'.validator_index <= Len(validators)
        <3>1. Len(validators) \in Nat
            BY DEF TypeOK
        <3>2. call' = [call EXCEPT !.i = call.i + 1,
                                   !.validator_index = call.validator_index + 1]
            BY <1>7 DEF MatchSigner
        <3>3. call.validator_index < Len(validators) /\ call.validator_index \in Nat
            BY <1>7, <2>1 DEF MatchSigner, Calls
        <3>4. call.i \in Nat
            BY <2>1 DEF Calls
        <3>5. /\ call.i + 1 \in Nat /\ call.validator_index + 1 \in Nat
              /\ call.validator_index + 1 <= Len(validators)
            BY <3>1, <3>3, <3>4
        <3> DEFINE a == call.i + 1
                   b == call.validator_index + 1
        <3>6. call' = [call EXCEPT !.i = a, !.validator_index = b]
              /\ a \in Nat /\ b \in Nat
            BY <3>2, <3>5
        <3> HIDE DEF a, b
        <3>7. call' \in Calls /\ call'.validator_index = b
            BY <2>1, <3>6 DEF Calls
        <3>8. QED
            BY <3>5, <3>7 DEF b
    <2>3. owner # NoOwner
        BY <2>1 DEF Calls, Idle
    <2>4. QED
        BY <1>7, <2>2, <2>3 DEF MatchSigner, TypeOK
<1>8. CASE Exhausted
    BY <1>8 DEF Exhausted, Scanning, TypeOK, Calls, Idle
<1>9. CASE Accept
    BY <1>9 DEF Accept, TypeOK, Calls, Idle
<1>10. CASE Return
    BY <1>10 DEF Return, TypeOK, Idle
<1>11. CASE UNCHANGED vars
    BY <1>11 DEF vars, TypeOK, Calls, Idle, Metadata
<1>12. QED
    BY <1>1, <1>2, <1>3, <1>4, <1>5, <1>6, <1>7, <1>8, <1>9, <1>10, <1>11 DEF Next

\* The types of the state.
THEOREM TypeCorrect == Spec => []TypeOK
<1>1. TypeInv => TypeOK
    BY DEF TypeInv
<1>2. QED
    BY <1>1, TypeInit, TypeNext, PTL DEF Spec

-----------------------------------------------------------------------------
(* The configuration.                                                       *)

LEMMA ConfigNext == TypeInv /\ ConfigSound /\ [Next]_vars => ConfigSound'
<1> SUFFICES ASSUME TypeInv, ConfigSound, [Next]_vars PROVE ConfigSound'
    OBVIOUS
<1>1. ASSUME NEW vs \in Configs, NEW t \in 1..MaxValidators, ValidConfig(vs, t),
             validators' = vs, threshold' = t
      PROVE  ConfigSound'
    <2>1. vs \in Seq(EthAddresses)
        BY InputTypes
    <2>2. \A j, k \in DOMAIN vs : j < k => vs[j] < vs[k]
        BY <1>1, <2>1, ValidConfigOrdered
    <2>3. QED
        BY <1>1, <2>1, <2>2, MultisigAssumption DEF ConfigSound, ValidConfig
<1>2. ASSUME NEW vs \in Configs, NEW t \in 1..MaxValidators,
             \/ \E o \in Owners : Initialize(o, vs, t)
             \/ \E caller \in Callers : SetValidatorsAndThreshold(caller, vs, t)
      PROVE  ConfigSound'
    BY <1>1, <1>2 DEF Initialize, SetValidatorsAndThreshold
<1>3. ASSUME NEW caller, NEW o \in Owners, TransferOwnership(caller, o)
      PROVE  ConfigSound'
    BY <1>3 DEF TransferOwnership, OnlyOwner, ConfigSound
<1>4. CASE UNCHANGED <<validators, threshold, owner>>
    BY <1>4 DEF ConfigSound
<1>5. QED
    BY <1>2, <1>3, <1>4
    DEF Next, Sign, Verify, SkipValidator, MatchSigner, Exhausted, Accept, Return, vars

\* Once configured, the module has a threshold that can be met by different
\* validators, whatever the owner sets it to.
THEOREM ConfigCorrect == Spec => []ConfigSound
<1>1. Init => ConfigSound
    BY DEF Init, ConfigSound
<1>2. QED
    BY <1>1, TypeInit, TypeNext, ConfigNext, PTL DEF Spec

-----------------------------------------------------------------------------
(* The scan.                                                                *)

\* The signers matched so far are validators before the cursor, in order; and a
\* signer of a well-ordered quorum is not behind the cursor before its turn.
ScanInv ==
    call # Idle =>
        /\ Made(call.metadata)
        /\ call.i <= threshold
        /\ call.pc # "refused" => Len(call.metadata.signatures) >= threshold
        /\ \A j \in 1..call.i :
              \E k \in 1..call.validator_index : validators[k] = Signer(j)
        /\ \A j \in 2..call.i : Signer(j - 1) < Signer(j)
        /\ call.pc = "accepted" => call.i = threshold
        /\ call.pc = "refused" => ~InOrder
        /\ Scanning /\ InOrder =>
              \A k \in 1..call.validator_index : validators[k] # Signer(call.i + 1)

SoundInv == TypeInv /\ ConfigSound /\ ScanInv

\* While the call's message and metadata and the validators stay, so do its signers.
LEMMA SignerStable ==
    ASSUME call.message = call'.message, call.metadata = call'.metadata,
           UNCHANGED <<validators, threshold>>
    PROVE  /\ \A j : Signer(j)' = Signer(j)
           /\ InOrder' = InOrder
<1>1. \A j : Signer(j)' = Signer(j)
    BY DEF Signer
<1>2. QED
    BY <1>1 DEF InOrder

LEMMA MatchKeepsScan ==
    ASSUME SoundInv, MatchSigner PROVE ScanInv'
<1> USE DEF SoundInv, TypeInv
<1> DEFINE vi == call.validator_index
           i == call.i
<1>1. call \in Calls /\ call # Idle /\ vi \in Nat /\ i \in Nat
    BY DEF MatchSigner, Scanning, TypeOK, Idle, Calls
<1>2. /\ call'.pc = call.pc /\ call.pc = "scan"
      /\ call'.i = i + 1 /\ call'.validator_index = vi + 1
      /\ call'.message = call.message /\ call'.metadata = call.metadata
      /\ UNCHANGED <<validators, threshold, signed>>
    BY <1>1 DEF MatchSigner, Scanning, Calls
<1>3. (\A j : Signer(j)' = Signer(j)) /\ InOrder' = InOrder
    BY <1>2, SignerStable
<1>4. /\ threshold \in Nat /\ i < threshold
      /\ vi < Len(validators) /\ validators[vi + 1] = Signer(i + 1)
      /\ validators \in Seq(EthAddresses) /\ Len(validators) \in Nat
    BY DEF MatchSigner, Scanning, TypeOK
<1>5. \A j, k \in DOMAIN validators : j < k => validators[j] < validators[k]
    BY <1>1 DEF ConfigSound
<1>6. \A j \in 1..(i + 1) : \E k \in 1..(vi + 1) : validators[k] = Signer(j)
    <2> SUFFICES ASSUME NEW j \in 1..(i + 1)
                 PROVE  \E k \in 1..(vi + 1) : validators[k] = Signer(j)
        OBVIOUS
    <2>1. CASE j = i + 1
        <3>1. vi + 1 \in 1..(vi + 1)
            BY <1>1
        <3>2. QED
            BY <1>4, <2>1, <3>1
    <2>2. CASE j # i + 1
        <3>1. j \in 1..i
            BY <1>1, <2>2
        <3>2. PICK k \in 1..vi : validators[k] = Signer(j)
            BY <1>1, <3>1 DEF ScanInv
        <3>3. k \in 1..(vi + 1)
            BY <1>1
        <3>4. QED
            BY <3>2, <3>3
    <2>3. QED
        BY <2>1, <2>2
<1>7. \A j \in 2..(i + 1) : Signer(j - 1) < Signer(j)
    <2>1. ASSUME i >= 1 PROVE Signer(i) < Signer(i + 1)
        <3>1. PICK k \in 1..vi : validators[k] = Signer(i)
            BY <1>1, <2>1 DEF ScanInv
        <3>2. QED
            BY <1>1, <1>4, <1>5, <3>1
    <2>2. QED
        BY <1>1, <2>1 DEF ScanInv
<1>8. ASSUME i + 1 < threshold, InOrder, NEW k \in 1..(vi + 1),
             validators[k] = Signer(i + 2)
      PROVE  FALSE
    <2>1. Signer(i + 1) < Signer(i + 2)
        BY <1>1, <1>4, <1>8 DEF InOrder
    <2>2. validators[vi + 1] < validators[k]
        BY <1>4, <1>8, <2>1
    <2>3. k \in DOMAIN validators /\ vi + 1 \in DOMAIN validators
        BY <1>1, <1>4
    <2>4. validators[k] \in Nat /\ validators[vi + 1] \in Nat
        BY <1>4, <2>3, MultisigAssumption
    <2>5. QED
        BY <1>1, <1>5, <2>2, <2>3, <2>4
<1>9. Made(call.metadata)' /\ Len(call.metadata.signatures) >= threshold
    BY <1>1, <1>2 DEF ScanInv, Made
<1>10. call'.i <= threshold' /\ call'.pc # "refused" /\ call'.pc # "accepted"
    BY <1>1, <1>2, <1>4
<1>11. \A j \in 1..call'.i :
          \E k \in 1..call'.validator_index : validators'[k] = Signer(j)'
    BY <1>2, <1>3, <1>6
<1>12. \A j \in 2..call'.i : Signer(j - 1)' < Signer(j)'
    BY <1>2, <1>3, <1>7
<1>13. Scanning' /\ InOrder' =>
          \A k \in 1..call'.validator_index : validators'[k] # Signer(call.i + 1)'
    <2>1. call'.i + 1 = i + 2
        BY <1>1, <1>2
    <2>2. Scanning' => i + 1 < threshold
        BY <1>2 DEF Scanning
    <2>3. Signer(call.i + 1)' = Signer(i + 2)
        BY <1>2, <2>1 DEF Signer
    <2>4. QED
        BY <1>2, <1>3, <1>8, <2>2, <2>3
<1>14. Len(call.metadata.signatures)' >= threshold'
    BY <1>2, <1>9
<1>15. QED
    BY <1>9, <1>10, <1>11, <1>12, <1>13, <1>14 DEF ScanInv

LEMMA ScanNext == SoundInv /\ [Next]_vars => ScanInv'
<1> SUFFICES ASSUME SoundInv, [Next]_vars PROVE ScanInv'
    OBVIOUS
<1> USE DEF SoundInv, TypeInv
<1>1. ASSUME call' = Idle PROVE ScanInv'
    BY <1>1 DEF ScanInv
<1>2. ASSUME NEW m \in Messages, NEW metadata \in SubmittedMetadata,
             Verify(m, metadata)
      PROVE  ScanInv'
    <2>1. /\ call'.metadata = metadata /\ call'.i = 0 /\ call'.validator_index = 0
          /\ call'.pc = IF Len(metadata.signatures) >= threshold
                        THEN "scan" ELSE "refused"
          /\ UNCHANGED <<validators, threshold, signed>> /\ Made(metadata)
        BY <1>2 DEF Verify
    <2>2. Made(call.metadata)'
        BY <2>1 DEF Made
    <2>3. call'.pc = "refused" => ~InOrder'
        BY <2>1 DEF InOrder
    <2>4. threshold \in Nat
        BY DEF TypeOK
    <2>5. QED
        BY <2>1, <2>2, <2>3, <2>4 DEF ScanInv
<1>3. CASE SkipValidator
    <2>1. call \in Calls /\ call # Idle
        BY <1>3 DEF SkipValidator, Scanning, TypeOK, Idle
    <2>2. /\ call'.pc = "scan" /\ call.pc = "scan" /\ call'.i = call.i
          /\ call'.validator_index = call.validator_index + 1
          /\ call.validator_index \in Nat /\ call.i \in Nat
          /\ call'.message = call.message /\ call'.metadata = call.metadata
          /\ UNCHANGED <<validators, threshold, signed>>
        BY <1>3, <2>1 DEF SkipValidator, Scanning, Calls
    <2>3. (\A j : Signer(j)' = Signer(j)) /\ InOrder' = InOrder
        BY <2>2, SignerStable
    <2>4. validators[call.validator_index + 1] # Signer(call.i + 1)
        BY <1>3 DEF SkipValidator
    <2>5. Made(call.metadata)'
        BY <2>1, <2>2 DEF ScanInv, Made
    <2>6. Scanning /\ InOrder =>
              \A k \in 1..(call.validator_index + 1) : validators[k] # Signer(call.i + 1)
        <3>1. \A k \in 1..(call.validator_index + 1) :
                  k \in 1..call.validator_index \/ k = call.validator_index + 1
            BY <2>2
        <3>2. QED
            BY <2>1, <2>4, <3>1 DEF ScanInv
    <2>7. \A j \in 1..call.i :
              \E k \in 1..(call.validator_index + 1) : validators[k] = Signer(j)
        <3>1. \A k \in 1..call.validator_index : k \in 1..(call.validator_index + 1)
            BY <2>2
        <3>2. QED
            BY <2>1, <3>1 DEF ScanInv
    <2>8. Scanning' = Scanning
        BY <2>2 DEF Scanning
    <2>9. /\ call'.i <= threshold' /\ Len(call.metadata.signatures)' >= threshold'
          /\ \A j \in 2..call'.i : Signer(j - 1)' < Signer(j)'
        BY <2>1, <2>2, <2>3 DEF ScanInv
    <2>10. QED
        BY <2>2, <2>3, <2>5, <2>6, <2>7, <2>8, <2>9 DEF ScanInv
<1>4. CASE MatchSigner
    BY <1>4, MatchKeepsScan
<1>5. CASE Exhausted
    <2>1. call \in Calls /\ call # Idle
        BY <1>5 DEF Exhausted, Scanning, TypeOK, Idle
    <2>2. /\ call'.pc = "refused" /\ call'.i = call.i /\ call.i \in Nat
          /\ call'.validator_index = call.validator_index
          /\ call'.message = call.message /\ call'.metadata = call.metadata
          /\ UNCHANGED <<validators, threshold, signed>>
        BY <1>5, <2>1 DEF Exhausted, Calls
    <2>3. (\A j : Signer(j)' = Signer(j)) /\ InOrder' = InOrder
        BY <2>2, SignerStable
    <2>4. Made(call.metadata)'
        BY <2>1, <2>2 DEF ScanInv, Made
    <2>5. ~InOrder
        <3>1. threshold \in Nat /\ call.i < threshold
            BY <1>5 DEF Exhausted, Scanning, TypeOK
        <3>2. \A k \in DOMAIN validators : k \in 1..call.validator_index
            BY <1>5, <2>1 DEF Exhausted, TypeOK, Calls
        <3>3. InOrder => \E k \in DOMAIN validators : validators[k] = Signer(call.i + 1)
            BY <2>2, <3>1 DEF InOrder
        <3>4. QED
            BY <1>5, <2>1, <3>2, <3>3 DEF ScanInv, Exhausted
    <2>6. QED
        BY <2>1, <2>2, <2>3, <2>4, <2>5 DEF ScanInv, Scanning
<1>6. CASE Accept
    <2>1. call \in Calls /\ call # Idle
        BY <1>6 DEF Accept, TypeOK, Idle
    <2>2. /\ call'.pc = "accepted" /\ call.pc = "scan" /\ call'.i = call.i
          /\ call.i = threshold /\ call'.validator_index = call.validator_index
          /\ call'.message = call.message /\ call'.metadata = call.metadata
          /\ UNCHANGED <<validators, threshold, signed>>
        BY <1>6, <2>1 DEF Accept, Calls
    <2>3. (\A j : Signer(j)' = Signer(j)) /\ InOrder' = InOrder
        BY <2>2, SignerStable
    <2>4. Made(call.metadata)'
        BY <2>1, <2>2 DEF ScanInv, Made
    <2>5. QED
        BY <2>1, <2>2, <2>3, <2>4 DEF ScanInv, Scanning
<1>7. CASE UNCHANGED vars
    <2>1. UNCHANGED <<validators, threshold, signed, call>>
        BY <1>7 DEF vars
    <2>2. (\A j : Signer(j)' = Signer(j)) /\ InOrder' = InOrder
        BY <2>1, SignerStable
    <2>3. QED
        BY <2>1, <2>2 DEF ScanInv, Scanning, Made
<1>8. QED
    BY <1>1, <1>2, <1>3, <1>4, <1>5, <1>6, <1>7
    DEF Next, Initialize, SetValidatorsAndThreshold, TransferOwnership, Sign, Return

LEMMA SoundAlways == Spec => []SoundInv
<1>1. Init => SoundInv
    BY TypeInit DEF Init, SoundInv, ConfigSound, ScanInv
<1>2. SoundInv /\ [Next]_vars => SoundInv'
    BY TypeNext, ConfigNext, ScanNext DEF SoundInv
<1>3. QED
    BY <1>1, <1>2, PTL DEF Spec

\* The matched signers are different validators, and each of them signed.
LEMMA AcceptedQuorum == SoundInv => QuorumSigned
<1> SUFFICES ASSUME SoundInv, call.pc = "accepted"
             PROVE  Cardinality(Signers) >= threshold
    BY DEF QuorumSigned
<1> USE DEF SoundInv, TypeInv
<1>1. call \in Calls /\ call # Idle /\ call.i = threshold
    BY DEF ScanInv, TypeOK, Idle
<1>2. /\ threshold \in Nat /\ Len(validators) \in Nat
      /\ validators \in Seq(EthAddresses)
    BY DEF TypeOK
<1>3. \A j \in 1..threshold :
          \E k \in 1..call.validator_index : validators[k] = Signer(j)
    BY <1>1 DEF ScanInv
<1>n. Signers \subseteq EthAddresses /\ EthAddresses \subseteq Nat
    BY <1>2, MultisigAssumption DEF Signers
<1>4. \A j \in 1..threshold : Signer(j) \in Signers
    <2> SUFFICES ASSUME NEW j \in 1..threshold PROVE Signer(j) \in Signers
        OBVIOUS
    <2>1. PICK k \in 1..call.validator_index : validators[k] = Signer(j)
        BY <1>3
    <2>2. k \in DOMAIN validators /\ Signer(j) \in EthAddresses
        BY <1>1, <1>2, <2>1 DEF Calls, TypeOK
    <2> DEFINE s == call.metadata.signatures[j]
               d == Digest(call.metadata.checkpoint, call.message)
    <2>3. s.signer = Signer(j) /\ s.digest = d
        BY <2>2, RecoveredSigned DEF Signer
    <2>4. j \in DOMAIN call.metadata.signatures
        BY <1>1, <1>2 DEF ScanInv, Calls, Metadata
    <2>5. <<Signer(j), d>> \in signed
        BY <1>1, <2>3, <2>4 DEF ScanInv, Made
    <2>6. QED
        BY <2>1, <2>2, <2>5 DEF Signers, Digest, SignedDigest
<1>5. \A j, k \in 1..threshold : j < k => Signer(j) < Signer(k)
    <2> DEFINE f == [j \in 1..threshold |-> Signer(j)]
    <2>1. \A j \in 1..threshold : f[j] = Signer(j) /\ Signer(j) \in Nat
        BY <1>4, <1>n
    <2>2. \A j \in 2..threshold : f[j - 1] < f[j]
        BY <1>1, <1>2, <2>1 DEF ScanInv
    <2> HIDE DEF f
    <2>3. \A j, k \in 1..threshold : j < k => f[j] < f[k]
        BY <1>2, <2>1, <2>2, NeighboursOrderAll
    <2>4. QED
        BY <2>1, <2>3
<1>6. IsFiniteSet(Signers)
    <2>1. Signers \in SUBSET EthAddresses
        BY <1>2 DEF Signers
    <2>2. QED
        BY <2>1, MultisigAssumption, FS_Subset
<1>7. Cardinality(1..threshold) <= Cardinality(Signers)
    <2> DEFINE f == [j \in 1..threshold |-> Signer(j)]
    <2>1. \A j \in 1..threshold : Signer(j) \in Nat
        BY <1>4, <1>n
    <2>2. \A j, k \in 1..threshold : f[j] = f[k] => j = k
        BY <1>2, <1>5, <2>1
    <2>3. f \in Injection(1..threshold, Signers)
        BY <1>4, <2>2 DEF Injection, IsInjective
    <2>4. QED
        BY <1>6, <2>3, FS_Injection
<1>8. Cardinality(1..threshold) = threshold
    BY <1>2, FS_Interval
<1>9. Cardinality(Signers) \in Nat
    BY <1>6, FS_CardinalityType
<1>10. QED
    BY <1>2, <1>7, <1>8, <1>9

\* Acceptance proves that as many registered validators as the threshold asks
\* for signed this message; a repeated or reused signature cannot stand in.
THEOREM QuorumSignedCorrect == Spec => []QuorumSigned
BY SoundAlways, AcceptedQuorum, PTL

\* A quorum in the validators' order is never refused.
THEOREM QuorumAcceptedCorrect == Spec => []QuorumAccepted
<1>1. SoundInv => QuorumAccepted
    BY DEF SoundInv, ScanInv, QuorumAccepted, Idle
<1>2. QED
    BY <1>1, SoundAlways, PTL

-----------------------------------------------------------------------------
(* ValidatorAnnounce: who comes first, and how many they are.               *)

\* The instance counts as this module does.
LEMMA SameCardinality == ASSUME NEW S PROVE Announcing!Cardinality(S) = Cardinality(S)
BY Zenon DEF Announcing!Cardinality, Cardinality

\* The first n of a sequence
FirstOf(s, n) == {s[i] : i \in 1..n}

LEMMA FirstOfCounts ==
    ASSUME NEW S, NEW s \in Seq(S), Announcing!IsInjective(s), NEW n \in 0..Len(s)
    PROVE  Announcing!Cardinality(FirstOf(s, n)) = n
<1> DEFINE f == [i \in 1..n |-> s[i]]
<1>1. f \in [1..n -> FirstOf(s, n)]
    BY DEF FirstOf
<1>2. \A i, j \in 1..n : f[i] = f[j] => i = j
    BY DEF Announcing!IsInjective
<1>3. \A v \in FirstOf(s, n) : \E i \in 1..n : f[i] = v
    BY DEF FirstOf
<1>4. ExistsBijection(1..n, FirstOf(s, n))
    <2> HIDE DEF f
    <2> QED
        BY <1>1, <1>2, <1>3, Fun_IsBij DEF ExistsBijection
<1>5. IsFiniteSet(1..n) /\ Cardinality(1..n) = n
    BY FS_Interval
<1> QED
    BY <1>4, <1>5, FS_Bijection, SameCardinality


-----------------------------------------------------------------------------
(* Announcements.                                                           *)

LEMMA AppendPrefix ==
    ASSUME NEW S, NEW s \in Seq(S), NEW x \in S
    PROVE  /\ Append(s, x) \in Seq(S)
           /\ Len(Append(s, x)) = Len(s) + 1
           /\ \A i \in 1..Len(s) : Append(s, x)[i] = s[i]
           /\ Append(s, x)[Len(s) + 1] = x
           /\ Append(s, x) # <<>>
OBVIOUS

\* Who has announced, where and what is refused as a replay: three parallel
\* records of one history.
Announced(vs, store, replay) ==
    /\ vs \in Seq(Validators)
    /\ store \in [Validators -> Seq(Storable)]
    /\ replay \subseteq Validators \X Storable
    /\ \A v \in Validators : store[v] # <<>> <=> \E i \in 1..Len(vs) : vs[i] = v
    /\ \A i, j \in 1..Len(vs) : vs[i] = vs[j] => i = j
    /\ \A v \in Validators, l \in Storable :
          <<v, l>> \in replay => \E i \in 1..Len(store[v]) : store[v][i] = l

\* A walk has read the first k validators, each one's history as far as it went
\* then, and stops when it has read all there are; b had announced when it began.
WalkAs(a, vs, store, pc, limit, k, b, read) ==
    /\ pc \in {"walking", "done"} /\ limit \in 1..QueryLimit
    /\ k \in 0..Len(vs) /\ b \in 0..Len(vs)
    /\ pc = "done" => b <= k
    /\ a = [pc |-> pc, limit |-> limit, began |-> FirstOf(vs, b), read |-> read, twice |-> FALSE]
    /\ read \in [FirstOf(vs, k) -> Seq(Storable)]
    /\ \A v \in FirstOf(vs, k) :
          /\ Len(read[v]) <= Len(store[v])
          /\ \A i \in 1..Len(read[v]) : read[v][i] = store[v][i]

Walk(a, vs, store) ==
    \/ a = [pc |-> "idle"]
    \/ \E pc, limit, k, b, read : WalkAs(a, vs, store, pc, limit, k, b, read)

Deployment ==
    /\ local_domain \in Domains \cup {0}
    /\ mailbox \in Mailboxes \cup {ZeroContract}

AnnounceInv ==
    /\ Deployment
    /\ Announced(announced, storage_locations, replay_protection)
    /\ Walk(agent, announced, storage_locations)

LEMMA AnnouncedAppends ==
    ASSUME Announced(announced, storage_locations, replay_protection),
           NEW v \in Validators, NEW l \in Locations, NEW s, Announcing!Announce(v, l, s)
    PROVE  /\ Announced(announced', storage_locations', replay_protection')
           /\ l \in Storable
           /\ announced' = announced \/ announced' = Append(announced, v)
           /\ storage_locations' =
                 [storage_locations EXCEPT ![v] = Append(storage_locations[v], l)]
<1> DEFINE st == storage_locations
<1> USE DEF Announced
<1>1. l \in Storable
    BY DEF Announcing!Announce, Announcing!Accepted
<1>2. /\ replay_protection' = replay_protection \cup {<<v, l>>}
      /\ announced' = IF st[v] = <<>> THEN Append(announced, v) ELSE announced
      /\ st' = [st EXCEPT ![v] = Append(st[v], l)]
    BY DEF Announcing!Announce
<1>3. /\ Append(st[v], l) \in Seq(Storable)
      /\ Len(Append(st[v], l)) = Len(st[v]) + 1
      /\ \A i \in 1..Len(st[v]) : Append(st[v], l)[i] = st[v][i]
      /\ Append(st[v], l)[Len(st[v]) + 1] = l
      /\ Append(st[v], l) # <<>>
    BY <1>1, AppendPrefix
<1>4. /\ Append(announced, v) \in Seq(Validators)
      /\ Len(Append(announced, v)) = Len(announced) + 1
      /\ \A i \in 1..Len(announced) : Append(announced, v)[i] = announced[i]
      /\ Append(announced, v)[Len(announced) + 1] = v
    BY AppendPrefix
<1>5. announced' \in Seq(Validators)
    BY <1>2, <1>4
<1>6. st' \in [Validators -> Seq(Storable)]
      /\ st'[v] = Append(st[v], l) /\ \A w \in Validators \ {v} : st'[w] = st[w]
    BY <1>2, <1>3
<1>7. replay_protection' \subseteq Validators \X Storable
    BY <1>1, <1>2
<1>8. Len(announced) \in Nat
    OBVIOUS
<1> DEFINE Listed == \A w \in Validators :
                       st'[w] # <<>> <=> \E i \in 1..Len(announced') : announced'[i] = w
            Once == \A i, j \in 1..Len(announced') : announced'[i] = announced'[j] => i = j
<1>9. ASSUME st[v] = <<>> PROVE Listed /\ Once
    <2>1. announced' = Append(announced, v)
        BY <1>2, <1>9
    <2>2. \A i \in 1..Len(announced) : announced[i] # v
        BY <1>9
    <2>3. ASSUME NEW w \in Validators
          PROVE  st'[w] # <<>> <=> \E i \in 1..Len(announced') : announced'[i] = w
        <3>1. CASE w = v
            <4>1. Len(announced) + 1 \in 1..Len(announced')
                BY <2>1, <1>4, <1>8
            <4> QED
                BY <2>1, <3>1, <4>1, <1>3, <1>4, <1>6
        <3>2. CASE w # v
            <4>1. (\E i \in 1..Len(announced') : announced'[i] = w)
                  <=> \E i \in 1..Len(announced) : announced[i] = w
                BY <2>1, <3>2, <1>4, <1>8
            <4>2. st[w] # <<>> <=> \E i \in 1..Len(announced) : announced[i] = w
                OBVIOUS
            <4> QED
                BY <3>2, <4>1, <4>2, <1>6
        <3> QED
            BY <3>1, <3>2
    <2>4. Once
        BY <2>1, <2>2, <1>4, <1>8
    <2> QED
        BY <2>3, <2>4
<1>10. ASSUME st[v] # <<>> PROVE Listed /\ Once
    <2>1. announced' = announced
        BY <1>2, <1>10
    <2>2. Listed
        BY <2>1, <1>3, <1>6, <1>10
    <2> QED
        BY <2>1, <2>2
<1>11. \A w \in Validators, m \in Storable :
          <<w, m>> \in replay_protection' => \E i \in 1..Len(st'[w]) : st'[w][i] = m
    <2> SUFFICES ASSUME NEW w \in Validators, NEW m \in Storable,
                        <<w, m>> \in replay_protection'
                 PROVE  \E i \in 1..Len(st'[w]) : st'[w][i] = m
        OBVIOUS
    <2>0. Len(st[v]) \in Nat
        OBVIOUS
    <2>1. CASE w = v /\ m = l
        <3>1. Len(st[v]) + 1 \in 1..Len(st'[v])
            BY <1>3, <1>6, <2>0
        <3> QED
            BY <2>1, <3>1, <1>3, <1>6
    <2>2. CASE <<w, m>> \in replay_protection
        <3>1. PICK i \in 1..Len(st[w]) : st[w][i] = m
            BY <2>2
        <3>2. Len(st[w]) \in Nat
            OBVIOUS
        <3>3. CASE w = v
            BY <3>1, <3>2, <3>3, <1>3, <1>6
        <3>4. CASE w # v
            BY <3>1, <3>4, <1>6
        <3> QED
            BY <3>3, <3>4
    <2> QED
        BY <2>1, <2>2, <1>2
<1> QED
    BY <1>1, <1>2, <1>5, <1>6, <1>7, <1>9, <1>10, <1>11

LEMMA FirstOfAppend ==
    ASSUME NEW s \in Seq(Validators), NEW x \in Validators, NEW n \in 0..Len(s)
    PROVE  FirstOf(Append(s, x), n) = FirstOf(s, n)
BY DEF FirstOf

\* An announcement never disturbs a walk.
LEMMA WalkSurvives ==
    ASSUME Announced(announced, storage_locations, replay_protection),
           Walk(agent, announced, storage_locations),
           NEW v \in Validators, NEW l \in Storable,
           announced' = announced \/ announced' = Append(announced, v),
           storage_locations' =
               [storage_locations EXCEPT ![v] = Append(storage_locations[v], l)]
    PROVE  Walk(agent, announced', storage_locations')
<1> DEFINE st == storage_locations
<1>1. CASE agent = [pc |-> "idle"]
    BY <1>1 DEF Walk
<1>2. CASE agent # [pc |-> "idle"]
    <2>1. PICK pc, limit, k, b, read :
              WalkAs(agent, announced, st, pc, limit, k, b, read)
        BY <1>2 DEF Walk
    <2>2. announced \in Seq(Validators) /\ st \in [Validators -> Seq(Storable)]
        BY DEF Announced
    <2>3. Len(announced') >= Len(announced) /\ Len(announced) \in Nat /\ Len(announced') \in Nat
        BY <2>2, AppendPrefix
    <2>7. FirstOf(announced', k) = FirstOf(announced, k)
          /\ FirstOf(announced', b) = FirstOf(announced, b)
        BY <2>1, <2>2, FirstOfAppend DEF WalkAs
    <2>4. k \in 0..Len(announced') /\ b \in 0..Len(announced')
        BY <2>1, <2>3 DEF WalkAs
    <2>5. FirstOf(announced, k) \subseteq Validators
        BY <2>1, <2>2 DEF FirstOf, WalkAs
    <2>6. ASSUME NEW w \in FirstOf(announced, k)
          PROVE  /\ Len(read[w]) <= Len(st'[w])
                 /\ \A i \in 1..Len(read[w]) : read[w][i] = st'[w][i]
        <3>1. w \in Validators /\ st[w] \in Seq(Storable) /\ read[w] \in Seq(Storable)
            BY <2>1, <2>2, <2>5 DEF WalkAs
        <3>2. /\ Len(Append(st[w], l)) = Len(st[w]) + 1
              /\ \A i \in 1..Len(st[w]) : Append(st[w], l)[i] = st[w][i]
            BY <3>1, AppendPrefix
        <3>3. st'[w] = st[w] \/ st'[w] = Append(st[w], l)
            BY <2>2, <3>1
        <3>4. Len(read[w]) <= Len(st[w]) /\ \A i \in 1..Len(read[w]) : read[w][i] = st[w][i]
            BY <2>1 DEF WalkAs
        <3>5. Len(st[w]) \in Nat /\ Len(read[w]) \in Nat
            BY <3>1
        <3> QED
            BY <3>2, <3>3, <3>4, <3>5
    <2>8. WalkAs(agent, announced', st', pc, limit, k, b, read)
        BY <2>1, <2>4, <2>6, <2>7 DEF WalkAs
    <2> QED
        BY <2>8 DEF Walk
<1> QED
    BY <1>1, <1>2


-----------------------------------------------------------------------------
(* A walk.                                                                  *)

LEMMA WalkBegins ==
    ASSUME Announced(announced, storage_locations, replay_protection),
           NEW limit \in 1..QueryLimit, Announcing!BeginWalk(limit)
    PROVE  Walk(agent', announced, storage_locations)
<1> DEFINE read == Announcing!LocationsOf(<<>>)
<1>1. Announcing!ToSet(announced) = FirstOf(announced, Len(announced))
      /\ Len(announced) \in Nat
    BY DEF Announced, Announcing!ToSet, FirstOf
<1>2. Announcing!ToSet(<<>>) = {} /\ FirstOf(announced, 0) = {}
    BY DEF Announcing!ToSet, FirstOf
<1>3. read \in [FirstOf(announced, 0) -> Seq(Storable)]
    BY <1>2 DEF Announcing!LocationsOf
<1>4. agent' = [pc |-> "walking", limit |-> limit, began |-> FirstOf(announced, Len(announced)),
                read |-> read, twice |-> FALSE]
    BY <1>1 DEF Announcing!BeginWalk
<1> HIDE DEF read
<1>5. WalkAs(agent', announced, storage_locations, "walking", limit, 0, Len(announced), read)
    BY <1>1, <1>2, <1>3, <1>4 DEF WalkAs
<1> QED
    BY <1>5 DEF Walk

\* The page from k on holds the validators between the k-th and the last it
\* reaches.
LEMMA PageMembers ==
    ASSUME NEW S, announced \in Seq(S), NEW k \in 0..Len(announced), NEW limit \in Nat \ {0}
    PROVE  \/ k = Len(announced) /\ Announcing!Page(k, limit) = <<>>
           \/ \E end \in (k + 1)..Len(announced) :
                 /\ Announcing!Page(k, limit) = SubSeq(announced, k + 1, end)
                 /\ Announcing!Page(k, limit) # <<>>
                 /\ Announcing!ToSet(Announcing!Page(k, limit)) =
                       {announced[i] : i \in (k + 1)..end}
<1> DEFINE count == Len(announced)
           end == IF k + limit < count THEN k + limit ELSE count
<1>1. count \in Nat
    OBVIOUS
<1>2. CASE k = count
    BY <1>1, <1>2 DEF Announcing!Page
<1>3. CASE k # count
    <2>1. end \in (k + 1)..count
        BY <1>1, <1>3
    <2>2. Announcing!Page(k, limit) = SubSeq(announced, k + 1, end)
        BY <1>1, <1>3 DEF Announcing!Page
    <2> HIDE DEF end
    <2> DEFINE page == SubSeq(announced, k + 1, end)
    <2>3. Len(page) = end - k /\ \A i \in 1..(end - k) : page[i] = announced[k + i]
        BY <1>1, <2>1
    <2>4. page # <<>>
        BY <1>1, <2>1, <2>3
    <2>5. DOMAIN page = 1..(end - k)
        BY <1>1, <2>1
    <2>6. Announcing!ToSet(page) = {announced[i] : i \in (k + 1)..end}
        <3>1. \A i \in 1..(end - k) : k + i \in (k + 1)..end
            BY <1>1, <2>1
        <3>2. \A i \in (k + 1)..end : i - k \in 1..(end - k) /\ k + (i - k) = i
            BY <1>1, <2>1
        <3>3. Announcing!ToSet(page) = {page[i] : i \in 1..(end - k)}
            BY <2>5 DEF Announcing!ToSet
        <3> HIDE DEF page
        <3> QED
            BY <2>3, <3>1, <3>2, <3>3
    <2> QED
        BY <2>1, <2>2, <2>4, <2>6
<1> QED
    BY <1>2, <1>3

LEMMA WalkReads ==
    ASSUME Announced(announced, storage_locations, replay_protection),
           Walk(agent, announced, storage_locations),
           Announcing!ReadPage
    PROVE  Walk(agent', announced, storage_locations)
<1> DEFINE st == storage_locations
<1>1. agent.pc = "walking"
    BY DEF Announcing!ReadPage
<1>2. PICK pc, limit, k, b, read : WalkAs(agent, announced, st, pc, limit, k, b, read)
    BY <1>1 DEF Walk
<1>3. /\ agent = [pc |-> "walking", limit |-> limit, began |-> FirstOf(announced, b),
                  read |-> read, twice |-> FALSE]
      /\ limit \in Nat \ {0} /\ limit \in 1..QueryLimit
      /\ k \in 0..Len(announced) /\ b \in 0..Len(announced)
      /\ read \in [FirstOf(announced, k) -> Seq(Storable)]
      /\ \A v \in FirstOf(announced, k) :
            /\ Len(read[v]) <= Len(st[v])
            /\ \A i \in 1..Len(read[v]) : read[v][i] = st[v][i]
    BY <1>1, <1>2, AnnounceAssumption DEF WalkAs, Announcing!AnnounceAssumption
<1>4. announced \in Seq(Validators) /\ st \in [Validators -> Seq(Storable)]
      /\ Announcing!IsInjective(announced) /\ Len(announced) \in Nat
    BY DEF Announced, Announcing!IsInjective
<1>5. DOMAIN agent.read = FirstOf(announced, k)
    BY <1>3
<1>6. Announcing!Cardinality(DOMAIN agent.read) = k
    BY <1>3, <1>4, <1>5, FirstOfCounts
<1> DEFINE page == Announcing!Page(k, limit)
<1>7. agent' = IF page = <<>>
               THEN [agent EXCEPT !.pc = "done"]
               ELSE [agent EXCEPT
                        !.read = [v \in FirstOf(announced, k) \cup Announcing!ToSet(page) |->
                                    IF v \in FirstOf(announced, k) THEN agent.read[v]
                                    ELSE Announcing!LocationsOf(page)[v]],
                        !.twice = agent.twice \/ Announcing!ToSet(page) \cap FirstOf(announced, k) # {}]
    BY <1>3, <1>5, <1>6 DEF Announcing!ReadPage
<1> HIDE DEF page
<1>8. CASE k = Len(announced) /\ page = <<>>
    <2>1. agent' = [pc |-> "done", limit |-> limit, began |-> FirstOf(announced, b),
                    read |-> read, twice |-> FALSE]
        BY <1>3, <1>7, <1>8
    <2>2. WalkAs(agent', announced, st, "done", limit, k, b, read)
        BY <1>3, <1>4, <1>8, <2>1 DEF WalkAs
    <2> QED
        BY <2>2 DEF Walk
<1>9. CASE \E end \in (k + 1)..Len(announced) :
                /\ page # <<>>
                /\ Announcing!ToSet(page) = {announced[i] : i \in (k + 1)..end}
    <2>1. PICK end \in (k + 1)..Len(announced) :
                /\ page # <<>>
                /\ Announcing!ToSet(page) = {announced[i] : i \in (k + 1)..end}
        BY <1>9
    <2>2. FirstOf(announced, k) \cup Announcing!ToSet(page) = FirstOf(announced, end)
        <3>1. 1..end = (1..k) \cup ((k + 1)..end)
            BY <1>3, <1>4, <2>1
        <3> QED
            BY <2>1, <3>1 DEF FirstOf
    <2>3. Announcing!ToSet(page) \cap FirstOf(announced, k) = {}
        <3>1. \A i \in (k + 1)..end, j \in 1..k : i \in DOMAIN announced /\ j \in DOMAIN announced
                                                   /\ i # j
            BY <1>3, <1>4, <2>1
        <3> QED
            BY <1>4, <2>1, <3>1 DEF FirstOf, Announcing!IsInjective
    <2> DEFINE more == [v \in FirstOf(announced, end) |->
                           IF v \in FirstOf(announced, k) THEN read[v]
                           ELSE Announcing!LocationsOf(page)[v]]
    <2>4. agent' = [pc |-> "walking", limit |-> limit, began |-> FirstOf(announced, b),
                    read |-> more, twice |-> FALSE]
        BY <1>3, <1>7, <2>1, <2>2, <2>3
    <2>5. FirstOf(announced, end) \subseteq Validators
        BY <1>3, <1>4, <2>1 DEF FirstOf
    <2>6. \A v \in FirstOf(announced, end) \ FirstOf(announced, k) :
              Announcing!LocationsOf(page)[v] = st[v]
        BY <2>2 DEF Announcing!LocationsOf
    <2>7. \A v \in FirstOf(announced, end) :
              /\ more[v] \in Seq(Storable)
              /\ Len(more[v]) <= Len(st[v])
              /\ \A i \in 1..Len(more[v]) : more[v][i] = st[v][i]
        <3> SUFFICES ASSUME NEW v \in FirstOf(announced, end)
                     PROVE  /\ more[v] \in Seq(Storable)
                            /\ Len(more[v]) <= Len(st[v])
                            /\ \A i \in 1..Len(more[v]) : more[v][i] = st[v][i]
            OBVIOUS
        <3>1. CASE v \in FirstOf(announced, k)
            <4>1. more[v] = read[v] /\ read[v] \in Seq(Storable)
                BY <1>3, <3>1
            <4> QED
                BY <1>3, <3>1, <4>1
        <3>2. CASE v \notin FirstOf(announced, k)
            <4>1. more[v] = st[v]
                BY <2>6, <3>2
            <4>2. st[v] \in Seq(Storable) /\ Len(st[v]) \in Nat
                BY <1>4, <2>5
            <4> QED
                BY <4>1, <4>2
        <3> QED
            BY <3>1, <3>2
    <2>8. more \in [FirstOf(announced, end) -> Seq(Storable)]
        BY <2>7
    <2> HIDE DEF more
    <2>9. end \in 0..Len(announced)
        BY <1>3, <1>4, <2>1
    <2>10. WalkAs(agent', announced, st, "walking", limit, end, b, more)
        BY <1>3, <2>4, <2>7, <2>8, <2>9 DEF WalkAs
    <2> QED
        BY <2>10 DEF Walk
<1> QED
    BY <1>3, <1>4, <1>8, <1>9, PageMembers DEF page

LEMMA AnnounceInit == Announcing!Init => AnnounceInv
<1> SUFFICES ASSUME Announcing!Init PROVE AnnounceInv
    OBVIOUS
<1>1. Deployment
    BY DEF Announcing!Init, Deployment
<1>2. Announced(announced, storage_locations, replay_protection)
    BY DEF Announcing!Init, Announced
<1>3. Walk(agent, announced, storage_locations)
    BY DEF Announcing!Init, Walk
<1> QED
    BY <1>1, <1>2, <1>3 DEF AnnounceInv

LEMMA AnnounceNext == AnnounceInv /\ [Announcing!Next]_(Announcing!vars) => AnnounceInv'
<1> SUFFICES ASSUME AnnounceInv, [Announcing!Next]_(Announcing!vars) PROVE AnnounceInv'
    OBVIOUS
<1> USE DEF AnnounceInv
<1>1. ASSUME UNCHANGED Announcing!contract, Walk(agent', announced, storage_locations)
      PROVE  AnnounceInv'
    BY <1>1 DEF Announcing!contract, Deployment
<1>2. ASSUME NEW d \in Domains, NEW mb \in Mailboxes, Announcing!Initialize(d, mb)
      PROVE  AnnounceInv'
    BY <1>2 DEF Announcing!Initialize, Deployment
<1>3. ASSUME NEW v \in Validators, NEW l \in Locations, NEW s, Announcing!Announce(v, l, s)
      PROVE  AnnounceInv'
    <2>1. /\ Announced(announced', storage_locations', replay_protection')
          /\ l \in Storable
          /\ announced' = announced \/ announced' = Append(announced, v)
          /\ storage_locations' =
                [storage_locations EXCEPT ![v] = Append(storage_locations[v], l)]
        BY <1>3, AnnouncedAppends
    <2>2. Walk(agent, announced', storage_locations')
        BY <2>1, WalkSurvives
    <2>3. agent' = agent /\ local_domain' = local_domain /\ mailbox' = mailbox
        BY <1>3 DEF Announcing!Announce
    <2> QED
        BY <2>1, <2>2, <2>3 DEF Deployment
<1>4. CASE \E limit \in 1..QueryLimit : Announcing!BeginWalk(limit)
    BY <1>1, <1>4, WalkBegins DEF Announcing!BeginWalk
<1>5. CASE Announcing!ReadPage
    BY <1>1, <1>5, WalkReads DEF Announcing!ReadPage
<1>6. CASE Announcing!EndWalk
    <2>1. Walk(agent', announced, storage_locations)
        BY <1>6 DEF Announcing!EndWalk, Walk
    <2> QED
        BY <1>1, <1>6, <2>1 DEF Announcing!EndWalk
<1>7. CASE UNCHANGED Announcing!vars
    <2>1. UNCHANGED Announcing!contract /\ agent' = agent
        BY <1>7 DEF Announcing!vars
    <2> QED
        BY <1>1, <2>1
<1> QED
    BY <1>2, <1>3, <1>4, <1>5, <1>6, <1>7 DEF Announcing!Next

\* Announcements keep the three records of each other, and a walk reads a
\* beginning of them.
THEOREM AnnounceCorrect == Announcing!Spec => []AnnounceInv
<1> QED
    BY AnnounceInit, AnnounceNext, PTL DEF Announcing!Spec

\* No refused attempt takes a location away from a validator that has not
\* announced it: for any number of validators and locations and every limit.
THEOREM NeverLockedOutCorrect == Announcing!Spec => []NeverLockedOut
<1>1. AnnounceInv => Announcing!TypeOK
    <2> SUFFICES ASSUME AnnounceInv PROVE Announcing!TypeOK
        OBVIOUS
    <2>1. announced \in Seq(Validators) /\ storage_locations \in [Validators -> Seq(Storable)]
          /\ replay_protection \subseteq Validators \X Storable
        BY DEF AnnounceInv, Announced
    <2>2. CASE agent = [pc |-> "idle"]
        BY <2>1, <2>2 DEF AnnounceInv, Deployment, Announcing!TypeOK
    <2>3. CASE agent # [pc |-> "idle"]
        <3>1. PICK pc, limit, k, b, read :
                  WalkAs(agent, announced, storage_locations, pc, limit, k, b, read)
            BY <2>3 DEF AnnounceInv, Walk
        <3>2. \A n \in 0..Len(announced) :
                  FirstOf(announced, n) \subseteq Announcing!ToSet(announced)
            BY <2>1 DEF FirstOf, Announcing!ToSet
        <3>3. /\ agent.pc \in {"walking", "done"} /\ agent.limit \in 1..QueryLimit
              /\ agent.twice \in BOOLEAN
              /\ agent.began = FirstOf(announced, b) /\ agent.read = read
              /\ DOMAIN read = FirstOf(announced, k)
              /\ read \in [DOMAIN read -> Seq(Storable)]
              /\ k \in 0..Len(announced) /\ b \in 0..Len(announced)
            BY <3>1 DEF WalkAs
        <3>4. agent.began \cup DOMAIN agent.read \subseteq Announcing!ToSet(announced)
            BY <3>2, <3>3
        <3> QED
            BY <2>1, <3>3, <3>4 DEF AnnounceInv, Deployment, Announcing!TypeOK
    <2> QED
        BY <2>2, <2>3
<1>2. AnnounceInv => NeverLockedOut
    <2> SUFFICES ASSUME AnnounceInv,
                        NEW v \in Validators, NEW l \in Storable,
                        ~Announcing!Contains(storage_locations[v], l),
                        Len(storage_locations[v]) < LocationLimit
                 PROVE  Announcing!Accepted(v, l,
                            [signer |-> v,
                             digest |-> Announcing!AnnouncementDigest(local_domain, mailbox, l)])
        BY <1>1 DEF NeverLockedOut, Announcing!NeverLockedOut
    <2>1. <<v, l>> \notin replay_protection
        BY DEF AnnounceInv, Announced, Announcing!Contains
    <2> QED
        BY <2>1 DEF Announcing!Accepted, Announcing!SignedBy
<1> QED
    BY <1>2, AnnounceCorrect, PTL

\* A finished walk has met everybody who had announced when it began, nobody
\* twice, and what it has read stays the beginning of each one's history: for
\* every page size, and whoever announces meanwhile.
THEOREM WalkCompleteCorrect == Announcing!Spec => []WalkComplete
<1>1. AnnounceInv => WalkComplete
    <2> SUFFICES ASSUME AnnounceInv, agent.pc = "done"
                 PROVE  /\ agent.began \subseteq DOMAIN agent.read
                        /\ ~agent.twice
                        /\ \A v \in DOMAIN agent.read :
                              Announcing!IsPrefix(agent.read[v], storage_locations[v])
        BY DEF WalkComplete, Announcing!WalkComplete
    <2>1. PICK pc, limit, k, b, read :
              WalkAs(agent, announced, storage_locations, pc, limit, k, b, read)
        BY DEF AnnounceInv, Walk
    <2>2. /\ agent.began = FirstOf(announced, b) /\ agent.read = read /\ ~agent.twice
          /\ DOMAIN read = FirstOf(announced, k) /\ b <= k
          /\ k \in Nat /\ b \in Nat /\ k \in 0..Len(announced)
        <3>1. announced \in Seq(Validators)
            BY DEF AnnounceInv, Announced
        <3> QED
            BY <2>1, <3>1 DEF WalkAs
    <2>3. FirstOf(announced, b) \subseteq FirstOf(announced, k)
        BY <2>2 DEF FirstOf
    <2>4. ASSUME NEW v \in FirstOf(announced, k)
          PROVE  Announcing!IsPrefix(read[v], storage_locations[v])
        <3>1. announced \in Seq(Validators) /\ storage_locations \in [Validators -> Seq(Storable)]
            BY DEF AnnounceInv, Announced
        <3>2. v \in Validators
            BY <2>2, <2>4, <3>1 DEF FirstOf
        <3>3. /\ read[v] \in Seq(Storable) /\ storage_locations[v] \in Seq(Storable)
              /\ Len(read[v]) <= Len(storage_locations[v])
              /\ \A i \in 1..Len(read[v]) : read[v][i] = storage_locations[v][i]
            BY <2>1, <2>4, <3>1, <3>2 DEF WalkAs
        <3>4. SubSeq(read[v], 1, Len(read[v])) = SubSeq(storage_locations[v], 1, Len(read[v]))
            BY <3>3
        <3> QED
            BY <3>3, <3>4 DEF Announcing!IsPrefix
    <2> QED
        BY <2>2, <2>3, <2>4
<1> QED
    BY <1>1, AnnounceCorrect, PTL
=============================================================================
