---------------------------- MODULE HookedMailbox ----------------------------
(***************************************************************************)
(* The Mailbox with the hooks dusk-tx deploys it with: the required hook   *)
(* aggregates the Merkle tree and the protocol fee, the default hook is    *)
(* the gas paymaster (dusk-tx/src/main.rs, cmd_deploy_hyperlane).  A       *)
(* dispatch may instead select a hook of its sender's, `Custom`, whose     *)
(* code is unknown and may call back.  Each step is a step of Mailbox in   *)
(* which the hook on the other side of the call does its part; the         *)
(* deployed hooks make no callbacks, so theirs is a single step.           *)
(***************************************************************************)
EXTENDS Mailbox

CONSTANTS
    Aggregation, Paymaster, Custom,     \* the hooks a dispatch runs
    MerkleTree, FlatFee,                \* the aggregation's children
    HookOwners,                         \* identities the fee hooks may belong to
    ProtocolFees,                       \* fees the owner of the protocol fee may set
    MaxProtocolFee,
    Domains, GasLimits,                 \* destinations, and gas limits dispatchers ask for
    Destination, GasLimit,              \* what each message asks for
    GasConfigs, NoConfig, MaxGasLimit, Scale, MaxU128,
    NoPayment

\* Messages the Mailbox's nonce allows.
Outbound == [nonce : 0..MaxNonce, sender : Identities]

ASSUME HookedAssumption ==
    /\ {Aggregation, Paymaster, Custom} \subseteq Hooks
    /\ Aggregation # Paymaster /\ Aggregation # Custom /\ Paymaster # Custom
    /\ MerkleTree # FlatFee
    /\ HookOwners \subseteq Identities
    /\ MaxProtocolFee \in 0..MaxU64
    /\ ProtocolFees \subseteq 0..MaxU64
    /\ Destination \in [Outbound -> Domains]
    /\ GasLimit \in [Outbound -> GasLimits]

VARIABLES
    protocol, igp,                          \* storage of the two fee hooks
    pending_payments,                       \* of the aggregation
    inserted_message_ids, inserted_roots,   \* of the Merkle tree
    gas_bought,                             \* history: messages dispatched with the paymaster
    repriced,                               \* history: prices changed during a dispatch
    saved                                   \* what each Mailbox frame restores of these

hooks == <<protocol, igp, pending_payments, inserted_message_ids, inserted_roots,
           gas_bought, repriced>>
hvars == <<vars, hooks, saved>>

Children == <<MerkleTree, FlatFee>>

PF == INSTANCE ProtocolFee WITH Identities <- HookOwners, Fees <- ProtocolFees
IGP == INSTANCE InterchainGasPaymaster
          WITH Identities <- HookOwners, Configs <- GasConfigs, Messages <- Outbound
AH == INSTANCE AggregationHook
MT == INSTANCE MerkleTreeHook WITH MaxLeaves <- MaxNonce

\* What the paymaster's owner may configure, and that None is not a payment.
ASSUME PricesAssumption ==
    /\ IGP!PaymasterAssumption
    /\ NoPayment \notin [payer : Identities, fee : 0..MaxU64]
    /\ NoPayment \notin [message : Outbound, destination : Domains,
                         gas_limit : GasLimits, payment : 0..MaxU64]

HookStorage == [protocol |-> protocol, igp |-> igp, pending_payments |-> pending_payments,
                inserted_message_ids |-> inserted_message_ids,
                inserted_roots |-> inserted_roots, gas_bought |-> gas_bought,
                repriced |-> repriced]

HookedInit ==
    /\ Init
    /\ PF!Init
    /\ IGP!Init
    /\ AH!Init
    /\ MT!Init
    /\ gas_bought = {}
    /\ repriced = FALSE
    /\ saved = <<>>

HookedDeploy ==
    /\ \E o \in Owners, i \in Isms : Initialize(o, i, Paymaster, Aggregation)
    /\ UNCHANGED <<hooks, saved>>

-----------------------------------------------------------------------------
(* Dispatch.                                                                *)

\* The hook the top frame's call is running on.
Callee == IF Top.pc \in {"quote_required", "post_required", "pay_required"}
          THEN Top.required ELSE Top.hook

Calling(hook) == stack # <<>> /\ Callee = hook

\* Code that may call the Mailbox or a hook is running: between transactions
\* anyone's, in the middle of one only the custom hook's.
Open == stack = <<>> \/ Calling(Custom)

HookedFeeCredit ==
    /\ Open
    /\ FeeCredit
    /\ UNCHANGED <<hooks, saved>>

HookedDispatch ==
    /\ Open
    /\ \E caller \in Callers, hook \in {Paymaster, Custom, NoContract} : Dispatch(caller, hook)
    /\ saved' = Append(saved, HookStorage)
    /\ UNCHANGED hooks

\* What the aggregation's children answer to quote_dispatch.
ChildFees == [child \in {MerkleTree, FlatFee} |->
                 IF child = FlatFee THEN PF!Quote ELSE 0]

QuoteAggregation ==
    /\ \E fee \in 0..MaxU64 : AH!Quotes(ChildFees, fee) /\ QuoteRequired(fee)
    /\ UNCHANGED <<hooks, saved>>

QuotePaymaster ==
    /\ Calling(Paymaster)
    /\ LET domain == Destination[Top.message]
           gas_limit == GasLimit[Top.message]
       IN  /\ IGP!CanQuote(domain, gas_limit)
           /\ QuoteHook(IGP!QuoteGasPayment(domain, gas_limit))
    /\ UNCHANGED <<hooks, saved>>

QuoteCustom ==
    /\ Calling(Custom)
    /\ \E fee \in Fees : QuoteHook(fee)
    /\ UNCHANGED <<hooks, saved>>

PostAggregation ==
    /\ PostRequired
    /\ AH!PostDispatch(ChildFees)
    /\ MT!PostDispatch(Top.message)
    /\ PF!PostDispatch(Top.message.sender)
    /\ UNCHANGED <<igp, gas_bought, repriced, saved>>

\* The Merkle tree asks for no fee, so the payment is all the protocol fee's.
PayAggregation ==
    /\ PayRequired
    /\ AH!ReceivePayment(Top.required_fee)
    /\ \E p \in {pending_payments[i] : i \in DOMAIN pending_payments} :
          p.hook = FlatFee /\ PF!ReceivePayment(p.fee)
    /\ UNCHANGED <<igp, inserted_message_ids, inserted_roots, gas_bought,
                   repriced, saved>>

PostPaymaster ==
    /\ Calling(Paymaster)
    /\ PostHook
    /\ IGP!PostDispatch(Top.message, Destination[Top.message], GasLimit[Top.message])
    /\ UNCHANGED <<protocol, pending_payments, inserted_message_ids, inserted_roots,
                   gas_bought, repriced, saved>>

PayPaymaster ==
    /\ Returned("pay_hook")
    /\ Calling(Paymaster)
    /\ FinishDispatch
    /\ IGP!ReceivePayment(Top.hook_fee)
    /\ gas_bought' = gas_bought \cup {Top.message}
    /\ saved' = SubSeq(saved, 1, Len(saved) - 1)
    /\ UNCHANGED <<protocol, pending_payments, inserted_message_ids, inserted_roots, repriced>>

PostCustom ==
    /\ Calling(Custom)
    /\ PostHook
    /\ UNCHANGED <<hooks, saved>>

FinishCustom ==
    /\ Calling(Custom)
    /\ FinishDispatch
    /\ saved' = SubSeq(saved, 1, Len(saved) - 1)
    /\ UNCHANGED hooks

\* A failing call undoes the hooks' steps with the Mailbox's.
HookedAbort ==
    /\ Abort
    /\ LET s == saved[Len(saved)]
       IN  /\ protocol' = s.protocol
           /\ igp' = s.igp
           /\ pending_payments' = s.pending_payments
           /\ inserted_message_ids' = s.inserted_message_ids
           /\ inserted_roots' = s.inserted_roots
           /\ gas_bought' = s.gas_bought
           /\ repriced' = s.repriced
    /\ saved' = SubSeq(saved, 1, Len(saved) - 1)

-----------------------------------------------------------------------------
(* Calls of the fee hooks' owners and beneficiaries.                        *)

HookAdmin ==
    /\ Open
    /\ \E caller \in Callers :
          \/ PF!Admin(caller) /\ UNCHANGED igp
          \/ IGP!Admin(caller) /\ UNCHANGED protocol
    /\ repriced' = (repriced \/ stack # <<>>)
    /\ UNCHANGED <<vars, pending_payments, inserted_message_ids, inserted_roots,
                   gas_bought, saved>>

\* claim insists on a root call.
HookClaim ==
    /\ stack = <<>>
    /\ \E caller \in Accounts :
          \/ PF!Claim(caller) /\ UNCHANGED igp
          \/ IGP!Claim(caller) /\ UNCHANGED protocol
    /\ UNCHANGED <<vars, pending_payments, inserted_message_ids, inserted_roots,
                   gas_bought, repriced, saved>>

HookedNext ==
    \/ HookedDeploy
    \/ HookedFeeCredit
    \/ HookedDispatch
    \/ QuoteAggregation
    \/ QuotePaymaster
    \/ QuoteCustom
    \/ PostAggregation
    \/ PayAggregation
    \/ PostPaymaster
    \/ PayPaymaster
    \/ PostCustom
    \/ FinishCustom
    \/ HookedAbort
    \/ HookAdmin
    \/ HookClaim

HookedSpec == HookedInit /\ [][HookedNext]_hvars

-----------------------------------------------------------------------------
(* Properties.                                                              *)

\* Between transactions no hook waits for a payment: the payment a dispatch
\* announced has come or went with the failure.  A hook that still waits would
\* refuse every later dispatch ("payment already pending").  Only an owner that
\* changes a price in the middle of a dispatch can bring that about.
NothingPending ==
    stack = <<>> /\ ~repriced => /\ protocol.pending_payment = NoPayment
                    /\ igp.pending_payment = NoPayment
                    /\ pending_payments = <<>>

\* Each fee hook can pay its beneficiary in full, in the middle of a dispatch
\* too, whatever failed before.
FeesBacked == PF!Backed /\ IGP!Backed

\* The tree validators sign commits to the Mailbox's log: the root after
\* insertion n is the root of messages 0..n, and between transactions every
\* dispatched message is in the tree.
CheckpointsMirrorLog ==
    /\ \A i \in DOMAIN inserted_roots :
          inserted_roots[i] = SubSeq(dispatched_messages, 1, i)
    /\ stack = <<>> => Len(inserted_roots) = Len(dispatched_messages)

\* Between transactions the paymaster has one payment record for each message
\* dispatched with it, naming that message, and none for any other.
GasRecordsMatch ==
    LET payments == igp.gas_payments
        paid == {payments[i].message : i \in DOMAIN payments}
    IN  stack = <<>> => /\ paid = gas_bought
                        /\ Len(payments) = Cardinality(paid)

\* Every gas limit the paymaster supports has a price at every destination it
\* has a configuration for, in the middle of a dispatch too.
EveryLimitQuotable == IGP!EveryLimitQuotable
=============================================================================
