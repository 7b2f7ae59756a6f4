------------------------------- MODULE Mailbox -------------------------------
(***************************************************************************)
(* The Mailbox contract of hyperlane-dusk (contracts/mailbox/src/lib.rs):  *)
(* outbound dispatch with its fee credits and hooks, inbound processing    *)
(* with its ISM and recipient calls, and administration.                   *)
(*                                                                         *)
(* The virtual machine runs calls synchronously and lets a callee call     *)
(* back into a contract that is still executing.  A step of this module is *)
(* therefore the code the Mailbox runs between two calls it makes or       *)
(* receives: `stack` holds one frame for each of its calls in progress,    *)
(* and the contract on the other side of the top frame's call is free to   *)
(* re-enter any operation, to return any answer, or to fail.  A failing    *)
(* call undoes everything since it began, which is why a frame keeps the   *)
(* state it was entered with.                                              *)
(***************************************************************************)
EXTENDS Integers, Sequences, FiniteSets

CONSTANTS
    Accounts,           \* Moonlight accounts, by the hash of their public key
    Contracts,          \* contracts that may call the Mailbox: routes, hooks, recipients
    Hooks,              \* contract ids dispatch may use as a hook
    Isms,               \* contract ids that may verify messages
    NoContract,         \* ZERO_CONTRACT
    NoOwner,            \* owner = None
    NoMessage,          \* the zero id latest_dispatched_id starts with
    Owners,             \* identities ownership is given to
    Inbound,            \* encoded messages relayers may submit: [version, destination, ...]
    Version,            \* VERSION
    LocalDomain,        \* local_domain
    Amounts,            \* funding and withdrawal amounts
    Fees,               \* answers of quote_dispatch
    MaxU64,             \* u64::MAX
    MaxNonce,           \* u32::MAX
    MaxDepth,           \* bound on Mailbox frames in one call chain (the VM's call depth and gas)
    ReentrantIsmQuery   \* whether a recipient may re-enter while asked for its ISM

Identities == Accounts \cup Contracts

ASSUME MailboxAssumption ==
    /\ NoContract \notin Hooks \cup Isms
    /\ NoOwner \notin Identities
    /\ Owners \subseteq Identities
    /\ MaxU64 \in Nat
    /\ MaxNonce \in Nat
    /\ MaxDepth \in Nat
    /\ Amounts \subseteq 0..MaxU64
    /\ Fees \subseteq 0..MaxU64
    /\ ReentrantIsmQuery \in BOOLEAN
    /\ \A m \in Inbound : {"version", "destination"} \subseteq DOMAIN m

VARIABLES
    \* configuration
    default_ism,            \* the default ISM
    default_hook,           \* the hook used when dispatch names none
    required_hook,          \* the hook every dispatch runs
    owner,                  \* Option<H256>
    \* outbound
    nonce,                  \* of the next message
    dispatching,            \* the guard against recursive dispatch
    latest_dispatched_id,   \* the most recent message
    dispatched_messages,    \* every message, indexed by nonce
    posted,                 \* history: messages the required hook's post_dispatch accepted
    \* inbound
    delivered,              \* messages with a delivery record
    processed_ids,          \* messages in delivery order
    handled,                \* history: how often each message was handed to its recipient
    \* value
    fee_credits,            \* DUSK owed to each identity
    custody,                \* the Mailbox's balance in the transfer contract
    \* control
    stack                   \* the Mailbox's calls in progress, outermost first

config == <<default_ism, default_hook, required_hook, owner>>
outbound == <<nonce, dispatching, latest_dispatched_id, dispatched_messages, posted>>
inbound == <<delivered, processed_ids, handled>>
value == <<fee_credits, custody>>
vars == <<config, outbound, inbound, value, stack>>

-----------------------------------------------------------------------------
(* State.  A message stands for its encoding and for its id: keccak256 of the
   encoding is taken as injective, and of the encoded fields the nonce and the
   sender are the ones the Mailbox itself decides.                           *)

Message == [nonce : Nat, sender : Identities]

\* What a failing call restores.
Storage == [default_ism : Isms \cup {NoContract},
            default_hook : Hooks \cup {NoContract},
            required_hook : Hooks \cup {NoContract},
            owner : Identities \cup {NoOwner},
            nonce : 0..MaxNonce,
            dispatching : BOOLEAN,
            latest_dispatched_id : Message \cup {NoMessage},
            dispatched_messages : Seq(Message),
            posted : Seq(Message),
            delivered : SUBSET Inbound,
            processed_ids : Seq(Inbound),
            handled : [Inbound -> Nat],
            fee_credits : [Identities -> 0..MaxU64],
            custody : Int]

Current == [default_ism |-> default_ism,
            default_hook |-> default_hook,
            required_hook |-> required_hook,
            owner |-> owner,
            nonce |-> nonce,
            dispatching |-> dispatching,
            latest_dispatched_id |-> latest_dispatched_id,
            dispatched_messages |-> dispatched_messages,
            posted |-> posted,
            delivered |-> delivered,
            processed_ids |-> processed_ids,
            handled |-> handled,
            fee_credits |-> fee_credits,
            custody |-> custody]

RestoreConfig(s) ==
    /\ default_ism' = s.default_ism
    /\ default_hook' = s.default_hook
    /\ required_hook' = s.required_hook
    /\ owner' = s.owner

RestoreOutbound(s) ==
    /\ nonce' = s.nonce
    /\ dispatching' = s.dispatching
    /\ latest_dispatched_id' = s.latest_dispatched_id
    /\ dispatched_messages' = s.dispatched_messages
    /\ posted' = s.posted

RestoreInbound(s) ==
    /\ delivered' = s.delivered
    /\ processed_ids' = s.processed_ids
    /\ handled' = s.handled

RestoreValue(s) ==
    /\ fee_credits' = s.fee_credits
    /\ custody' = s.custody

\* Where a frame waits: the call named by its pc is in progress.
DispatchPC == {"quote_required", "quote_hook", "post_required", "pay_required",
               "post_hook", "pay_hook"}
ProcessPC == {"ism_query", "verify", "handle"}

\* quoted is the hook that gave required_fee, required the one called and paid.
DispatchFrame == [op : {"dispatch"}, pc : DispatchPC, message : Message,
                  hook : Hooks \cup {NoContract}, quoted : Hooks \cup {NoContract},
                  required : Hooks \cup {NoContract},
                  required_fee : 0..MaxU64, hook_fee : 0..MaxU64, saved : Storage]
ProcessFrame == [op : {"process"}, pc : ProcessPC, inbound : Inbound,
                 ism : Isms \cup {NoContract}, saved : Storage]

-----------------------------------------------------------------------------
(* Deployment.                                                              *)

\* Mailbox::new
Init ==
    /\ default_ism = NoContract
    /\ default_hook = NoContract
    /\ required_hook = NoContract
    /\ owner = NoOwner
    /\ nonce = 0
    /\ dispatching = FALSE
    /\ latest_dispatched_id = NoMessage
    /\ dispatched_messages = <<>>
    /\ posted = <<>>
    /\ delivered = {}
    /\ processed_ids = <<>>
    /\ handled = [m \in Inbound |-> 0]
    /\ fee_credits = [p \in Identities |-> 0]
    /\ custody = 0
    /\ stack = <<>>

\* Mailbox::init.  The VM runs it at deployment; its own guard is what keeps a
\* later call out.
Initialize(new_owner, ism, hook, required) ==
    /\ stack = <<>>
    /\ owner = NoOwner /\ default_ism = NoContract
    /\ hook # required
    /\ owner' = new_owner
    /\ default_ism' = ism
    /\ default_hook' = hook
    /\ required_hook' = required
    /\ UNCHANGED <<outbound, inbound, value, stack>>

-----------------------------------------------------------------------------
(* Who may call.  A root transaction acts for its account or reaches the
   Mailbox through a contract; a callback can only come from a contract.     *)

Top == stack[Len(stack)]
Pop == SubSeq(stack, 1, Len(stack) - 1)

\* caller::effective_caller
Callers == IF stack = <<>> THEN Identities ELSE Contracts

MayEnter ==
    /\ default_ism # NoContract
    /\ stack # <<>> /\ Top.pc = "ism_query" => ReentrantIsmQuery

\* The top frame waits at pc and the call it made has come back.
Returned(pc) == stack # <<>> /\ Top.pc = pc

\* The top frame goes on to frame f.
Continue(f) == stack' = [stack EXCEPT ![Len(stack)] = f]

\* Mutant: a failure of handle is swallowed and leaves the delivery record.
AbortSwallowed ==
    /\ stack # <<>>
    /\ RestoreConfig(Top.saved)
    /\ RestoreOutbound(Top.saved)
    /\ RestoreValue(Top.saved)
    /\ handled' = Top.saved.handled
    /\ stack' = Pop
    /\ UNCHANGED <<delivered, processed_ids>>

\* A call the top frame made, or an assertion of the frame itself, failed: the
\* frame's caller sees an error and every effect since its entry is undone.
Abort ==
    /\ stack # <<>>
    /\ RestoreConfig(Top.saved)
    /\ RestoreOutbound(Top.saved)
    /\ RestoreInbound(Top.saved)
    /\ RestoreValue(Top.saved)
    /\ stack' = Pop

-----------------------------------------------------------------------------
(* Fee credits.                                                             *)

\* Mailbox::fund_dispatch, paid by the transaction's deposit, and
\* Mailbox::receive_dispatch_funding, paid by a transfer from the contract
\* that is credited; the environment decides whether the value is there.
FundDispatch(payer, amount) ==
    /\ MayEnter
    /\ amount > 0
    /\ fee_credits[payer] + amount <= MaxU64
    /\ fee_credits' = [fee_credits EXCEPT ![payer] = @ + amount]
    /\ custody' = custody + amount
    /\ UNCHANGED <<config, outbound, inbound, stack>>

\* Mailbox::withdraw_dispatch_credit: contract_to_account makes no callback.
WithdrawDispatchCredit(caller, amount) ==
    /\ MayEnter
    /\ amount > 0
    /\ fee_credits[caller] >= amount
    /\ custody >= amount
    /\ fee_credits' = [fee_credits EXCEPT ![caller] = @ - amount]
    /\ custody' = custody - amount
    /\ UNCHANGED <<config, outbound, inbound, stack>>

-----------------------------------------------------------------------------
(* Mailbox::dispatch, in the pieces its external calls cut it into.         *)

Selected(hook) == IF hook = NoContract THEN default_hook ELSE hook

\* Mutant: dispatch without its recursion guard.
DispatchUnguarded(caller, hook) ==
    /\ MayEnter
    /\ Len(stack) < MaxDepth
    /\ Selected(hook) # required_hook
    /\ dispatching' = TRUE
    /\ stack' = Append(stack,
                  [op |-> "dispatch", pc |-> "quote_required",
                   message |-> [nonce |-> nonce, sender |-> caller],
                   hook |-> Selected(hook),
                   quoted |-> required_hook, required |-> required_hook,
                   required_fee |-> 0, hook_fee |-> 0, saved |-> Current])
    /\ UNCHANGED <<config, inbound, value, nonce, latest_dispatched_id,
                   dispatched_messages, posted>>

Dispatch(caller, hook) ==
    /\ MayEnter
    /\ Len(stack) < MaxDepth
    /\ Selected(hook) # required_hook
    /\ ~dispatching
    /\ dispatching' = TRUE
    /\ stack' = Append(stack,
                  [op |-> "dispatch", pc |-> "quote_required",
                   message |-> [nonce |-> nonce, sender |-> caller],
                   hook |-> Selected(hook),
                   quoted |-> required_hook, required |-> required_hook,
                   required_fee |-> 0, hook_fee |-> 0, saved |-> Current])
    /\ UNCHANGED <<config, inbound, value, nonce, latest_dispatched_id,
                   dispatched_messages, posted>>

QuoteRequired(fee) ==
    /\ Returned("quote_required")
    /\ Continue([Top EXCEPT !.pc = "quote_hook", !.required_fee = fee])
    /\ UNCHANGED <<config, outbound, inbound, value>>

\* Mutant: the guard is released when the effects are done, before the hooks run.
QuoteHookReleases(fee) ==
    /\ Returned("quote_hook")
    /\ LET m == Top.message
           total == Top.required_fee + fee
       IN  /\ total <= MaxU64
           /\ fee_credits[m.sender] >= total
           /\ nonce < MaxNonce
           /\ fee_credits' = [fee_credits EXCEPT ![m.sender] = @ - total]
           /\ latest_dispatched_id' = m
           /\ dispatched_messages' = Append(dispatched_messages, m)
           /\ nonce' = nonce + 1
    /\ dispatching' = FALSE
    /\ Continue([Top EXCEPT !.pc = "post_required", !.hook_fee = fee,
                            !.required = required_hook])
    /\ UNCHANGED <<config, inbound, custody, posted>>

\* Mutant: the credit pays for the selected hook only.
QuoteHookUnderReserves(fee) ==
    /\ Returned("quote_hook")
    /\ LET m == Top.message
           total == Top.required_fee + fee
       IN  /\ total <= MaxU64
           /\ fee_credits[m.sender] >= total
           /\ nonce < MaxNonce
           /\ fee_credits' = [fee_credits EXCEPT ![m.sender] = @ - fee]
           /\ latest_dispatched_id' = m
           /\ dispatched_messages' = Append(dispatched_messages, m)
           /\ nonce' = nonce + 1
    /\ Continue([Top EXCEPT !.pc = "post_required", !.hook_fee = fee,
                            !.required = required_hook])
    /\ UNCHANGED <<config, inbound, custody, dispatching, posted>>

\* The second quote is back: reserve the sender's credit, log the message and
\* start the required hook's post_dispatch.
QuoteHook(fee) ==
    /\ Returned("quote_hook")
    /\ LET m == Top.message
           total == Top.required_fee + fee
       IN  /\ total <= MaxU64
           /\ fee_credits[m.sender] >= total
           /\ nonce < MaxNonce
           /\ fee_credits' = [fee_credits EXCEPT ![m.sender] = @ - total]
           /\ latest_dispatched_id' = m
           /\ dispatched_messages' = Append(dispatched_messages, m)
           /\ nonce' = nonce + 1
    /\ Continue([Top EXCEPT !.pc = "post_required", !.hook_fee = fee,
                            !.required = required_hook])
    /\ UNCHANGED <<config, inbound, custody, dispatching, posted>>

\* call_hook_with_payment: with no fee the payment is skipped, otherwise the
\* value leaves before receive_payment runs on the hook.
PostRequired ==
    /\ Returned("post_required")
    /\ custody >= Top.required_fee
    /\ posted' = Append(posted, Top.message)
    /\ custody' = custody - Top.required_fee
    /\ Continue([Top EXCEPT !.pc = IF Top.required_fee = 0
                                   THEN "post_hook" ELSE "pay_required"])
    /\ UNCHANGED <<config, inbound, fee_credits, nonce, dispatching,
                   latest_dispatched_id, dispatched_messages>>

PayRequired ==
    /\ Returned("pay_required")
    /\ Continue([Top EXCEPT !.pc = "post_hook"])
    /\ UNCHANGED <<config, outbound, inbound, value>>

PostHook ==
    /\ Returned("post_hook")
    /\ Top.hook_fee > 0
    /\ custody >= Top.hook_fee
    /\ custody' = custody - Top.hook_fee
    /\ Continue([Top EXCEPT !.pc = "pay_hook"])
    /\ UNCHANGED <<config, outbound, inbound, fee_credits>>

\* Mutant: a dispatch that pays its hook returns with the guard still up.
FinishDispatchStuck ==
    /\ \/ Returned("post_hook") /\ Top.hook_fee = 0 /\ dispatching' = FALSE
       \/ Returned("pay_hook") /\ UNCHANGED dispatching
    /\ stack' = Pop
    /\ UNCHANGED <<config, inbound, value, nonce, latest_dispatched_id,
                   dispatched_messages, posted>>

FinishDispatch ==
    /\ \/ Returned("post_hook") /\ Top.hook_fee = 0
       \/ Returned("pay_hook")
    /\ dispatching' = FALSE
    /\ stack' = Pop
    /\ UNCHANGED <<config, inbound, value, nonce, latest_dispatched_id,
                   dispatched_messages, posted>>

-----------------------------------------------------------------------------
(* Mailbox::process.                                                        *)

Process(m) ==
    /\ MayEnter
    /\ Len(stack) < MaxDepth
    /\ m.version = Version
    /\ m.destination = LocalDomain
    /\ m \notin delivered
    /\ stack' = Append(stack, [op |-> "process", pc |-> "ism_query",
                               inbound |-> m, ism |-> NoContract, saved |-> Current])
    /\ UNCHANGED <<config, outbound, inbound, value>>

\* resolve_recipient_ism came back: the message is marked delivered before the
\* ISM's verify starts.
StartVerify(ism) == Continue([Top EXCEPT !.pc = "verify", !.ism = ism])

\* Mutant: the delivery is indexed but not recorded.
ResolveIsmUnrecorded(answer) ==
    /\ Returned("ism_query")
    /\ processed_ids' = Append(processed_ids, Top.inbound)
    /\ StartVerify(IF answer = NoContract THEN default_ism ELSE answer)
    /\ UNCHANGED <<config, outbound, value, handled, delivered>>

\* The recipient named an ISM, or the zero contract for the default one.
ResolveIsm(answer) ==
    /\ Returned("ism_query")
    /\ processed_ids' = Append(processed_ids, Top.inbound)
    /\ delivered' = delivered \cup {Top.inbound}
    /\ StartVerify(IF answer = NoContract THEN default_ism ELSE answer)
    /\ UNCHANGED <<config, outbound, value, handled>>

\* The recipient's query failed, which undid what it had done: use the default
\* ISM.
ResolveIsmFails ==
    /\ Returned("ism_query")
    /\ RestoreConfig(Top.saved)
    /\ RestoreOutbound(Top.saved)
    /\ RestoreValue(Top.saved)
    /\ processed_ids' = Append(Top.saved.processed_ids, Top.inbound)
    /\ delivered' = Top.saved.delivered \cup {Top.inbound}
    /\ handled' = Top.saved.handled
    /\ StartVerify(Top.saved.default_ism)

\* The ISM accepted; the recipient's handle starts.  A refusal aborts.
Verified ==
    /\ Returned("verify")
    /\ handled' = [handled EXCEPT ![Top.inbound] = @ + 1]
    /\ Continue([Top EXCEPT !.pc = "handle"])
    /\ UNCHANGED <<config, outbound, value, delivered, processed_ids>>

FinishProcess ==
    /\ Returned("handle")
    /\ stack' = Pop
    /\ UNCHANGED <<config, outbound, inbound, value>>

-----------------------------------------------------------------------------
(* Administration.                                                          *)

\* Mutant: any caller may administer a Mailbox that has an owner.
OnlyOwned(caller) == owner # NoOwner

OnlyOwner(caller) == owner # NoOwner /\ caller = owner

SetDefaultIsm(caller, ism) ==
    /\ MayEnter
    /\ OnlyOwner(caller)
    /\ default_ism' = ism
    /\ UNCHANGED <<default_hook, required_hook, owner, outbound, inbound, value, stack>>

SetDefaultHook(caller, hook) ==
    /\ MayEnter
    /\ OnlyOwner(caller)
    /\ hook # required_hook
    /\ default_hook' = hook
    /\ UNCHANGED <<default_ism, required_hook, owner, outbound, inbound, value, stack>>

SetRequiredHook(caller, hook) ==
    /\ MayEnter
    /\ OnlyOwner(caller)
    /\ hook # default_hook
    /\ required_hook' = hook
    /\ UNCHANGED <<default_ism, default_hook, owner, outbound, inbound, value, stack>>

TransferOwnership(caller, new_owner) ==
    /\ MayEnter
    /\ OnlyOwner(caller)
    /\ owner' = new_owner
    /\ UNCHANGED <<default_ism, default_hook, required_hook, outbound, inbound, value, stack>>

RenounceOwnership(caller) ==
    /\ MayEnter
    /\ OnlyOwner(caller)
    /\ owner' = NoOwner
    /\ UNCHANGED <<default_ism, default_hook, required_hook, outbound, inbound, value, stack>>

-----------------------------------------------------------------------------
(* The specification.                                                       *)

Deploy == \E o \in Owners, i \in Isms, h, r \in Hooks : Initialize(o, i, h, r)

FeeCredit ==
    \E amount \in Amounts :
        \/ \E payer \in Identities : FundDispatch(payer, amount)
        \/ \E caller \in Callers : WithdrawDispatchCredit(caller, amount)

DispatchStep ==
    \/ \E caller \in Callers, hook \in Hooks \cup {NoContract} : Dispatch(caller, hook)
    \/ \E fee \in Fees : QuoteRequired(fee) \/ QuoteHook(fee)
    \/ PostRequired
    \/ PayRequired
    \/ PostHook
    \/ FinishDispatch

ProcessStep ==
    \/ \E m \in Inbound : Process(m)
    \/ \E answer \in Isms \cup {NoContract} : ResolveIsm(answer)
    \/ ResolveIsmFails
    \/ Verified
    \/ FinishProcess

Admin ==
    \E caller \in Callers :
        \/ \E ism \in Isms : SetDefaultIsm(caller, ism)
        \/ \E hook \in Hooks : SetDefaultHook(caller, hook) \/ SetRequiredHook(caller, hook)
        \/ \E new_owner \in Owners : TransferOwnership(caller, new_owner)
        \/ RenounceOwnership(caller)

Next == Deploy \/ FeeCredit \/ DispatchStep \/ ProcessStep \/ Admin \/ Abort

Spec == Init /\ [][Next]_vars

-----------------------------------------------------------------------------
(* Properties.                                                              *)

\* The stored state and every frame have the shape the contract gives them.
TypeOK ==
    /\ Current \in Storage
    /\ stack \in Seq(DispatchFrame \cup ProcessFrame)

Dispatching == {i \in DOMAIN stack : stack[i].op = "dispatch"}

\* The outbound log is what off-chain agents index by nonce: slot n holds a
\* message carrying nonce n and the latest id is the last slot's, whatever
\* hooks and recipients call back into during dispatch (lines 369-372).
DispatchLog ==
    LET log == dispatched_messages
    IN  /\ Len(log) = nonce
        /\ \A i \in 1..Len(log) : log[i].nonce = i - 1
        /\ latest_dispatched_id =
             IF log = <<>> THEN NoMessage ELSE log[Len(log)]

\* The guard is set exactly while a dispatch runs, and only one can run: no
\* sequence of failures and callbacks leaves it stuck (lines 322-323, 420).
GuardTracksDispatch ==
    /\ dispatching <=> Dispatching # {}
    /\ \A i, j \in Dispatching : i = j

\* The required hook sees the messages in nonce order and misses none: only the
\* message whose post_dispatch is running is logged and not yet posted.
RequiredHookOrder ==
    \/ posted = dispatched_messages
    \/ \E i \in Dispatching :
          /\ stack[i].pc = "post_required"
          /\ dispatched_messages = Append(posted, stack[i].message)

\* What a dispatch in progress has taken from its sender's credit and not yet
\* handed to its hooks.
Unpaid(f) == CASE f.pc = "post_required" -> f.required_fee + f.hook_fee
               [] f.pc \in {"pay_required", "post_hook"} -> f.hook_fee
               [] OTHER -> 0

Reserved == IF Dispatching = {} THEN 0
            ELSE Unpaid(stack[CHOOSE i \in Dispatching : TRUE])

\* The sum of all credits, one element for each unit owed.
Liability(credits) ==
    Cardinality({u \in Identities \X (1..MaxU64) : u[2] <= credits[u[1]]})

\* "Mailbox custody must equal the sum of remaining payer liabilities"
\* (contracts/integration-tests/tests/integration.rs), also in the middle of a
\* dispatch, where the reserved fees are still in custody.
Solvent == custody = Liability(fee_credits) + Reserved

\* The required hook that is called and paid is the one whose quote was taken,
\* and never the selected hook as well: nobody who is called during a dispatch can
\* change the required hook, but a contract that owned the Mailbox when it began
\* (lines 315-318, 347 and 399).
PaidAsQuoted ==
    \A i \in Dispatching :
        stack[i].saved.owner \notin Contracts =>
            /\ stack[i].required = stack[i].quoted
            /\ stack[i].hook # stack[i].required

\* No message reaches its recipient twice, or enters the delivery index twice,
\* not even when the ISM or the recipient submits it again from its callback.
DeliveredOnce ==
    /\ \A m \in Inbound : handled[m] <= 1
    /\ \A i, j \in DOMAIN processed_ids :
          i # j => processed_ids[i] # processed_ids[j]

\* Between transactions a message is marked delivered exactly when it is in
\* the delivery index and its recipient has handled it after verification.
DeliveredMeansHandled ==
    stack = <<>> =>
        /\ delivered = {processed_ids[i] : i \in DOMAIN processed_ids}
        /\ \A m \in Inbound : m \in delivered <=> handled[m] > 0

\* The state a transaction in progress falls back to when it fails.
Committed == IF stack = <<>> THEN Current ELSE stack[1].saved

\* Renouncing is final: no later call, init included, installs an owner.
RenouncedForever ==
    [][Committed.owner = NoOwner /\ Committed.default_ism # NoContract
         => Committed'.owner = NoOwner]_vars
=============================================================================
