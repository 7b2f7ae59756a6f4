------------------------------ MODULE WarpRoute ------------------------------
(***************************************************************************)
(* What the three warp routes have in common: registered accounts,         *)
(* enrolled routers, transfers pending for recipients who have not proved  *)
(* who they are, administration, and the outer shape of transfer_remote.   *)
(* The contracts repeat this code; its lines are given for WarpNative.     *)
(*                                                                         *)
(* As in Mailbox, a step is the code between two calls, `stack` holds the  *)
(* route's calls in progress, and whoever a call went to may re-enter.     *)
(***************************************************************************)
EXTENDS Integers, Sequences, Functions

CONSTANTS
    Accounts,       \* Moonlight accounts, by the hash of their public key
    Contracts,      \* contracts that may call the route
    Owners,         \* identities ownership is given to
    Domains,        \* destinations and origins
    Routers,        \* remote routers
    NoRouter,       \* no entry in enrolled_routers
    HookIds, IsmIds,\* what set_hook and set_ism may choose, the zero contract included
    Amounts,        \* amounts of transfers, funding and withdrawals
    Fees,           \* what the Mailbox quotes and charges
    MaxU64,         \* u64::MAX
    MaxTaken,       \* bound on the value senders give the route in a behaviour
    MaxCredit,      \* bound on the credit funded from outside in a behaviour
    MaxDepth        \* bound on the route's calls in progress (call depth and gas)

Identities == Accounts \cup Contracts

ASSUME WarpRouteAssumption ==
    /\ Accounts \cap Contracts = {}
    /\ Owners \subseteq Identities
    /\ NoRouter \notin Routers
    /\ HookIds # {} /\ IsmIds # {}
    /\ MaxU64 \in Nat /\ MaxTaken \in Nat /\ MaxCredit \in Nat /\ MaxDepth \in Nat
    /\ Amounts \subseteq 1..MaxU64
    /\ Fees \subseteq 0..MaxU64

VARIABLES
    route,      \* the storage the routes share
    assets,     \* the value the route handles; each route says what it is
    ledger,     \* its credit with the Mailbox, and what happened so far
    stack       \* calls in progress, outermost first

vars == <<route, assets, ledger, stack>>

-----------------------------------------------------------------------------
(* State.                                                                   *)

RouteStorage == [owner : Identities,
                 hook : HookIds,
                 ism : IsmIds,
                 enrolled_routers : [Domains -> Routers \cup {NoRouter}],
                 registered_accounts : SUBSET Accounts,
                 pending_transfers : [Identities -> 0..MaxU64],
                 pending_total : 0..MaxU64]

\* Besides the credit, history: credit funded from outside and withdrawn, value
\* taken from senders, value in dispatched messages, value of handled messages
\* in all and by recipient, and what each recipient has been paid.
Ledger == [credit : 0..MaxU64, funded : Nat, withdrawn : Nat,
           taken : Nat, sent : Nat, received : Nat,
           credited : [Identities -> Nat], paid : [Identities -> Nat]]

PC == {"quote", "dispatch", "post_dispatch", "receive_native_pending"}

Frame(Assets) ==
    [pc : PC, caller : Identities, amount : Nat, credit_before : 0..MaxU64,
     saved : [route : RouteStorage, assets : Assets, ledger : Ledger]]

\* WarpNative::new and init; the routes keep an owner for good, so a second
\* init always fails.
InitRoute ==
    /\ \E o \in Owners, routers \in [Domains -> Routers \cup {NoRouter}] :
          route = [owner |-> o,
                   hook |-> CHOOSE h \in HookIds : TRUE,
                   ism |-> CHOOSE i \in IsmIds : TRUE,
                   enrolled_routers |-> routers,
                   registered_accounts |-> {},
                   pending_transfers |-> [r \in Identities |-> 0],
                   pending_total |-> 0]
    /\ ledger = [credit |-> 0, funded |-> 0, withdrawn |-> 0,
                 taken |-> 0, sent |-> 0, received |-> 0,
                 credited |-> [r \in Identities |-> 0],
                 paid |-> [r \in Identities |-> 0]]
    /\ stack = <<>>

-----------------------------------------------------------------------------
(* Calls.                                                                   *)

Top == stack[Len(stack)]
Pop == SubSeq(stack, 1, Len(stack) - 1)

Returned(pc) == stack # <<>> /\ Top.pc = pc

\* caller::effective_caller and drc20::sender_account
Callers == IF stack = <<>> THEN Identities ELSE Contracts

Enter(pc, caller, amount) ==
    /\ Len(stack) < MaxDepth
    /\ stack' = Append(stack, [pc |-> pc, caller |-> caller, amount |-> amount,
                               credit_before |-> ledger.credit,
                               saved |-> [route |-> route, assets |-> assets,
                                          ledger |-> ledger]])

Goto(pc) == stack' = [stack EXCEPT ![Len(stack)].pc = pc]

\* Mutant: a failing dispatch is taken for a finished one.
AbortSwallowed ==
    /\ stack # <<>>
    /\ stack' = Pop
    /\ UNCHANGED <<route, assets, ledger>>

\* A call the top frame made, or an assertion of its own, failed.
Abort ==
    /\ stack # <<>>
    /\ route' = Top.saved.route
    /\ assets' = Top.saved.assets
    /\ ledger' = Top.saved.ledger
    /\ stack' = Pop

-----------------------------------------------------------------------------
(* Registration and the pending ledger.                                     *)

RegisterAccount(account) ==
    /\ route' = [route EXCEPT !.registered_accounts = @ \cup {account}]
    /\ UNCHANGED <<assets, ledger, stack>>

\* Mutant: the aggregate is not increased.
OweUnaccounted(recipient, amount) ==
    /\ route.pending_transfers[recipient] + amount <= MaxU64
    /\ route' = [route EXCEPT !.pending_transfers[recipient] = @ + amount]

\* handle, for a recipient that is not a registered account
Owe(recipient, amount) ==
    /\ route.pending_transfers[recipient] + amount <= MaxU64
    /\ route.pending_total + amount <= MaxU64
    /\ route' = [route EXCEPT !.pending_transfers[recipient] = @ + amount,
                              !.pending_total = @ + amount]

\* Mutant: the claim leaves the entry for a second claim.
SettleKeepsEntry(recipient) ==
    LET amount == route.pending_transfers[recipient]
    IN  /\ amount > 0
        /\ route.pending_total >= amount
        /\ route' = [route EXCEPT !.pending_total = @ - amount]

\* A claim removes the entry before anything else happens.
Settle(recipient) ==
    LET amount == route.pending_transfers[recipient]
    IN  /\ amount > 0
        /\ route.pending_total >= amount
        /\ route' = [route EXCEPT !.pending_transfers[recipient] = 0,
                                  !.pending_total = @ - amount]

Receive(l, recipient, amount) ==
    [l EXCEPT !.received = @ + amount, !.credited[recipient] = @ + amount]

Paid(l, recipient, amount) == [l EXCEPT !.paid[recipient] = @ + amount]

\* handle accepts messages of enrolled routers only.
FromEnrolledRouter(origin, sender) == route.enrolled_routers[origin] = sender

-----------------------------------------------------------------------------
(* transfer_remote.                                                         *)

TransferRemote(caller, destination, amount) ==
    /\ route.enrolled_routers[destination] # NoRouter
    /\ Enter("quote", caller, amount)
    /\ UNCHANGED <<route, assets, ledger>>

\* The Mailbox runs one dispatch at a time: it refuses a second one.
MailboxIdle == \A i \in DOMAIN stack : stack[i].pc \notin {"dispatch", "post_dispatch"}

\* The route takes the amount from its sender (how is each route's own) and
\* forwards the fee, which the sender's deposit pays, to its credit.
TakeAndForward(fee) ==
    /\ Returned("quote")
    /\ MailboxIdle
    /\ ledger.taken + Top.amount <= MaxTaken
    /\ ledger.credit + fee <= MaxU64
    /\ ledger' = [ledger EXCEPT !.taken = @ + Top.amount, !.credit = @ + fee]
    /\ Goto("dispatch")
    /\ UNCHANGED route

\* Mailbox::dispatch quotes again, takes the fee from the route's credit and
\* logs the message, then runs the hooks.
MailboxCharges(fee) ==
    /\ Returned("dispatch")
    /\ ledger.credit >= fee
    /\ ledger' = [ledger EXCEPT !.credit = @ - fee, !.sent = @ + Top.amount]
    /\ Goto("post_dispatch")
    /\ UNCHANGED <<route, assets>>

\* Mutant: the credit is not compared with what it was.
FinishTransferUnchecked ==
    /\ Returned("post_dispatch")
    /\ stack' = Pop
    /\ UNCHANGED <<route, assets, ledger>>

FinishTransfer ==
    /\ Returned("post_dispatch")
    /\ ledger.credit = Top.credit_before
    /\ stack' = Pop
    /\ UNCHANGED <<route, assets, ledger>>

\* Mailbox::fund_dispatch for this route, by anyone
FundCredit(amount) ==
    /\ ledger.funded + amount <= MaxCredit
    /\ ledger.credit + amount <= MaxU64
    /\ ledger' = [ledger EXCEPT !.credit = @ + amount, !.funded = @ + amount]
    /\ UNCHANGED <<route, assets, stack>>

-----------------------------------------------------------------------------
(* Administration.                                                          *)

OnlyOwner(caller) == caller = route.owner

EnrollRemoteRouter(caller, domain, router) ==
    /\ OnlyOwner(caller)
    /\ route' = [route EXCEPT !.enrolled_routers[domain] = router]
    /\ UNCHANGED <<assets, ledger, stack>>

SetHook(caller, hook) ==
    /\ OnlyOwner(caller)
    /\ route' = [route EXCEPT !.hook = hook]
    /\ UNCHANGED <<assets, ledger, stack>>

SetIsm(caller, ism) ==
    /\ OnlyOwner(caller)
    /\ route' = [route EXCEPT !.ism = ism]
    /\ UNCHANGED <<assets, ledger, stack>>

WithdrawDispatchCredit(caller, amount) ==
    /\ OnlyOwner(caller)
    /\ ledger.credit >= amount
    /\ ledger' = [ledger EXCEPT !.credit = @ - amount, !.withdrawn = @ + amount]
    /\ UNCHANGED <<route, assets, stack>>

TransferOwnership(caller, new_owner) ==
    /\ OnlyOwner(caller)
    /\ route' = [route EXCEPT !.owner = new_owner]
    /\ UNCHANGED <<assets, ledger, stack>>

Admin ==
    \E caller \in Callers :
        \/ \E d \in Domains, r \in Routers : EnrollRemoteRouter(caller, d, r)
        \/ \E h \in HookIds : SetHook(caller, h)
        \/ \E i \in IsmIds : SetIsm(caller, i)
        \/ \E amount \in Amounts : WithdrawDispatchCredit(caller, amount)
        \/ \E o \in Owners : TransferOwnership(caller, o)

\* The steps whose code is the same in every route.
CommonNext ==
    \/ \E a \in Accounts : RegisterAccount(a)
    \/ \E caller \in Callers, d \in Domains, amount \in Amounts :
          TransferRemote(caller, d, amount)
    \/ \E fee \in Fees : MailboxCharges(fee)
    \/ FinishTransfer
    \/ \E amount \in Amounts : FundCredit(amount)
    \/ Admin
    \/ Abort

-----------------------------------------------------------------------------
(* Properties.                                                              *)

\* The aggregate the custody checks reserve is the sum of the entries: neither a
\* claim nor a delivery moves one without the other (deep review, C28 and C34).
PendingTotalIsSum ==
    route.pending_total = SumFunction(route.pending_transfers)

\* A recipient is paid what the messages addressed to it carried, less what is
\* still pending, and never twice, also when its code runs in the middle of a
\* claim.
PaidOnce ==
    \A r \in Identities :
        ledger.paid[r] + route.pending_transfers[r] = ledger.credited[r]

\* Between transactions, what senders gave is what messages told the other side:
\* no value was taken for a message that was not dispatched, none is in two.
TakenIsSent == stack = <<>> => ledger.taken = ledger.sent

\* What a transaction in progress falls back to.
CommittedLedger == IF stack = <<>> THEN ledger ELSE stack[1].saved.ledger

\* A transfer never spends the route's standing credit: over a transaction the
\* credit falls only by what the owner withdraws.
StandingCreditKept ==
    [][CommittedLedger.credit + CommittedLedger.withdrawn
         <= CommittedLedger'.credit + CommittedLedger'.withdrawn]_vars
=============================================================================
