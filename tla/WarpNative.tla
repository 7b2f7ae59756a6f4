----------------------------- MODULE WarpNative -----------------------------
(***************************************************************************)
(* The native DUSK route (contracts/warp-native/src/lib.rs): senders lock  *)
(* DUSK in the route, and inbound messages release it to registered        *)
(* accounts or reserve it for recipients who claim it later.  `assets` is  *)
(* the route's custody, its balance in the transfer contract.              *)
(***************************************************************************)
EXTENDS WarpRoute

Init ==
    /\ InitRoute
    /\ assets = 0

\* Mutant: the deposit is what the fee leaves of the amount.
QuotedFeeFromAmount(fee) ==
    /\ TakeAndForward(fee)
    /\ Top.amount + fee <= MaxU64
    /\ assets' = assets + Top.amount - fee

\* transfer_remote, from the quote to the call of dispatch: the deposit is the
\* amount and the fee together, of which the fee goes on to the Mailbox.
Quoted(fee) ==
    /\ TakeAndForward(fee)
    /\ Top.amount + fee <= MaxU64
    /\ assets' = assets + Top.amount

\* Mutant: custody promised to pending recipients counts as available.
UnreservedIgnoringPending(amount) == assets >= amount

\* assert_unreserved_dusk
Unreserved(amount) ==
    /\ assets >= route.pending_total
    /\ assets - route.pending_total >= amount

Handle(origin, sender, recipient, amount) ==
    /\ FromEnrolledRouter(origin, sender)
    /\ Unreserved(amount)
    /\ \/ /\ recipient \in route.registered_accounts
          /\ ledger' = Paid(Receive(ledger, recipient, amount), recipient, amount)
          /\ assets' = assets - amount
          /\ UNCHANGED route
       \/ /\ recipient \notin route.registered_accounts
          /\ ledger' = Receive(ledger, recipient, amount)
          /\ Owe(recipient, amount)
          /\ UNCHANGED assets
    /\ UNCHANGED stack

\* The transfer contract refuses to pay what the route does not hold.
ClaimPending(account) ==
    /\ Settle(account)
    /\ assets >= route.pending_transfers[account]
    /\ assets' = assets - route.pending_transfers[account]
    /\ ledger' = Paid(ledger, account, route.pending_transfers[account])
    /\ UNCHANGED stack

\* The DUSK moves, then receive_native_pending runs on the claiming contract,
\* which may call back before the claim returns.
ClaimPendingContract(contract) ==
    /\ Settle(contract)
    /\ assets >= route.pending_transfers[contract]
    /\ assets' = assets - route.pending_transfers[contract]
    /\ ledger' = Paid(ledger, contract, route.pending_transfers[contract])
    /\ Enter("receive_native_pending", contract, 0)

FinishClaim ==
    /\ Returned("receive_native_pending")
    /\ stack' = Pop
    /\ UNCHANGED <<route, assets, ledger>>

Next ==
    \/ CommonNext
    \/ \E fee \in Fees : Quoted(fee)
    \/ \E d \in Domains, s \in Routers, r \in Identities, amount \in Amounts :
          Handle(d, s, r, amount)
    \/ \E a \in Accounts : ClaimPending(a)
    \/ \E c \in Contracts : ClaimPendingContract(c)
    \/ FinishClaim

Spec == Init /\ [][Next]_vars

-----------------------------------------------------------------------------
(* Properties.                                                              *)

\* Storage, value and frames have their shape.
TypeOK ==
    /\ route \in RouteStorage
    /\ assets \in Nat
    /\ ledger \in Ledger
    /\ stack \in Seq(Frame(Nat))

\* "pending_total is reserved before either a new escrow entry or a direct
\* payment": every pending claim is backed by DUSK the route holds, and what
\* it holds beyond that is exactly what it took and has not given back, in the
\* middle of calls too.
Backed ==
    /\ route.pending_total <= assets
    /\ assets - route.pending_total = ledger.taken - ledger.received

\* "The caller must have previously called register_account": only registered
\* accounts are ever paid.  claim_pending does not look at the registry.
PaidAreRegistered ==
    \A a \in Accounts : ledger.paid[a] > 0 => a \in route.registered_accounts
=============================================================================
