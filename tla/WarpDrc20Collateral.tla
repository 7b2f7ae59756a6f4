------------------------- MODULE WarpDrc20Collateral -------------------------
(***************************************************************************)
(* The collateral route (contracts/warp-drc20-collateral/src/lib.rs):      *)
(* senders lock an existing DRC20 token in the route, inbound messages     *)
(* release it.  `assets` holds the wrapped token's balances, of which the  *)
(* entry Self is the route's custody.  The token is someone else's code:   *)
(* it moves what it is asked to or, if Inexact, a unit less or more, and   *)
(* its users may send tokens to the route.  It makes no callbacks.         *)
(***************************************************************************)
EXTENDS WarpRoute

CONSTANTS
    Self,           \* the route as a holder of the wrapped token
    StartTokens,    \* what each identity holds of it at first
    MaxReceived,    \* bound on the value of inbound messages in a behaviour
    Inexact         \* whether the token may move something else than asked

Holders == Identities \cup {Self}

ASSUME CollateralAssumption ==
    /\ Self \notin Identities
    /\ StartTokens \in Nat
    /\ MaxReceived \in Nat
    /\ Inexact \in BOOLEAN

Init ==
    /\ InitRoute
    /\ assets = [h \in Holders |-> IF h = Self THEN 0 ELSE StartTokens]

-----------------------------------------------------------------------------
(* The wrapped token.                                                       *)

Debits(amount) == IF Inexact THEN amount..amount + 1 ELSE {amount}
Credits(amount) == IF Inexact THEN amount - 1..amount ELSE {amount}

\* The balances after a transfer that takes debit and gives credit.
Moved(from, to, debit, credit) ==
    [assets EXCEPT ![from] = @ - debit, ![to] = @ + credit]

TokenTransfer(from, to, amount) ==
    /\ \E debit \in Debits(amount), credit \in Credits(amount) :
          /\ assets[from] >= debit
          /\ assets' = Moved(from, to, debit, credit)
    /\ UNCHANGED <<route, ledger, stack>>

\* Mutant: custody is not compared before and after.
LockUnchecked(sender, amount) ==
    \E debit \in Debits(amount), credit \in Credits(amount) :
        /\ assets[sender] >= debit
        /\ assets' = Moved(sender, Self, debit, credit)

\* transfer_from the sender, with the check of what reached the route
Lock(sender, amount) ==
    \E debit \in Debits(amount), credit \in Credits(amount) :
        /\ assets[sender] >= debit
        /\ assets' = Moved(sender, Self, debit, credit)
        /\ assets'[Self] - assets[Self] = amount

\* transfer_collateral_exact
Release(recipient, amount) ==
    \E debit \in Debits(amount), credit \in Credits(amount) :
        /\ assets[Self] >= debit
        /\ assets' = Moved(Self, recipient, debit, credit)
        /\ assets[Self] - assets'[Self] = amount
        /\ assets'[recipient] - assets[recipient] = amount

-----------------------------------------------------------------------------
(* The route.                                                               *)

\* transfer_remote, from the quote to the call of dispatch
Quoted(fee) ==
    /\ TakeAndForward(fee)
    /\ Lock(Top.caller, Top.amount)

\* Mutant: custody promised to pending recipients counts as available.
UnreservedIgnoringPending(amount) == assets[Self] >= amount

\* assert_unreserved_collateral
Unreserved(amount) ==
    /\ assets[Self] >= route.pending_total
    /\ assets[Self] - route.pending_total >= amount

Handle(origin, sender, recipient, amount) ==
    /\ FromEnrolledRouter(origin, sender)
    /\ ledger.received + amount <= MaxReceived
    /\ Unreserved(amount)
    /\ \/ /\ recipient \in route.registered_accounts
          /\ ledger' = Paid(Receive(ledger, recipient, amount), recipient, amount)
          /\ Release(recipient, amount)
          /\ UNCHANGED route
       \/ /\ recipient \notin route.registered_accounts
          /\ ledger' = Receive(ledger, recipient, amount)
          /\ Owe(recipient, amount)
          /\ UNCHANGED assets
    /\ UNCHANGED stack

\* claim_pending and claim_pending_contract
ClaimPending(recipient) ==
    /\ Settle(recipient)
    /\ Release(recipient, route.pending_transfers[recipient])
    /\ ledger' = Paid(ledger, recipient, route.pending_transfers[recipient])
    /\ UNCHANGED stack

Next ==
    \/ CommonNext
    \/ \E from \in Callers, to \in Holders, amount \in Amounts :
          from # to /\ TokenTransfer(from, to, amount)
    \/ \E fee \in Fees : Quoted(fee)
    \/ \E d \in Domains, s \in Routers, r \in Identities, amount \in Amounts :
          Handle(d, s, r, amount)
    \/ \E r \in Identities : ClaimPending(r)

Spec == Init /\ [][Next]_vars

-----------------------------------------------------------------------------
(* Properties.                                                              *)

\* Storage, balances, ledger and frames have their shape.
TypeOK ==
    /\ route \in RouteStorage
    /\ assets \in [Holders -> Nat]
    /\ ledger \in Ledger
    /\ stack \in Seq(Frame([Holders -> Nat]))

\* "pending balances are liabilities against the route's live token custody":
\* the route holds what it owes, and besides that at least what it locked and
\* has not given back, whatever the token keeps of a transfer.
Backed ==
    /\ route.pending_total <= assets[Self]
    /\ ledger.taken - ledger.received <= assets[Self] - route.pending_total
=============================================================================
