------------------------------ MODULE WarpDrc20 ------------------------------
(***************************************************************************)
(* The synthetic route (contracts/warp-drc20/src/lib.rs): a DRC20 token    *)
(* that is burned when it leaves and minted when it arrives, at once for   *)
(* registered accounts, at the claim for everyone else.  `assets` is the   *)
(* token: balances, allowances and supply.  Absent map entries are zeros.  *)
(***************************************************************************)
EXTENDS WarpRoute

CONSTANT Spenders   \* principals that may be given an allowance

ASSUME SpendersAssumption == Spenders \subseteq Identities

Token == [balances : [Identities -> 0..MaxU64],
          allowances : [Identities -> [Spenders -> 0..MaxU64]],
          supply : 0..MaxU64]

Init ==
    /\ InitRoute
    /\ assets = [balances |-> [p \in Identities |-> 0],
                 allowances |-> [p \in Identities |-> [s \in Spenders |-> 0]],
                 supply |-> 0]

-----------------------------------------------------------------------------
(* The token.                                                               *)

\* Mutant: both balances are read before either is written.
DoTransferStale(token, from, to, amount) ==
    [token EXCEPT !.balances = [@ EXCEPT ![from] = token.balances[from] - amount,
                                         ![to] = token.balances[to] + amount]]

\* do_transfer; a transfer to oneself moves nothing.
DoTransfer(token, from, to, amount) ==
    IF from = to THEN token
    ELSE [token EXCEPT !.balances[from] = @ - amount, !.balances[to] = @ + amount]

CanTransfer(token, from, to, amount) ==
    /\ token.balances[from] >= amount
    /\ from # to => token.balances[to] + amount <= MaxU64

Transfer(caller, to, amount) ==
    /\ CanTransfer(assets, caller, to, amount)
    /\ assets' = DoTransfer(assets, caller, to, amount)
    /\ UNCHANGED <<route, ledger, stack>>

Approve(caller, spender, amount) ==
    /\ assets' = [assets EXCEPT !.allowances[caller][spender] = amount]
    /\ UNCHANGED <<route, ledger, stack>>

TransferFrom(caller, from, to, amount) ==
    /\ assets.allowances[from][caller] >= amount
    /\ CanTransfer(assets, from, to, amount)
    /\ assets' = DoTransfer([assets EXCEPT !.allowances[from][caller] = @ - amount],
                            from, to, amount)
    /\ UNCHANGED <<route, ledger, stack>>

\* mint and burn, with their checked arithmetic
Mint(to, amount) ==
    /\ assets.balances[to] + amount <= MaxU64
    /\ assets.supply + amount <= MaxU64
    /\ assets' = [assets EXCEPT !.balances[to] = @ + amount, !.supply = @ + amount]

\* Mutant: the burn takes the tokens and leaves the supply.
BurnKeepsSupply(from, amount) ==
    /\ assets.balances[from] >= amount
    /\ assets.supply >= amount
    /\ assets' = [assets EXCEPT !.balances[from] = @ - amount]

Burn(from, amount) ==
    /\ assets.balances[from] >= amount
    /\ assets.supply >= amount
    /\ assets' = [assets EXCEPT !.balances[from] = @ - amount, !.supply = @ - amount]

-----------------------------------------------------------------------------
(* The route.                                                               *)

\* transfer_remote, from the quote to the call of dispatch: the fee's deposit
\* is forwarded, then the sender's tokens are burned.
Quoted(fee) ==
    /\ TakeAndForward(fee)
    /\ Burn(Top.caller, Top.amount)

\* Mutant: capacity promised to pending recipients counts as available.
MintCapacityIgnoringPending(amount) == assets.supply + amount <= MaxU64

\* ensure_mint_capacity
MintCapacity(amount) == assets.supply + route.pending_total + amount <= MaxU64

Handle(origin, sender, recipient, amount) ==
    /\ FromEnrolledRouter(origin, sender)
    /\ MintCapacity(amount)
    /\ \/ /\ recipient \in route.registered_accounts
          /\ ledger' = Paid(Receive(ledger, recipient, amount), recipient, amount)
          /\ Mint(recipient, amount)
          /\ UNCHANGED route
       \/ /\ recipient \notin route.registered_accounts
          /\ ledger' = Receive(ledger, recipient, amount)
          /\ Owe(recipient, amount)
          /\ UNCHANGED assets
    /\ UNCHANGED stack

\* claim_pending and claim_pending_contract
ClaimPending(recipient) ==
    /\ Settle(recipient)
    /\ Mint(recipient, route.pending_transfers[recipient])
    /\ ledger' = Paid(ledger, recipient, route.pending_transfers[recipient])
    /\ UNCHANGED stack

\* DRC20 callers are the account of a root call and the contract of a nested
\* one; a claim reads the transaction's account at any depth.
TokenNext ==
    \E caller \in Callers, amount \in Amounts \cup {0} :
        \/ \E to \in Identities : Transfer(caller, to, amount)
        \/ \E spender \in Spenders : Approve(caller, spender, amount)
        \/ /\ caller \in Spenders
           /\ \E from, to \in Identities : TransferFrom(caller, from, to, amount)

Next ==
    \/ CommonNext
    \/ TokenNext
    \/ \E fee \in Fees : Quoted(fee)
    \/ \E d \in Domains, s \in Routers, r \in Identities, amount \in Amounts :
          Handle(d, s, r, amount)
    \/ \E r \in Identities : ClaimPending(r)

Spec == Init /\ [][Next]_vars

-----------------------------------------------------------------------------
(* Properties.                                                              *)

\* Storage, token, ledger and frames have their shape.
TypeOK ==
    /\ route \in RouteStorage
    /\ assets \in Token
    /\ ledger \in Ledger
    /\ stack \in Seq(Frame(Token))

\* Tokens are neither lost nor made by transfers: the supply is the sum of the
\* balances, self transfers and failures included.
SupplyIsSum == assets.supply = SumFunction(assets.balances)

\* What exists and what is promised is what came in less what went out, and the
\* promises fit the u64 supply.
Conserved ==
    /\ assets.supply + route.pending_total = ledger.received - ledger.taken
    /\ assets.supply + route.pending_total <= MaxU64

\* "Claiming authenticates its account, decrements the aggregate reserve, and
\* mints": no pending transfer can be stuck at one of the claim's checks.
ClaimsSucceed ==
    \A r \in Identities :
        LET amount == route.pending_transfers[r]
        IN  /\ amount <= route.pending_total
            /\ assets.supply + amount <= MaxU64
            /\ assets.balances[r] + amount <= MaxU64
=============================================================================
