---------------------------- MODULE WarpDrc20Proofs ----------------------------
(***************************************************************************)
(* The synthetic route mints what came in and burns what went out, keeps   *)
(* room in the u64 supply for every pending claim, and pays each recipient *)
(* what its messages carried, for all constants.                           *)
(***************************************************************************)
EXTENDS WarpDrc20, WarpRouteProofs

\* Tokens that exist or are promised are the ones that came in and did not go
\* out, and they fit the supply.
Balanced(r, t, l) ==
    /\ t.supply + r.pending_total = l.received - l.taken
    /\ t.supply + r.pending_total <= MaxU64

PaidUp(r, l) ==
    \A p \in Identities : l.paid[p] + r.pending_transfers[p] = l.credited[p]

\* The supply is the sum of the balances.
Counted(t) == t.supply = SumFunction(t.balances)

SupplySums(t) == IsFiniteSet(Identities) => Counted(t)

Sound == {s \in [route : RouteStorage, assets : Token, ledger : Ledger] :
             Balanced(s.route, s.assets, s.ledger) /\ PaidUp(s.route, s.ledger)
             /\ SumsUp(s.route) /\ SupplySums(s.assets)}

\* The inductive invariant.  A failing call restores any of the saved states,
\* so they are sound as well.
IInv == State \in Sound /\ stack \in Seq(FrameOver(Sound))

\* Soundness of the current state, spelled out.
Now == /\ route \in RouteStorage /\ assets \in Token /\ ledger \in Ledger
       /\ Balanced(route, assets, ledger) /\ PaidUp(route, ledger)
       /\ SumsUp(route) /\ SupplySums(assets)

LEMMA NowIsSound == State \in Sound <=> Now
    BY DEF State, Sound, Now

LEMMA NowIsSoundNext == State' \in Sound <=> Now'
    BY DEF State, Sound, Now

\* The numbers of a well-typed state.
LEMMA Numbers ==
    ASSUME Now
    PROVE  /\ MaxU64 \in Nat
           /\ assets.supply \in 0..MaxU64 /\ route.pending_total \in 0..MaxU64
           /\ assets.balances \in [Identities -> 0..MaxU64]
           /\ ledger.taken \in Nat /\ ledger.received \in Nat
           /\ route.pending_transfers \in [Identities -> 0..MaxU64]
           /\ ledger.paid \in [Identities -> Nat] /\ ledger.credited \in [Identities -> Nat]
    BY WarpRouteAssumption DEF Now, RouteStorage, Ledger, Token

\* The route is deployed without tokens or claims.
LEMMA InitSound == Init => IInv
<1> SUFFICES ASSUME Init PROVE IInv
    OBVIOUS
<1> USE WarpRouteAssumption
<1>1. route \in RouteStorage
    <2>1. (CHOOSE h \in HookIds : TRUE) \in HookIds /\ (CHOOSE i \in IsmIds : TRUE) \in IsmIds
        OBVIOUS
    <2> QED
        BY <2>1 DEF Init, InitRoute, RouteStorage, Identities
<1>2. ledger \in Ledger
    BY DEF Init, InitRoute, Ledger
<1>3. assets \in Token
    BY DEF Init, Token
<1>4. Balanced(route, assets, ledger) /\ PaidUp(route, ledger)
    BY DEF Init, InitRoute, Balanced, PaidUp
<1>5. State \in Sound
    <2>1. IsFiniteSet(Identities) => Counted(assets)
        BY SumNone DEF Init, Counted
    <2> QED
        BY <1>1, <1>2, <1>3, <1>4, <2>1, InitSumsUp, NowIsSound DEF Now, Init, SupplySums
<1>6. stack \in Seq(FrameOver(Sound))
    BY DEF Init, InitRoute
<1> QED
    BY <1>5, <1>6 DEF IInv

-----------------------------------------------------------------------------
(* The token.                                                               *)

\* A permitted transfer keeps the token's shape and its supply.
LEMMA TransferKeeps ==
    ASSUME NEW t \in Token, NEW from \in Identities, NEW to \in Identities,
           NEW amount \in Nat, CanTransfer(t, from, to, amount)
    PROVE  DoTransfer(t, from, to, amount) \in Token
           /\ DoTransfer(t, from, to, amount).supply = t.supply
<1>1. CASE from = to
    BY <1>1 DEF DoTransfer
<1>2. CASE from # to
    <2>1. /\ MaxU64 \in Nat /\ t.balances \in [Identities -> 0..MaxU64]
          /\ t.balances[from] >= amount /\ t.balances[to] + amount <= MaxU64
        BY <1>2, WarpRouteAssumption DEF CanTransfer, Token
    <2>2. t.balances[from] - amount \in 0..MaxU64 /\ t.balances[to] + amount \in 0..MaxU64
        BY <2>1
    <2> DEFINE balances == [t.balances EXCEPT ![from] = @ - amount, ![to] = @ + amount]
    <2>3. balances \in [Identities -> 0..MaxU64]
        BY <1>2, <2>1, <2>2
    <2>4. DoTransfer(t, from, to, amount) = [t EXCEPT !.balances = balances]
        BY <1>2 DEF DoTransfer, Token
    <2> HIDE DEF balances
    <2> QED
        BY <2>3, <2>4 DEF Token
<1> QED
    BY <1>1, <1>2

\* A transfer gives one balance what it takes from another.
LEMMA TransferKeepsSum ==
    ASSUME NEW t \in Token, NEW from \in Identities, NEW to \in Identities,
           NEW amount \in Nat, CanTransfer(t, from, to, amount), SupplySums(t)
    PROVE  SupplySums(DoTransfer(t, from, to, amount))
<1> SUFFICES ASSUME IsFiniteSet(Identities), Counted(t), from # to
             PROVE  Counted(DoTransfer(t, from, to, amount))
    BY DEF SupplySums, DoTransfer
<1> DEFINE D == Identities
           f == t.balances
           g == [f EXCEPT ![from] = @ - amount]
           h == DoTransfer(t, from, to, amount).balances
<1>1. /\ MaxU64 \in Nat /\ f \in [D -> 0..MaxU64]
      /\ f[from] >= amount /\ f[to] + amount <= MaxU64
    BY WarpRouteAssumption DEF CanTransfer, Token
<1>2. f[from] \in Nat /\ f[to] \in Nat /\ f[from] - amount \in 0..MaxU64
    BY <1>1
<1>3. f \in Summands(D, MaxU64) /\ g \in Summands(D, MaxU64)
    BY <1>1, <1>2 DEF Summands
<1>4. h \in Summands(D, MaxU64)
    BY TransferKeeps DEF Token, Summands
<1>5. h = [g EXCEPT ![to] = @ + amount]
    BY <1>1 DEF DoTransfer, Token
<1>6. g[from] = f[from] - amount /\ ChangedAt(f, g, D, from)
    BY <1>1 DEF ChangedAt
<1>7. h[to] = f[to] + amount /\ g[to] = f[to] /\ ChangedAt(g, h, D, to)
    BY <1>1, <1>5 DEF ChangedAt
<1>8. /\ t.supply = SumFunction(f) /\ IsFiniteSet(D) /\ from \in D /\ to \in D
      /\ SumFunction(f) = SumFunction(h) => Counted(DoTransfer(t, from, to, amount))
    BY TransferKeeps DEF Counted
<1> HIDE DEF f, g, h, D
<1>9. SumFunction(g) = SumFunction(f) + g[from] - f[from]
    BY <1>1, <1>3, <1>6, <1>8, SumChange
<1>10. SumFunction(h) = SumFunction(g) + h[to] - g[to]
    BY <1>1, <1>3, <1>4, <1>7, <1>8, SumChange
<1>11. SumFunction(f) \in Nat
    BY <1>1, <1>3, <1>8, SumAtLeast
<1>12. SumFunction(h) = SumFunction(f)
    BY <1>2, <1>6, <1>7, <1>9, <1>10, <1>11
<1> QED
    BY <1>8, <1>12

\* The token's own calls keep its shape, its supply and their sum.
LEMMA TokenKeeps ==
    ASSUME assets \in Token, TokenNext, SupplySums(assets)
    PROVE  /\ assets' \in Token /\ assets'.supply = assets.supply /\ SupplySums(assets')
           /\ UNCHANGED <<route, ledger, stack>>
<1>1. PICK caller \in Callers, amount \in Amounts \cup {0} :
          \/ \E to \in Identities : Transfer(caller, to, amount)
          \/ \E spender \in Spenders : Approve(caller, spender, amount)
          \/ /\ caller \in Spenders
             /\ \E from, to \in Identities : TransferFrom(caller, from, to, amount)
    BY DEF TokenNext
<1>2. caller \in Identities /\ amount \in 0..MaxU64 /\ amount \in Nat
    BY <1>1, WarpRouteAssumption DEF Callers, Identities
<1>3. CASE \E to \in Identities : Transfer(caller, to, amount)
    BY <1>2, <1>3, TransferKeeps, TransferKeepsSum DEF Transfer
<1>4. CASE \E spender \in Spenders : Approve(caller, spender, amount)
    <2>1. PICK spender \in Spenders : Approve(caller, spender, amount)
        BY <1>4
    <2> DEFINE allowances == [assets.allowances EXCEPT ![caller][spender] = amount]
    <2>2. allowances \in [Identities -> [Spenders -> 0..MaxU64]]
        BY <1>2 DEF Token
    <2>3. assets' = [assets EXCEPT !.allowances = allowances]
        BY <2>1 DEF Approve, Token
    <2> HIDE DEF allowances
    <2>4. assets' \in Token /\ assets'.supply = assets.supply /\ assets'.balances = assets.balances
        BY <2>2, <2>3 DEF Token
    <2> QED
        BY <2>1, <2>4 DEF Approve, SupplySums, Counted
<1>5. CASE caller \in Spenders /\ \E from, to \in Identities : TransferFrom(caller, from, to, amount)
    <2>1. PICK from \in Identities, to \in Identities : TransferFrom(caller, from, to, amount)
        BY <1>5
    <2> DEFINE t == [assets EXCEPT !.allowances[from][caller] = @ - amount]
    <2>2. assets.allowances[from][caller] - amount \in 0..MaxU64
        BY <1>2, <1>5, <2>1, WarpRouteAssumption DEF TransferFrom, Token
    <2>3. t \in Token /\ t.balances = assets.balances /\ t.supply = assets.supply
        BY <1>5, <2>2 DEF Token
    <2>4. CanTransfer(t, from, to, amount) /\ assets' = DoTransfer(t, from, to, amount)
        BY <2>1, <2>3 DEF TransferFrom, CanTransfer
    <2> HIDE DEF t
    <2>5. assets' \in Token /\ assets'.supply = assets.supply
        BY <1>2, <2>3, <2>4, TransferKeeps
    <2>6. SupplySums(t)
        BY <2>3 DEF SupplySums, Counted
    <2>7. SupplySums(assets')
        BY <1>2, <2>3, <2>4, <2>6, TransferKeepsSum
    <2> QED
        BY <2>1, <2>5, <2>7 DEF TransferFrom
<1> QED
    BY <1>1, <1>3, <1>4, <1>5

\* A mint that fits adds to the supply.
LEMMA MintKeeps ==
    ASSUME assets \in Token, NEW p \in Identities, NEW amount \in Nat, Mint(p, amount)
    PROVE  assets' \in Token /\ assets'.supply = assets.supply + amount
<1>1. /\ MaxU64 \in Nat /\ assets.supply \in 0..MaxU64 /\ assets.balances[p] \in 0..MaxU64
    BY WarpRouteAssumption DEF Token
<1>2. assets.supply + amount \in 0..MaxU64 /\ assets.balances[p] + amount \in 0..MaxU64
    BY <1>1 DEF Mint
<1> QED
    BY <1>2 DEF Mint, Token

\* A mint that fits adds to one balance and the supply alike.
LEMMA MintKeepsSum ==
    ASSUME assets \in Token, NEW p \in Identities, NEW amount \in Nat, Mint(p, amount),
           SupplySums(assets)
    PROVE  SupplySums(assets')
<1> SUFFICES ASSUME IsFiniteSet(Identities), Counted(assets) PROVE Counted(assets')
    BY DEF SupplySums
<1> DEFINE D == Identities
           f == assets.balances
           g == assets'.balances
<1>1. assets' \in Token /\ assets'.supply = assets.supply + amount
    BY MintKeeps
<1>2. f \in Summands(D, MaxU64) /\ g \in Summands(D, MaxU64) /\ MaxU64 \in Nat
    BY <1>1, WarpRouteAssumption DEF Summands, Token
<1>3. f[p] \in Nat
    BY WarpRouteAssumption DEF Token
<1>4. g = [f EXCEPT ![p] = @ + amount]
    BY DEF Mint, Token
<1>5. g[p] = f[p] + amount /\ ChangedAt(f, g, D, p)
    BY <1>4 DEF Token, ChangedAt
<1>6. /\ assets.supply = SumFunction(f) /\ IsFiniteSet(D) /\ p \in D
      /\ assets'.supply = SumFunction(g) => Counted(assets')
    BY DEF Counted
<1> HIDE DEF f, g, D
<1>7. SumFunction(g) = SumFunction(f) + g[p] - f[p]
    BY <1>2, <1>5, <1>6, SumChange
<1>8. SumFunction(f) \in Nat
    BY <1>2, <1>6, SumAtLeast
<1> QED
    BY <1>1, <1>3, <1>5, <1>6, <1>7, <1>8

\* A covered burn takes from the supply.
LEMMA BurnKeeps ==
    ASSUME assets \in Token, NEW p \in Identities, NEW amount \in Nat, Burn(p, amount)
    PROVE  assets' \in Token /\ assets'.supply = assets.supply - amount
<1>1. /\ MaxU64 \in Nat /\ assets.supply \in 0..MaxU64 /\ assets.balances[p] \in 0..MaxU64
    BY WarpRouteAssumption DEF Token
<1>2. assets.supply - amount \in 0..MaxU64 /\ assets.balances[p] - amount \in 0..MaxU64
    BY <1>1 DEF Burn
<1> QED
    BY <1>2 DEF Burn, Token

\* A covered burn takes from one balance and the supply alike.
LEMMA BurnKeepsSum ==
    ASSUME assets \in Token, NEW p \in Identities, NEW amount \in Nat, Burn(p, amount),
           SupplySums(assets)
    PROVE  SupplySums(assets')
<1> SUFFICES ASSUME IsFiniteSet(Identities), Counted(assets) PROVE Counted(assets')
    BY DEF SupplySums
<1> DEFINE D == Identities
           f == assets.balances
           g == assets'.balances
<1>1. assets' \in Token /\ assets'.supply = assets.supply - amount
    BY BurnKeeps
<1>2. f \in Summands(D, MaxU64) /\ g \in Summands(D, MaxU64) /\ MaxU64 \in Nat
    BY <1>1, WarpRouteAssumption DEF Summands, Token
<1>3. f[p] \in Nat
    BY WarpRouteAssumption DEF Token
<1>4. g = [f EXCEPT ![p] = @ - amount]
    BY DEF Burn, Token
<1>5. g[p] = f[p] - amount /\ ChangedAt(f, g, D, p)
    BY <1>4 DEF Token, ChangedAt
<1>6. /\ assets.supply = SumFunction(f) /\ IsFiniteSet(D) /\ p \in D
      /\ assets'.supply = SumFunction(g) => Counted(assets')
    BY DEF Counted
<1> HIDE DEF f, g, D
<1>7. SumFunction(g) = SumFunction(f) + g[p] - f[p]
    BY <1>2, <1>5, <1>6, SumChange
<1>8. SumFunction(f) \in Nat
    BY <1>2, <1>6, SumAtLeast
<1> QED
    BY <1>1, <1>3, <1>5, <1>6, <1>7, <1>8

-----------------------------------------------------------------------------
(* Steps.                                                                   *)

\* A common step changes nothing soundness is about, or restores a sound state.
LEMMA CommonSound == IInv /\ CommonNext => IInv'
<1> SUFFICES ASSUME IInv, CommonNext PROVE IInv'
    OBVIOUS
<1>1. CASE Abort
    <2>1. \A s \in Sound : s = [route |-> s.route, assets |-> s.assets, ledger |-> s.ledger]
        BY DEF Sound
    <2> QED
        BY <1>1, <2>1, AbortKeeps DEF IInv
<1>2. CASE ~Abort
    <2>1. Now
        BY NowIsSound DEF IInv
    <2>2. Typed' /\ Kept /\ stack' \in Seq(FrameOver(Sound))
        BY <1>2, <2>1, CommonKeeps DEF IInv, Now, Typed
    <2>3. Now'
        BY <2>1, <2>2 DEF Now, Typed, Kept, Balanced, PaidUp, SumsUp, Summed
    <2> QED
        BY <2>2, <2>3, NowIsSoundNext DEF IInv
<1> QED
    BY <1>1, <1>2

\* The burn takes as much from the supply as was taken from the sender.
LEMMA QuotedSound ==
    ASSUME IInv, NEW fee \in Fees, Quoted(fee)
    PROVE  IInv'
<1>1. Now
    BY NowIsSound DEF IInv
<1>2. /\ Typed' /\ stack' \in Seq(FrameOver(Sound)) /\ route' = route
      /\ Top.amount \in Nat /\ Top.caller \in Identities
      /\ ledger'.taken = ledger.taken + Top.amount
      /\ ledger'.received = ledger.received
      /\ ledger'.credited = ledger.credited
      /\ ledger'.paid = ledger.paid
    BY <1>1, TakeKeeps DEF IInv, Now, Typed, Quoted
<1>3. assets' \in Token /\ assets'.supply = assets.supply - Top.amount
    BY <1>1, <1>2, BurnKeeps DEF Now, Quoted
<1>4. Balanced(route', assets', ledger')
    <2>1. /\ MaxU64 \in Nat /\ assets.supply \in Nat /\ route.pending_total \in Nat
          /\ ledger.taken \in Nat /\ ledger.received \in Nat
        BY <1>1, Numbers
    <2>2. /\ assets.supply + route.pending_total = ledger.received - ledger.taken
          /\ assets.supply + route.pending_total <= MaxU64
        BY <1>1 DEF Now, Balanced
    <2>3. /\ Top.amount \in Nat /\ ledger'.taken = ledger.taken + Top.amount
          /\ ledger'.received = ledger.received /\ route' = route
        BY <1>2
    <2> QED
        BY <1>3, <2>1, <2>2, <2>3 DEF Balanced
<1>5. SupplySums(assets')
    BY <1>1, <1>2, BurnKeepsSum DEF Now, Quoted
<1>6. Now'
    BY <1>1, <1>2, <1>3, <1>4, <1>5 DEF Now, Typed, PaidUp
<1> QED
    BY <1>2, <1>6, NowIsSoundNext DEF IInv

\* A delivery mints or promises what the supply has room for.
LEMMA HandleSound ==
    ASSUME IInv, NEW d \in Domains, NEW s \in Routers, NEW p \in Identities,
           NEW amount \in Amounts, Handle(d, s, p, amount)
    PROVE  IInv'
<1>1. Now
    BY NowIsSound DEF IInv
<1>2. amount \in Nat /\ stack' = stack
      /\ assets.supply + route.pending_total + amount <= MaxU64
    BY WarpRouteAssumption DEF Handle, MintCapacity
<1>3. /\ MaxU64 \in Nat /\ assets.supply \in Nat /\ route.pending_total \in Nat
      /\ ledger.taken \in Nat /\ ledger.received \in Nat
      /\ route.pending_transfers \in [Identities -> Nat]
      /\ ledger.paid \in [Identities -> Nat] /\ ledger.credited \in [Identities -> Nat]
    BY <1>1, Numbers
<1> DEFINE l == Receive(ledger, p, amount)
<1>4. /\ l \in Ledger /\ l.taken = ledger.taken /\ l.received = ledger.received + amount
      /\ l.paid = ledger.paid /\ l.credited = [ledger.credited EXCEPT ![p] = @ + amount]
    BY <1>1, <1>2, ReceiveKeeps DEF Now
<1> HIDE DEF l
<1>5. CASE /\ ledger' = Paid(l, p, amount)
           /\ Mint(p, amount)
           /\ UNCHANGED route
    <2>1. /\ ledger' \in Ledger /\ ledger'.taken = l.taken /\ ledger'.received = l.received
          /\ ledger'.credited = l.credited
          /\ ledger'.paid = [l.paid EXCEPT ![p] = @ + amount]
        BY <1>2, <1>4, <1>5, PaidKeeps
    <2>2. assets' \in Token /\ assets'.supply = assets.supply + amount
        BY <1>1, <1>2, <1>5, MintKeeps DEF Now
    <2>3. Balanced(route', assets', ledger')
        BY <1>1, <1>2, <1>3, <1>4, <1>5, <2>1, <2>2 DEF Now, Balanced
    <2>4. PaidUp(route', ledger')
        BY <1>1, <1>2, <1>3, <1>4, <1>5, <2>1 DEF Now, PaidUp
    <2>5. SupplySums(assets')
        BY <1>1, <1>2, <1>5, MintKeepsSum DEF Now
    <2>6. Now'
        BY <1>1, <1>5, <2>1, <2>2, <2>3, <2>4, <2>5 DEF Now
    <2> QED
        BY <1>2, <2>6, NowIsSoundNext DEF IInv
<1>6. CASE /\ ledger' = l
           /\ Owe(p, amount)
           /\ UNCHANGED assets
    <2>1. /\ route' \in RouteStorage
          /\ route'.pending_total = route.pending_total + amount
          /\ route'.pending_transfers = [route.pending_transfers EXCEPT ![p] = @ + amount]
        BY <1>1, <1>6, OweKeeps DEF Now
    <2>2. Balanced(route', assets', ledger')
        BY <1>1, <1>2, <1>3, <1>4, <1>6, <2>1 DEF Now, Balanced
    <2>3. PaidUp(route', ledger')
        BY <1>1, <1>2, <1>3, <1>4, <1>6, <2>1 DEF Now, PaidUp
    <2>4. SumsUp(route')
        BY <1>1, <1>6, OweKeepsSum DEF Now
    <2>5. Now'
        BY <1>1, <1>4, <1>6, <2>1, <2>2, <2>3, <2>4 DEF Now
    <2> QED
        BY <1>2, <2>5, NowIsSoundNext DEF IInv
<1> QED
    BY <1>5, <1>6 DEF Handle, l

\* A claim turns what is promised into supply.
LEMMA ClaimSound ==
    ASSUME IInv, NEW p \in Identities, ClaimPending(p)
    PROVE  IInv'
<1>1. Now
    BY NowIsSound DEF IInv
<1> DEFINE amount == route.pending_transfers[p]
<1>2. /\ Settle(p) /\ Mint(p, amount) /\ ledger' = Paid(ledger, p, amount) /\ stack' = stack
    BY DEF ClaimPending
<1>3. /\ route' \in RouteStorage /\ amount \in Nat
      /\ route'.pending_total = route.pending_total - amount
      /\ route'.pending_transfers = [route.pending_transfers EXCEPT ![p] = 0]
    BY <1>1, <1>2, SettleKeeps DEF Now
<1>4. /\ MaxU64 \in Nat /\ assets.supply \in Nat /\ route.pending_total \in Nat
      /\ ledger.taken \in Nat /\ ledger.received \in Nat
      /\ route.pending_transfers \in [Identities -> Nat]
      /\ ledger.paid \in [Identities -> Nat] /\ ledger.credited \in [Identities -> Nat]
    BY <1>1, Numbers
<1>5. /\ ledger' \in Ledger /\ ledger'.taken = ledger.taken
      /\ ledger'.received = ledger.received /\ ledger'.credited = ledger.credited
      /\ ledger'.paid = [ledger.paid EXCEPT ![p] = @ + amount]
    BY <1>1, <1>2, <1>3, PaidKeeps DEF Now
<1>6. assets' \in Token /\ assets'.supply = assets.supply + amount
    BY <1>1, <1>2, <1>3, MintKeeps DEF Now
<1>7. Balanced(route', assets', ledger')
    <2>1. /\ assets.supply + route.pending_total = ledger.received - ledger.taken
          /\ assets.supply + route.pending_total <= MaxU64
        BY <1>1 DEF Now, Balanced
    <2> HIDE DEF amount
    <2>2. /\ assets'.supply + route'.pending_total = ledger'.received - ledger'.taken
          /\ assets'.supply + route'.pending_total <= MaxU64
        BY <1>3, <1>4, <1>5, <1>6, <2>1
    <2> QED
        BY <2>2 DEF Balanced
<1>8. PaidUp(route', ledger')
    BY <1>1, <1>3, <1>4, <1>5 DEF Now, PaidUp
<1>9. SumsUp(route') /\ SupplySums(assets')
    <2>1. SumsUp(route')
        BY <1>1, <1>2, SettleKeepsSum DEF Now
    <2>2. SupplySums(assets')
        BY <1>1, <1>2, <1>3, MintKeepsSum DEF Now
    <2> QED
        BY <2>1, <2>2
<1>10. Now'
    BY <1>3, <1>5, <1>6, <1>7, <1>8, <1>9 DEF Now
<1> QED
    BY <1>2, <1>10, NowIsSoundNext DEF IInv

\* Every step keeps the invariant.
LEMMA NextSound == IInv /\ [Next]_vars => IInv'
<1> SUFFICES ASSUME IInv, [Next]_vars PROVE IInv'
    OBVIOUS
<1>1. CASE CommonNext
    BY <1>1, CommonSound
<1>2. CASE TokenNext
    <2>1. Now
        BY NowIsSound DEF IInv
    <2>2. /\ assets' \in Token /\ assets'.supply = assets.supply /\ SupplySums(assets')
          /\ UNCHANGED <<route, ledger, stack>>
        BY <1>2, <2>1, TokenKeeps DEF Now
    <2>3. Now'
        BY <2>1, <2>2 DEF Now, Balanced, PaidUp
    <2> QED
        BY <2>2, <2>3, NowIsSoundNext DEF IInv
<1>3. CASE \E fee \in Fees : Quoted(fee)
    BY <1>3, QuotedSound
<1>4. CASE \E d \in Domains, s \in Routers, r \in Identities, amount \in Amounts :
              Handle(d, s, r, amount)
    BY <1>4, HandleSound
<1>5. CASE \E r \in Identities : ClaimPending(r)
    BY <1>5, ClaimSound
<1>6. CASE UNCHANGED vars
    BY <1>6 DEF IInv, State, vars
<1> QED
    BY <1>1, <1>2, <1>3, <1>4, <1>5, <1>6 DEF Next

-----------------------------------------------------------------------------
(* Theorems.                                                                *)

\* In every reachable state the current state and every saved one are sound.
THEOREM SyntheticSound == Spec => []IInv
<1> QED
    BY InitSound, NextSound, PTL DEF Spec

\* Storage, token, history and frames keep their shape.
THEOREM SyntheticTypeCorrect == Spec => []TypeOK
<1>1. IInv => TypeOK
    <2> SUFFICES ASSUME IInv PROVE TypeOK
        OBVIOUS
    <2>1. Now
        BY NowIsSound DEF IInv
    <2>2. FrameOver(Sound) \subseteq Frame(Token)
        BY DEF FrameOver, Frame, Sound
    <2>3. stack \in Seq(Frame(Token))
        BY <2>2 DEF IInv
    <2> QED
        BY <2>1, <2>3 DEF TypeOK, Now
<1> QED
    BY <1>1, SyntheticSound, PTL

\* Supply and promises together are what came in less what went out, and fit.
THEOREM SyntheticConserved == Spec => []Conserved
<1>1. IInv => Conserved
    BY NowIsSound DEF IInv, Now, Balanced, Conserved
<1> QED
    BY <1>1, SyntheticSound, PTL

\* Each recipient has been minted what its messages carried less what is pending.
THEOREM SyntheticPaidOnce == Spec => []PaidOnce
<1>1. IInv => PaidOnce
    BY NowIsSound DEF IInv, Now, PaidUp, PaidOnce
<1> QED
    BY <1>1, SyntheticSound, PTL

\* "pending_total is the checked aggregate": the aggregate the mint
\* capacity reserves is the sum of the entries.
THEOREM SyntheticPendingTotal ==
    ASSUME IsFiniteSet(Identities) PROVE Spec => []PendingTotalIsSum
<1>1. IInv => PendingTotalIsSum
    BY NowIsSound DEF IInv, Now, SumsUp, Summed, PendingTotalIsSum
<1>2. Spec => []IInv
    BY SyntheticSound
<1> QED
    BY <1>1, <1>2, PTL

\* Tokens are neither lost nor made by transfers, self transfers and failures
\* included: the supply is the sum of the balances.
THEOREM SyntheticSupply ==
    ASSUME IsFiniteSet(Identities) PROVE Spec => []SupplyIsSum
<1>1. IInv => SupplyIsSum
    BY NowIsSound DEF IInv, Now, SupplySums, Counted, SupplyIsSum
<1>2. Spec => []IInv
    BY SyntheticSound
<1> QED
    BY <1>1, <1>2, PTL

\* "Claiming authenticates its account, decrements the aggregate reserve, and
\* mints": no pending transfer is stuck at one of the claim's checks.
THEOREM SyntheticClaimsSucceed ==
    ASSUME IsFiniteSet(Identities) PROVE Spec => []ClaimsSucceed
<1>1. ASSUME IInv PROVE ClaimsSucceed
    <2>1. Now
        BY <1>1, NowIsSound DEF IInv
    <2>2. /\ route.pending_transfers \in Summands(Identities, MaxU64)
          /\ assets.balances \in Summands(Identities, MaxU64)
          /\ MaxU64 \in Nat /\ assets.supply \in Nat /\ route.pending_total \in Nat
        BY <2>1, Numbers DEF Summands
    <2>3. /\ route.pending_total = SumFunction(route.pending_transfers)
          /\ assets.supply = SumFunction(assets.balances)
          /\ assets.supply + route.pending_total <= MaxU64
        BY <2>1 DEF Now, SumsUp, Summed, SupplySums, Counted, Balanced
    <2>4. \A r \in Identities : route.pending_transfers[r] <= route.pending_total
        BY <2>2, <2>3, SumAtLeast
    <2>5. \A r \in Identities : assets.balances[r] <= assets.supply
        BY <2>2, <2>3, SumAtLeast
    <2>6. ASSUME NEW r \in Identities
          PROVE  /\ route.pending_transfers[r] <= route.pending_total
                 /\ assets.supply + route.pending_transfers[r] <= MaxU64
                 /\ assets.balances[r] + route.pending_transfers[r] <= MaxU64
        <3>1. route.pending_transfers[r] \in Nat /\ assets.balances[r] \in Nat
            BY <2>2 DEF Summands
        <3> QED
            BY <2>2, <2>3, <2>4, <2>5, <3>1
    <2> QED
        BY <2>6 DEF ClaimsSucceed
<1>2. Spec => []IInv
    BY SyntheticSound
<1> QED
    BY <1>1, <1>2, PTL

-----------------------------------------------------------------------------
(* The books.                                                               *)

\* What soundness says of the calls in progress.
LEMMA SoundFramed == IInv => Framed(Sound) /\ Typed
    BY NowIsSound DEF IInv, Now, Framed, Typed, Sound

LEMMA SoundFramedNext == IInv' => Framed(Sound)' /\ Typed'
    BY SoundFramed, PTL

\* Every step keeps the books, and the standing credit a failure falls back to.
LEMMA NextKeepsBooks ==
    IInv /\ IInv' /\ Books /\ [Next]_vars => Books' /\ Rises
<1> SUFFICES ASSUME IInv, IInv', Books, [Next]_vars PROVE Books' /\ Rises
    OBVIOUS
<1>1. Framed(Sound) /\ Typed /\ Typed' /\ State \in Sound /\ ledger \in Ledger /\ ledger' \in Ledger
    BY SoundFramed, SoundFramedNext DEF IInv, Typed, Framed
<1>2. CASE CommonNext
    BY <1>1, <1>2, CommonKeepsBooks
<1>3. CASE \E fee \in Fees : Quoted(fee)
    <2>1. PICK fee \in Fees : TakeAndForward(fee)
        BY <1>3 DEF Quoted
    <2> QED
        BY <1>1, <2>1, TakeKeepsBooks
<1>4. CASE \E d \in Domains, s \in Routers, r \in Identities, amount \in Amounts :
              Handle(d, s, r, amount)
    <2>1. PICK d \in Domains, s \in Routers, r \in Identities, amount \in Amounts :
              Handle(d, s, r, amount)
        BY <1>4
    <2>2. \/ ledger' = Paid(Receive(ledger, r, amount), r, amount)
          \/ ledger' = Receive(ledger, r, amount)
        BY <2>1 DEF Handle
    <2>3. SameFigures /\ stack' = stack
        BY <1>1, <2>1, <2>2, HistoryKeepsFigures DEF Handle
    <2> QED
        BY <1>1, <2>3, SameLedgerKeepsBooks
<1>5. CASE \E r \in Identities : ClaimPending(r)
    <2>1. PICK r \in Identities : ClaimPending(r)
        BY <1>5
    <2>2. SameFigures /\ stack' = stack
        BY <1>1, <2>1, HistoryKeepsFigures DEF ClaimPending
    <2> QED
        BY <1>1, <2>2, SameLedgerKeepsBooks
<1>6. CASE TokenNext
    <2>1. UNCHANGED <<route, ledger, stack>>
        BY <1>6 DEF TokenNext, Transfer, Approve, TransferFrom
    <2> QED
        BY <1>1, <2>1, SameLedgerKeepsBooks DEF SameFigures
<1>7. CASE UNCHANGED vars
    BY <1>1, <1>7, SameLedgerKeepsBooks DEF vars, SameFigures
<1> QED
    BY <1>2, <1>3, <1>4, <1>5, <1>6, <1>7 DEF Next

\* In every reachable state the books of the calls in progress balance.
THEOREM SyntheticBooks == Spec => []Books
<1>1. Init => Books
    BY InitBooks DEF Init
<1>2. IInv /\ IInv' /\ Books /\ [Next]_vars => Books'
    BY NextKeepsBooks
<1> QED
    BY <1>1, <1>2, SyntheticSound, PTL DEF Spec

\* Between transactions, what senders gave is what messages told the other side.
THEOREM SyntheticTakenIsSent == Spec => []TakenIsSent
<1> QED
    BY SyntheticBooks, BooksTakenIsSent, PTL

\* No transfer spends the route's standing credit, whatever re-enters or fails.
THEOREM SyntheticStandingCredit == Spec => StandingCreditKept
<1>1. IInv /\ IInv' /\ Books /\ [Next]_vars
        => [CommittedLedger.credit + CommittedLedger.withdrawn
              <= CommittedLedger'.credit + CommittedLedger'.withdrawn]_vars
    BY NextKeepsBooks, SoundFramed, SoundFramedNext, CommittedRises
<1> QED
    BY <1>1, SyntheticSound, SyntheticBooks, PTL DEF Spec, StandingCreditKept
=============================================================================
