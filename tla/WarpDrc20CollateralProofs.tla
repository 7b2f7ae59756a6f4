---------------------- MODULE WarpDrc20CollateralProofs ----------------------
(***************************************************************************)
(* The collateral route backs what it owes and what it locked with wrapped *)
(* tokens it holds, whatever the token keeps of a transfer, for all        *)
(* constants.                                                              *)
(***************************************************************************)
EXTENDS WarpDrc20Collateral, WarpRouteProofs

Balances == [Holders -> Nat]

\* Custody covers the promises and, besides, what was locked and not given back.
Balanced(r, custody, l) ==
    /\ r.pending_total <= custody
    /\ l.taken - l.received <= custody - r.pending_total

PaidUp(r, l) ==
    \A p \in Identities : l.paid[p] + r.pending_transfers[p] = l.credited[p]

Sound == {s \in [route : RouteStorage, assets : Balances, ledger : Ledger] :
             Balanced(s.route, s.assets[Self], s.ledger) /\ PaidUp(s.route, s.ledger)
             /\ SumsUp(s.route)}

\* The inductive invariant: a failing call restores any of the saved states.
IInv == State \in Sound /\ stack \in Seq(FrameOver(Sound))

\* Soundness of the current state, spelled out.
Now == /\ route \in RouteStorage /\ assets \in Balances /\ ledger \in Ledger
       /\ Balanced(route, assets[Self], ledger) /\ PaidUp(route, ledger) /\ SumsUp(route)

LEMMA NowIsSound == State \in Sound <=> Now
    BY DEF State, Sound, Now

LEMMA NowIsSoundNext == State' \in Sound <=> Now'
    BY DEF State, Sound, Now

\* The route is deployed without custody or claims.
LEMMA InitSound == Init => IInv
<1> SUFFICES ASSUME Init PROVE IInv
    OBVIOUS
<1> USE WarpRouteAssumption
<1>1. route \in RouteStorage
    <2>1. (CHOOSE h \in HookIds : TRUE) \in HookIds /\ (CHOOSE i \in IsmIds : TRUE) \in IsmIds
        OBVIOUS
    <2> QED
        BY <2>1 DEF Init, InitRoute, RouteStorage, Identities
<1>2. ledger \in Ledger
    BY DEF Init, InitRoute, Ledger
<1>3. assets \in Balances /\ assets[Self] = 0
    BY CollateralAssumption DEF Init, Balances, Holders
<1>4. Balanced(route, assets[Self], ledger) /\ PaidUp(route, ledger)
    BY <1>3 DEF Init, InitRoute, Balanced, PaidUp
<1>5. State \in Sound
    BY <1>1, <1>2, <1>3, <1>4, InitSumsUp, NowIsSound DEF Now, Init
<1>6. stack \in Seq(FrameOver(Sound))
    BY DEF Init, InitRoute
<1> QED
    BY <1>5, <1>6 DEF IInv

-----------------------------------------------------------------------------
(* The wrapped token.                                                       *)

\* A covered movement between two holders.
LEMMA MovedKeeps ==
    ASSUME assets \in Balances, NEW from \in Holders, NEW to \in Holders, from # to,
           NEW debit \in Nat, NEW credit \in Nat, assets[from] >= debit
    PROVE  /\ Moved(from, to, debit, credit) \in Balances
           /\ Moved(from, to, debit, credit)[from] = assets[from] - debit
           /\ Moved(from, to, debit, credit)[to] = assets[to] + credit
           /\ \A h \in Holders \ {from, to} :
                 Moved(from, to, debit, credit)[h] = assets[h]
<1>1. assets[from] - debit \in Nat /\ assets[to] + credit \in Nat
    BY DEF Balances
<1> QED
    BY <1>1 DEF Moved, Balances

\* What a transfer takes and gives are amounts.
LEMMA Movements ==
    ASSUME NEW amount \in Nat, amount > 0,
           NEW debit \in Debits(amount), NEW credit \in Credits(amount)
    PROVE  debit \in Nat /\ credit \in Nat
<1>1. CASE Inexact
    <2>1. debit \in amount..amount + 1 /\ credit \in amount - 1..amount
        BY <1>1 DEF Debits, Credits
    <2> QED
        BY <2>1
<1>2. CASE ~Inexact
    BY <1>2 DEF Debits, Credits
<1> QED
    BY <1>1, <1>2

\* Holders can send tokens to the route but not take them from it.
LEMMA TokenSound ==
    ASSUME IInv, NEW from \in Callers, NEW to \in Holders, NEW amount \in Amounts,
           from # to, TokenTransfer(from, to, amount)
    PROVE  IInv'
<1>1. Now
    BY NowIsSound DEF IInv
<1>2. PICK debit \in Debits(amount), credit \in Credits(amount) :
          assets[from] >= debit /\ assets' = Moved(from, to, debit, credit)
    BY DEF TokenTransfer
<1>3. /\ amount \in Nat /\ amount > 0
      /\ from \in Holders /\ from # Self /\ Self \in Holders
    BY WarpRouteAssumption, CollateralAssumption DEF Callers, Identities, Holders
<1>4. debit \in Nat /\ credit \in Nat
    BY <1>3, Movements
<1>5. /\ assets' \in Balances
      /\ assets'[to] = assets[to] + credit
      /\ \A h \in Holders \ {from, to} : assets'[h] = assets[h]
    BY <1>1, <1>2, <1>3, <1>4, MovedKeeps DEF Now
<1>6. assets'[Self] \in Nat /\ assets[Self] \in Nat /\ assets'[Self] >= assets[Self]
    <2>1. assets'[Self] \in Nat /\ assets[Self] \in Nat
        BY <1>1, <1>3, <1>5 DEF Now, Balances
    <2>2. CASE to = Self
        BY <1>4, <1>5, <2>1, <2>2
    <2>3. CASE to # Self
        BY <1>3, <1>5, <2>1, <2>3
    <2> QED
        BY <2>1, <2>2, <2>3
<1>7. UNCHANGED <<route, ledger, stack>>
    BY DEF TokenTransfer
<1>8. Balanced(route, assets'[Self], ledger)
    <2>1. route.pending_total \in Nat /\ ledger.taken \in Nat /\ ledger.received \in Nat
        BY <1>1, WarpRouteAssumption DEF Now, RouteStorage, Ledger
    <2> QED
        BY <1>1, <1>6, <2>1 DEF Now, Balanced
<1>9. Now'
    BY <1>1, <1>5, <1>7, <1>8 DEF Now
<1> QED
    BY <1>7, <1>9, NowIsSoundNext DEF IInv

\* A lock adds exactly the amount to custody.
LEMMA LockKeeps ==
    ASSUME assets \in Balances, NEW p \in Identities, NEW amount \in Nat, Lock(p, amount)
    PROVE  assets' \in Balances /\ assets'[Self] = assets[Self] + amount
<1>1. PICK debit \in Debits(amount), credit \in Credits(amount) :
          /\ assets[p] >= debit /\ assets' = Moved(p, Self, debit, credit)
          /\ assets'[Self] - assets[Self] = amount
    BY DEF Lock
<1>2. p \in Holders /\ Self \in Holders /\ p # Self
    BY CollateralAssumption DEF Holders
<1>3. debit \in Nat /\ credit \in Int
    <2>1. CASE Inexact
        <3>1. debit \in amount..amount + 1 /\ credit \in amount - 1..amount
            BY <2>1 DEF Debits, Credits
        <3> QED
            BY <3>1
    <2>2. CASE ~Inexact
        BY <2>2 DEF Debits, Credits
    <2> QED
        BY <2>1, <2>2
<1>4. credit = amount
    <2>1. assets'[Self] = assets[Self] + credit
        BY <1>1, <1>2 DEF Moved, Balances
    <2>2. assets[Self] \in Nat
        BY <1>2 DEF Balances
    <2> QED
        BY <1>1, <1>3, <2>1, <2>2
<1>5. assets' \in Balances /\ assets'[Self] = assets[Self] + credit
    BY <1>1, <1>2, <1>3, <1>4, MovedKeeps
<1> QED
    BY <1>4, <1>5

\* A release takes exactly the amount from custody.
LEMMA ReleaseKeeps ==
    ASSUME assets \in Balances, NEW p \in Identities,
           NEW amount \in Nat, amount > 0, Release(p, amount)
    PROVE  assets' \in Balances /\ assets'[Self] = assets[Self] - amount
<1>1. PICK debit \in Debits(amount), credit \in Credits(amount) :
          /\ assets[Self] >= debit /\ assets' = Moved(Self, p, debit, credit)
          /\ assets[Self] - assets'[Self] = amount
    BY DEF Release
<1>2. p \in Holders /\ Self \in Holders /\ p # Self
    BY CollateralAssumption DEF Holders
<1>3. debit \in Nat /\ credit \in Nat
    BY Movements
<1>4. assets' \in Balances
    BY <1>1, <1>2, <1>3, MovedKeeps
<1>5. assets'[Self] \in Nat /\ assets[Self] \in Nat
    BY <1>2, <1>4 DEF Balances
<1> QED
    BY <1>1, <1>4, <1>5

-----------------------------------------------------------------------------
(* The route's steps.                                                       *)

\* A common step changes nothing soundness is about, or restores a sound state.
LEMMA CommonSound == IInv /\ CommonNext => IInv'
<1> SUFFICES ASSUME IInv, CommonNext PROVE IInv'
    OBVIOUS
<1>1. CASE Abort
    <2>1. \A s \in Sound : s = [route |-> s.route, assets |-> s.assets, ledger |-> s.ledger]
        BY DEF Sound
    <2> QED
        BY <1>1, <2>1, AbortKeeps DEF IInv
<1>2. CASE ~Abort
    <2>1. Now
        BY NowIsSound DEF IInv
    <2>2. Typed' /\ Kept /\ stack' \in Seq(FrameOver(Sound))
        BY <1>2, <2>1, CommonKeeps DEF IInv, Now, Typed
    <2>3. Now'
        BY <2>1, <2>2 DEF Now, Typed, Kept, Balanced, PaidUp, SumsUp, Summed
    <2> QED
        BY <2>2, <2>3, NowIsSoundNext DEF IInv
<1> QED
    BY <1>1, <1>2

\* The lock adds as much to custody as to what was taken.
LEMMA QuotedSound ==
    ASSUME IInv, NEW fee \in Fees, Quoted(fee)
    PROVE  IInv'
<1>1. Now
    BY NowIsSound DEF IInv
<1>2. /\ Typed' /\ stack' \in Seq(FrameOver(Sound)) /\ route' = route
      /\ Top.amount \in Nat /\ Top.caller \in Identities
      /\ ledger'.taken = ledger.taken + Top.amount
      /\ ledger'.received = ledger.received
      /\ ledger'.credited = ledger.credited
      /\ ledger'.paid = ledger.paid
    BY <1>1, TakeKeeps DEF IInv, Now, Typed, Quoted
<1>3. Lock(Top.caller, Top.amount)
    BY DEF Quoted
<1>4. assets' \in Balances /\ assets'[Self] = assets[Self] + Top.amount
    BY <1>1, <1>2, <1>3, LockKeeps DEF Now
<1>5. /\ route.pending_total \in Nat /\ ledger.taken \in Nat /\ ledger.received \in Nat
      /\ assets[Self] \in Nat
    BY <1>1, WarpRouteAssumption DEF Now, RouteStorage, Ledger, Balances, Holders
<1>6. Balanced(route', assets'[Self], ledger')
    <2>1. /\ route.pending_total <= assets[Self]
          /\ ledger.taken - ledger.received <= assets[Self] - route.pending_total
        BY <1>1 DEF Now, Balanced
    <2>2. /\ route.pending_total <= assets'[Self]
          /\ ledger'.taken - ledger'.received <= assets'[Self] - route.pending_total
        BY <1>2, <1>4, <1>5, <2>1
    <2> QED
        BY <1>2, <2>2 DEF Balanced
<1>7. Now'
    BY <1>1, <1>2, <1>4, <1>6 DEF Now, Typed, PaidUp
<1> QED
    BY <1>2, <1>7, NowIsSoundNext DEF IInv

\* A delivery pays or owes what the custody has to spare.
LEMMA HandleSound ==
    ASSUME IInv, NEW d \in Domains, NEW s \in Routers, NEW p \in Identities,
           NEW amount \in Amounts, Handle(d, s, p, amount)
    PROVE  IInv'
<1>1. Now
    BY NowIsSound DEF IInv
<1>2. /\ amount \in Nat /\ amount > 0 /\ assets[Self] \in Nat
      /\ route.pending_total \in Nat /\ ledger.taken \in Nat /\ ledger.received \in Nat
      /\ route.pending_transfers \in [Identities -> Nat]
      /\ ledger.paid \in [Identities -> Nat] /\ ledger.credited \in [Identities -> Nat]
    <2>1. amount \in Nat /\ amount > 0
        BY WarpRouteAssumption
    <2>2. assets[Self] \in Nat
        BY <1>1 DEF Now, Balances, Holders
    <2>3. /\ route.pending_total \in Nat
          /\ route.pending_transfers \in [Identities -> Nat]
        BY <1>1, WarpRouteAssumption DEF Now, RouteStorage
    <2>4. /\ ledger.taken \in Nat /\ ledger.received \in Nat
          /\ ledger.paid \in [Identities -> Nat] /\ ledger.credited \in [Identities -> Nat]
        BY <1>1 DEF Now, Ledger
    <2> QED
        BY <2>1, <2>2, <2>3, <2>4
<1>3. assets[Self] - route.pending_total >= amount /\ stack' = stack
    BY DEF Handle, Unreserved
<1>4. /\ route.pending_total <= assets[Self]
      /\ ledger.taken - ledger.received <= assets[Self] - route.pending_total
    BY <1>1 DEF Now, Balanced
<1> DEFINE l == Receive(ledger, p, amount)
<1>5. /\ l \in Ledger /\ l.taken = ledger.taken /\ l.received = ledger.received + amount
      /\ l.paid = ledger.paid /\ l.credited = [ledger.credited EXCEPT ![p] = @ + amount]
    BY <1>1, <1>2, ReceiveKeeps DEF Now
<1> HIDE DEF l
<1>6. CASE /\ ledger' = Paid(l, p, amount)
           /\ Release(p, amount)
           /\ UNCHANGED route
    <2>1. /\ ledger' \in Ledger /\ ledger'.taken = l.taken /\ ledger'.received = l.received
          /\ ledger'.credited = l.credited
          /\ ledger'.paid = [l.paid EXCEPT ![p] = @ + amount]
        <3>1. l \in Ledger /\ amount \in Nat /\ ledger' = Paid(l, p, amount)
            BY <1>2, <1>5, <1>6
        <3> QED
            BY <3>1, PaidKeeps
    <2>2. assets' \in Balances /\ assets'[Self] = assets[Self] - amount
        BY <1>1, <1>2, <1>6, ReleaseKeeps DEF Now
    <2>3. Balanced(route', assets'[Self], ledger')
        <3>1. /\ route.pending_total <= assets'[Self]
              /\ ledger'.taken - ledger'.received <= assets'[Self] - route.pending_total
            BY <1>2, <1>3, <1>4, <1>5, <2>1, <2>2
        <3> QED
            BY <1>6, <3>1 DEF Balanced
    <2>4. PaidUp(route', ledger')
        BY <1>1, <1>2, <1>5, <1>6, <2>1 DEF Now, PaidUp
    <2>5. Now'
        BY <1>1, <1>6, <2>1, <2>2, <2>3, <2>4 DEF Now
    <2> QED
        BY <1>3, <2>5, NowIsSoundNext DEF IInv
<1>7. CASE /\ ledger' = l
           /\ Owe(p, amount)
           /\ UNCHANGED assets
    <2>1. /\ route' \in RouteStorage
          /\ route'.pending_total = route.pending_total + amount
          /\ route'.pending_transfers = [route.pending_transfers EXCEPT ![p] = @ + amount]
        BY <1>1, <1>7, OweKeeps DEF Now
    <2>2. Balanced(route', assets'[Self], ledger')
        <3>1. /\ route'.pending_total <= assets[Self]
              /\ ledger'.taken - ledger'.received <= assets[Self] - route'.pending_total
            BY <1>2, <1>3, <1>4, <1>5, <1>7, <2>1
        <3> QED
            BY <1>7, <3>1 DEF Balanced
    <2>3. PaidUp(route', ledger')
        BY <1>1, <1>2, <1>5, <1>7, <2>1 DEF Now, PaidUp
    <2>4. SumsUp(route')
        BY <1>1, <1>7, OweKeepsSum DEF Now
    <2>5. Now'
        BY <1>1, <1>5, <1>7, <2>1, <2>2, <2>3, <2>4 DEF Now
    <2> QED
        BY <1>3, <2>5, NowIsSoundNext DEF IInv
<1> QED
    BY <1>6, <1>7 DEF Handle, l

\* A claim turns what is owed into what is paid.
LEMMA ClaimSound ==
    ASSUME IInv, NEW p \in Identities, ClaimPending(p)
    PROVE  IInv'
<1>1. Now
    BY NowIsSound DEF IInv
<1> DEFINE amount == route.pending_transfers[p]
<1>2. /\ route' \in RouteStorage /\ amount \in Nat /\ amount > 0
      /\ route'.pending_total = route.pending_total - amount
      /\ route'.pending_transfers = [route.pending_transfers EXCEPT ![p] = 0]
    BY <1>1, SettleKeeps DEF Now, ClaimPending, Settle
<1>3. /\ route.pending_total \in Nat /\ ledger.taken \in Nat /\ ledger.received \in Nat
      /\ route.pending_transfers \in [Identities -> Nat] /\ assets[Self] \in Nat
      /\ ledger.paid \in [Identities -> Nat] /\ ledger.credited \in [Identities -> Nat]
    BY <1>1, WarpRouteAssumption DEF Now, RouteStorage, Ledger, Balances, Holders
<1>4. /\ ledger' \in Ledger /\ ledger'.taken = ledger.taken
      /\ ledger'.received = ledger.received /\ ledger'.credited = ledger.credited
      /\ ledger'.paid = [ledger.paid EXCEPT ![p] = @ + amount]
    BY <1>1, <1>2, PaidKeeps DEF Now, ClaimPending
<1>5. assets' \in Balances /\ assets'[Self] = assets[Self] - amount /\ stack' = stack
    BY <1>1, <1>2, ReleaseKeeps DEF Now, ClaimPending
<1>6. /\ route.pending_total <= assets[Self]
      /\ ledger.taken - ledger.received <= assets[Self] - route.pending_total
    BY <1>1 DEF Now, Balanced
<1>7. PaidUp(route', ledger')
    BY <1>1, <1>2, <1>3, <1>4 DEF Now, PaidUp
<1> HIDE DEF amount
<1>8. /\ route'.pending_total <= assets'[Self]
      /\ ledger'.taken - ledger'.received <= assets'[Self] - route'.pending_total
    BY <1>2, <1>3, <1>4, <1>5, <1>6
<1>9. SumsUp(route')
    BY <1>1, SettleKeepsSum DEF Now, ClaimPending
<1>10. Now'
    BY <1>2, <1>4, <1>5, <1>7, <1>8, <1>9 DEF Now, Balanced
<1> QED
    BY <1>5, <1>10, NowIsSoundNext DEF IInv

\* Every step keeps the invariant.
LEMMA NextSound == IInv /\ [Next]_vars => IInv'
<1> SUFFICES ASSUME IInv, [Next]_vars PROVE IInv'
    OBVIOUS
<1>1. CASE CommonNext
    BY <1>1, CommonSound
<1>2. CASE \E from \in Callers, to \in Holders, amount \in Amounts :
              from # to /\ TokenTransfer(from, to, amount)
    BY <1>2, TokenSound
<1>3. CASE \E fee \in Fees : Quoted(fee)
    BY <1>3, QuotedSound
<1>4. CASE \E d \in Domains, s \in Routers, r \in Identities, amount \in Amounts :
              Handle(d, s, r, amount)
    BY <1>4, HandleSound
<1>5. CASE \E r \in Identities : ClaimPending(r)
    BY <1>5, ClaimSound
<1>6. CASE UNCHANGED vars
    BY <1>6 DEF IInv, State, vars
<1> QED
    BY <1>1, <1>2, <1>3, <1>4, <1>5, <1>6 DEF Next

-----------------------------------------------------------------------------
(* Theorems.                                                                *)

\* In every reachable state the current state and every saved one are sound.
THEOREM CollateralSound == Spec => []IInv
<1> QED
    BY InitSound, NextSound, PTL DEF Spec

\* Storage, balances, history and frames keep their shape.
THEOREM CollateralTypeCorrect == Spec => []TypeOK
<1>1. IInv => TypeOK
    <2> SUFFICES ASSUME IInv PROVE TypeOK
        OBVIOUS
    <2>1. Now
        BY NowIsSound DEF IInv
    <2>2. FrameOver(Sound) \subseteq Frame([Holders -> Nat])
        BY DEF FrameOver, Frame, Sound, Balances
    <2> DEFINE F == FrameOver(Sound)
               G == Frame([Holders -> Nat])
    <2>3. F \subseteq G /\ stack \in Seq(F)
        BY <2>2 DEF IInv
    <2> HIDE DEF F, G
    <2>4. stack \in Seq(G)
        BY <2>3
    <2> QED
        BY <2>1, <2>4 DEF TypeOK, Now, Balances, G
<1> QED
    BY <1>1, CollateralSound, PTL

\* Custody of the wrapped token covers every pending claim and, beyond the
\* claims, what was locked and not given back.
THEOREM CollateralBacked == Spec => []Backed
<1>1. IInv => Backed
    BY NowIsSound DEF IInv, Now, Balanced, Backed
<1> QED
    BY <1>1, CollateralSound, PTL

\* Each recipient has been paid what its messages carried less what is pending.
THEOREM CollateralPaidOnce == Spec => []PaidOnce
<1>1. IInv => PaidOnce
    BY NowIsSound DEF IInv, Now, PaidUp, PaidOnce
<1> QED
    BY <1>1, CollateralSound, PTL

\* "pending_total is the checked aggregate": the aggregate the custody checks
\* reserve is the sum of the entries.
THEOREM CollateralPendingTotal ==
    ASSUME IsFiniteSet(Identities) PROVE Spec => []PendingTotalIsSum
<1>1. IInv => PendingTotalIsSum
    BY NowIsSound DEF IInv, Now, SumsUp, Summed, PendingTotalIsSum
<1>2. Spec => []IInv
    BY CollateralSound
<1> QED
    BY <1>1, <1>2, PTL

-----------------------------------------------------------------------------
(* The books.                                                               *)

\* What soundness says of the calls in progress.
LEMMA SoundFramed == IInv => Framed(Sound) /\ Typed
    BY NowIsSound DEF IInv, Now, Framed, Typed, Sound

LEMMA SoundFramedNext == IInv' => Framed(Sound)' /\ Typed'
    BY SoundFramed, PTL

\* Every step keeps the books, and the standing credit a failure falls back to.
LEMMA NextKeepsBooks ==
    IInv /\ IInv' /\ Books /\ [Next]_vars => Books' /\ Rises
<1> SUFFICES ASSUME IInv, IInv', Books, [Next]_vars PROVE Books' /\ Rises
    OBVIOUS
<1>1. Framed(Sound) /\ Typed /\ Typed' /\ State \in Sound /\ ledger \in Ledger /\ ledger' \in Ledger
    BY SoundFramed, SoundFramedNext DEF IInv, Typed, Framed
<1>2. CASE CommonNext
    BY <1>1, <1>2, CommonKeepsBooks
<1>3. CASE \E fee \in Fees : Quoted(fee)
    <2>1. PICK fee \in Fees : TakeAndForward(fee)
        BY <1>3 DEF Quoted
    <2> QED
        BY <1>1, <2>1, TakeKeepsBooks
<1>4. CASE \E d \in Domains, s \in Routers, r \in Identities, amount \in Amounts :
              Handle(d, s, r, amount)
    <2>1. PICK d \in Domains, s \in Routers, r \in Identities, amount \in Amounts :
              Handle(d, s, r, amount)
        BY <1>4
    <2>2. \/ ledger' = Paid(Receive(ledger, r, amount), r, amount)
          \/ ledger' = Receive(ledger, r, amount)
        BY <2>1 DEF Handle
    <2>3. SameFigures /\ stack' = stack
        BY <1>1, <2>1, <2>2, HistoryKeepsFigures DEF Handle
    <2> QED
        BY <1>1, <2>3, SameLedgerKeepsBooks
<1>5. CASE \E r \in Identities : ClaimPending(r)
    <2>1. PICK r \in Identities : ClaimPending(r)
        BY <1>5
    <2>2. SameFigures /\ stack' = stack
        BY <1>1, <2>1, HistoryKeepsFigures DEF ClaimPending
    <2> QED
        BY <1>1, <2>2, SameLedgerKeepsBooks
<1>6. CASE \E from \in Callers, to \in Holders, amount \in Amounts :
              from # to /\ TokenTransfer(from, to, amount)
    BY <1>1, <1>6, SameLedgerKeepsBooks DEF TokenTransfer, SameFigures
<1>7. CASE UNCHANGED vars
    BY <1>1, <1>7, SameLedgerKeepsBooks DEF vars, SameFigures
<1> QED
    BY <1>2, <1>3, <1>4, <1>5, <1>6, <1>7 DEF Next

\* In every reachable state the books of the calls in progress balance.
THEOREM CollateralBooks == Spec => []Books
<1>1. Init => Books
    BY InitBooks DEF Init
<1>2. IInv /\ IInv' /\ Books /\ [Next]_vars => Books'
    BY NextKeepsBooks
<1> QED
    BY <1>1, <1>2, CollateralSound, PTL DEF Spec

\* Between transactions, what senders gave is what messages told the other side.
THEOREM CollateralTakenIsSent == Spec => []TakenIsSent
<1> QED
    BY CollateralBooks, BooksTakenIsSent, PTL

\* No transfer spends the route's standing credit, whatever re-enters or fails.
THEOREM CollateralStandingCredit == Spec => StandingCreditKept
<1>1. IInv /\ IInv' /\ Books /\ [Next]_vars
        => [CommittedLedger.credit + CommittedLedger.withdrawn
              <= CommittedLedger'.credit + CommittedLedger'.withdrawn]_vars
    BY NextKeepsBooks, SoundFramed, SoundFramedNext, CommittedRises
<1> QED
    BY <1>1, CollateralSound, CollateralBooks, PTL DEF Spec, StandingCreditKept
=============================================================================
