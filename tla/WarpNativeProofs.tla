--------------------------- MODULE WarpNativeProofs ---------------------------
(***************************************************************************)
(* The native route backs every pending claim with DUSK it holds and pays  *)
(* each recipient what its messages carried, for all constants.            *)
(***************************************************************************)
EXTENDS WarpNative, WarpRouteProofs

\* The route owes no more than it holds, and has given back what it received
\* messages for.
Balanced(r, a, l) ==
    /\ r.pending_total <= a
    /\ a - r.pending_total = l.taken - l.received

PaidUp(r, l) ==
    \A p \in Identities : l.paid[p] + r.pending_transfers[p] = l.credited[p]

Sound == {s \in [route : RouteStorage, assets : Nat, ledger : Ledger] :
             Balanced(s.route, s.assets, s.ledger) /\ PaidUp(s.route, s.ledger)
             /\ SumsUp(s.route)}

\* The inductive invariant.  A failing call restores any of the saved states,
\* so they are sound as well.
IInv == State \in Sound /\ stack \in Seq(FrameOver(Sound))

\* Soundness of the current state, spelled out.
Now == /\ route \in RouteStorage /\ assets \in Nat /\ ledger \in Ledger
       /\ Balanced(route, assets, ledger) /\ PaidUp(route, ledger) /\ SumsUp(route)

LEMMA NowIsSound == State \in Sound <=> Now
    BY DEF State, Sound, Now

LEMMA NowIsSoundNext == State' \in Sound <=> Now'
    BY DEF State, Sound, Now

\* The route is deployed without value or claims.
LEMMA InitSound == Init => IInv
<1> SUFFICES ASSUME Init PROVE IInv
    OBVIOUS
<1> USE WarpRouteAssumption
<1>1. route \in RouteStorage
    <2>1. (CHOOSE h \in HookIds : TRUE) \in HookIds /\ (CHOOSE i \in IsmIds : TRUE) \in IsmIds
        OBVIOUS
    <2> QED
        BY <2>1 DEF Init, InitRoute, RouteStorage, Identities
<1>2. ledger \in Ledger /\ assets \in Nat
    BY DEF Init, InitRoute, Ledger
<1>3. Balanced(route, assets, ledger) /\ PaidUp(route, ledger)
    BY DEF Init, InitRoute, Balanced, PaidUp
<1>4. State \in Sound
    BY <1>1, <1>2, <1>3, InitSumsUp, NowIsSound DEF Now, Init
<1>5. stack \in Seq(FrameOver(Sound))
    BY DEF Init, InitRoute
<1> QED
    BY <1>4, <1>5 DEF IInv

-----------------------------------------------------------------------------
(* Steps.                                                                   *)

\* A common step changes nothing soundness is about, or restores a sound state.
LEMMA CommonSound == IInv /\ CommonNext => IInv'
<1> SUFFICES ASSUME IInv, CommonNext PROVE IInv'
    OBVIOUS
<1>1. CASE Abort
    <2>1. \A s \in Sound : s = [route |-> s.route, assets |-> s.assets, ledger |-> s.ledger]
        BY DEF Sound
    <2> QED
        BY <1>1, <2>1, AbortKeeps DEF IInv
<1>2. CASE ~Abort
    <2>1. Now
        BY NowIsSound DEF IInv
    <2>2. Typed' /\ Kept /\ stack' \in Seq(FrameOver(Sound))
        BY <1>2, <2>1, CommonKeeps DEF IInv, Now, Typed
    <2>3. Now'
        BY <2>1, <2>2 DEF Now, Typed, Kept, Balanced, PaidUp, SumsUp, Summed
    <2> QED
        BY <2>2, <2>3, NowIsSoundNext DEF IInv
<1> QED
    BY <1>1, <1>2

\* The deposit adds as much to custody as to what was taken.
LEMMA QuotedSound ==
    ASSUME IInv, NEW fee \in Fees, Quoted(fee)
    PROVE  IInv'
<1>1. Now
    BY NowIsSound DEF IInv
<1>2. /\ Typed' /\ stack' \in Seq(FrameOver(Sound)) /\ route' = route
      /\ Top.amount \in Nat
      /\ ledger'.taken = ledger.taken + Top.amount
      /\ ledger'.received = ledger.received
      /\ ledger'.credited = ledger.credited
      /\ ledger'.paid = ledger.paid
    BY <1>1, TakeKeeps DEF IInv, Now, Typed, Quoted
<1>3. assets' = assets + Top.amount
    BY DEF Quoted
<1>4. route.pending_total \in Nat /\ ledger.taken \in Nat /\ ledger.received \in Nat
    BY <1>1, WarpRouteAssumption DEF Now, RouteStorage, Ledger
<1>5. Balanced(route', assets', ledger') /\ assets' \in Nat
    <2>1. /\ assets \in Nat /\ route.pending_total <= assets
          /\ assets - route.pending_total = ledger.taken - ledger.received
        BY <1>1 DEF Now, Balanced
    <2>2. /\ Top.amount \in Nat /\ ledger'.taken = ledger.taken + Top.amount
          /\ ledger'.received = ledger.received /\ route' = route
        BY <1>2
    <2>3. /\ assets' \in Nat /\ route.pending_total <= assets'
          /\ assets' - route.pending_total = ledger'.taken - ledger'.received
        BY <1>3, <1>4, <2>1, <2>2
    <2> QED
        BY <2>2, <2>3 DEF Balanced
<1>6. Now'
    BY <1>1, <1>2, <1>5 DEF Now, Typed, PaidUp
<1> QED
    BY <1>2, <1>6, NowIsSoundNext DEF IInv

\* A delivery pays or owes what the custody has to spare.
LEMMA HandleSound ==
    ASSUME IInv, NEW d \in Domains, NEW s \in Routers, NEW p \in Identities,
           NEW amount \in Amounts, Handle(d, s, p, amount)
    PROVE  IInv'
<1>1. Now
    BY NowIsSound DEF IInv
<1>2. /\ amount \in Nat
      /\ route.pending_total \in Nat /\ ledger.taken \in Nat /\ ledger.received \in Nat
      /\ route.pending_transfers \in [Identities -> Nat]
      /\ ledger.paid \in [Identities -> Nat] /\ ledger.credited \in [Identities -> Nat]
    BY <1>1, WarpRouteAssumption DEF Now, RouteStorage, Ledger
<1>3. assets - route.pending_total >= amount /\ stack' = stack
    BY DEF Handle, Unreserved
<1> DEFINE l == Receive(ledger, p, amount)
<1>4. /\ l \in Ledger /\ l.taken = ledger.taken /\ l.received = ledger.received + amount
      /\ l.paid = ledger.paid /\ l.credited = [ledger.credited EXCEPT ![p] = @ + amount]
    BY <1>1, <1>2, ReceiveKeeps DEF Now
<1> HIDE DEF l
<1>5. CASE /\ ledger' = Paid(l, p, amount)
           /\ assets' = assets - amount
           /\ UNCHANGED route
    <2>1. /\ ledger' \in Ledger /\ ledger'.taken = l.taken /\ ledger'.received = l.received
          /\ ledger'.credited = l.credited
          /\ ledger'.paid = [l.paid EXCEPT ![p] = @ + amount]
        BY <1>2, <1>4, <1>5, PaidKeeps
    <2>2. Balanced(route', assets', ledger') /\ assets' \in Nat
        BY <1>1, <1>2, <1>3, <1>4, <1>5, <2>1 DEF Now, Balanced
    <2>3. PaidUp(route', ledger')
        BY <1>1, <1>2, <1>4, <1>5, <2>1 DEF Now, PaidUp
    <2>4. Now'
        BY <1>1, <1>5, <2>1, <2>2, <2>3 DEF Now
    <2> QED
        BY <1>3, <2>4, NowIsSoundNext DEF IInv
<1>6. CASE /\ ledger' = l
           /\ Owe(p, amount)
           /\ UNCHANGED assets
    <2>1. /\ route' \in RouteStorage
          /\ route'.pending_total = route.pending_total + amount
          /\ route'.pending_transfers = [route.pending_transfers EXCEPT ![p] = @ + amount]
        BY <1>1, <1>6, OweKeeps DEF Now
    <2>2. Balanced(route', assets', ledger')
        BY <1>1, <1>2, <1>3, <1>4, <1>6, <2>1 DEF Now, Balanced
    <2>3. PaidUp(route', ledger')
        BY <1>1, <1>2, <1>4, <1>6, <2>1 DEF Now, PaidUp
    <2>4. SumsUp(route')
        BY <1>1, <1>6, OweKeepsSum DEF Now
    <2>5. Now'
        BY <1>1, <1>4, <1>6, <2>1, <2>2, <2>3, <2>4 DEF Now
    <2> QED
        BY <1>3, <2>5, NowIsSoundNext DEF IInv
<1> QED
    BY <1>5, <1>6 DEF Handle, l

\* A claim turns what is owed into what is paid.
LEMMA ClaimSound ==
    ASSUME IInv, NEW p \in Identities, Settle(p),
           assets >= route.pending_transfers[p],
           assets' = assets - route.pending_transfers[p],
           ledger' = Paid(ledger, p, route.pending_transfers[p])
    PROVE  State' \in Sound
<1>1. Now
    BY NowIsSound DEF IInv
<1> DEFINE amount == route.pending_transfers[p]
<1>2. /\ route' \in RouteStorage /\ amount \in Nat
      /\ route'.pending_total = route.pending_total - amount
      /\ route'.pending_transfers = [route.pending_transfers EXCEPT ![p] = 0]
    BY <1>1, SettleKeeps DEF Now
<1>3. /\ route.pending_total \in Nat /\ ledger.taken \in Nat /\ ledger.received \in Nat
      /\ route.pending_transfers \in [Identities -> Nat]
      /\ ledger.paid \in [Identities -> Nat] /\ ledger.credited \in [Identities -> Nat]
    BY <1>1, WarpRouteAssumption DEF Now, RouteStorage, Ledger
<1>4. /\ ledger' \in Ledger /\ ledger'.taken = ledger.taken
      /\ ledger'.received = ledger.received /\ ledger'.credited = ledger.credited
      /\ ledger'.paid = [ledger.paid EXCEPT ![p] = @ + amount]
    BY <1>1, <1>2, PaidKeeps DEF Now
<1>5. Balanced(route', assets', ledger') /\ assets' \in Nat
    BY <1>1, <1>2, <1>3, <1>4 DEF Now, Balanced
<1>6. PaidUp(route', ledger')
    BY <1>1, <1>2, <1>3, <1>4 DEF Now, PaidUp
<1>7. SumsUp(route')
    BY <1>1, SettleKeepsSum DEF Now
<1>8. Now'
    BY <1>2, <1>4, <1>5, <1>6, <1>7 DEF Now
<1> QED
    BY <1>8, NowIsSoundNext

\* Every step keeps the invariant.
LEMMA NextSound == IInv /\ [Next]_vars => IInv'
<1> SUFFICES ASSUME IInv, [Next]_vars PROVE IInv'
    OBVIOUS
<1>1. CASE CommonNext
    BY <1>1, CommonSound
<1>2. CASE \E fee \in Fees : Quoted(fee)
    BY <1>2, QuotedSound
<1>3. CASE \E d \in Domains, s \in Routers, r \in Identities, amount \in Amounts :
              Handle(d, s, r, amount)
    BY <1>3, HandleSound
<1>4. CASE \E a \in Accounts : ClaimPending(a)
    <2>1. PICK a \in Accounts : ClaimPending(a)
        BY <1>4
    <2>2. State' \in Sound
        BY <2>1, ClaimSound DEF ClaimPending, Identities
    <2> QED
        BY <2>1, <2>2 DEF IInv, ClaimPending
<1>5. CASE \E c \in Contracts : ClaimPendingContract(c)
    <2>1. PICK c \in Contracts : ClaimPendingContract(c)
        BY <1>5
    <2>2. c \in Identities /\ 0 \in Nat /\ "receive_native_pending" \in PC
        BY DEF Identities, PC
    <2>3. State' \in Sound
        BY <2>1, <2>2, ClaimSound DEF ClaimPendingContract
    <2>4. ledger \in Ledger
        BY NowIsSound DEF IInv, Now
    <2>5. stack' \in Seq(FrameOver(Sound))
        BY <2>1, <2>2, <2>4, EnterKeeps DEF IInv, ClaimPendingContract
    <2> QED
        BY <2>3, <2>5 DEF IInv
<1>6. CASE FinishClaim
    <2>1. Pop \in Seq(FrameOver(Sound))
        BY <1>6, TopPop DEF IInv, FinishClaim, Returned, Pop
    <2> QED
        BY <1>6, <2>1 DEF IInv, FinishClaim, State
<1>7. CASE UNCHANGED vars
    BY <1>7 DEF IInv, State, vars
<1> QED
    BY <1>1, <1>2, <1>3, <1>4, <1>5, <1>6, <1>7 DEF Next

-----------------------------------------------------------------------------
(* Theorems.                                                                *)

\* In every reachable state the current state and every saved one are sound.
THEOREM NativeSound == Spec => []IInv
<1> QED
    BY InitSound, NextSound, PTL DEF Spec

\* Storage, custody, history and frames keep their shape.
THEOREM NativeTypeCorrect == Spec => []TypeOK
<1>1. IInv => TypeOK
    <2> SUFFICES ASSUME IInv PROVE TypeOK
        OBVIOUS
    <2>1. Now
        BY NowIsSound DEF IInv
    <2>2. FrameOver(Sound) \subseteq Frame(Nat)
        BY DEF FrameOver, Frame, Sound
    <2>3. stack \in Seq(Frame(Nat))
        BY <2>2 DEF IInv
    <2> QED
        BY <2>1, <2>3 DEF TypeOK, Now
<1> QED
    BY <1>1, NativeSound, PTL

\* Every pending claim is backed by custody, and custody beyond the claims is
\* what was taken and not given back.
THEOREM NativeBacked == Spec => []Backed
<1>1. IInv => Backed
    BY NowIsSound DEF IInv, Now, Balanced, Backed
<1> QED
    BY <1>1, NativeSound, PTL

\* Each recipient has been paid what its messages carried less what is pending.
THEOREM NativePaidOnce == Spec => []PaidOnce
<1>1. IInv => PaidOnce
    BY NowIsSound DEF IInv, Now, PaidUp, PaidOnce
<1> QED
    BY <1>1, NativeSound, PTL

\* "pending_total is the checked aggregate": the aggregate the custody checks
\* reserve is the sum of the entries.
THEOREM NativePendingTotal ==
    ASSUME IsFiniteSet(Identities) PROVE Spec => []PendingTotalIsSum
<1>1. IInv => PendingTotalIsSum
    BY NowIsSound DEF IInv, Now, SumsUp, Summed, PendingTotalIsSum
<1>2. Spec => []IInv
    BY NativeSound
<1> QED
    BY <1>1, <1>2, PTL

-----------------------------------------------------------------------------
(* The books.                                                               *)

\* What soundness says of the calls in progress.
LEMMA SoundFramed == IInv => Framed(Sound) /\ Typed
    BY NowIsSound DEF IInv, Now, Framed, Typed, Sound

LEMMA SoundFramedNext == IInv' => Framed(Sound)' /\ Typed'
    BY SoundFramed, PTL

\* Every step keeps the books, and the standing credit a failure falls back to.
LEMMA NextKeepsBooks ==
    IInv /\ IInv' /\ Books /\ [Next]_vars => Books' /\ Rises
<1> SUFFICES ASSUME IInv, IInv', Books, [Next]_vars PROVE Books' /\ Rises
    OBVIOUS
<1>1. Framed(Sound) /\ Typed /\ Typed' /\ State \in Sound /\ ledger \in Ledger /\ ledger' \in Ledger
    BY SoundFramed, SoundFramedNext DEF IInv, Typed, Framed
<1>2. CASE CommonNext
    BY <1>1, <1>2, CommonKeepsBooks
<1>3. CASE \E fee \in Fees : Quoted(fee)
    <2>1. PICK fee \in Fees : TakeAndForward(fee)
        BY <1>3 DEF Quoted
    <2> QED
        BY <1>1, <2>1, TakeKeepsBooks
<1>4. CASE \E d \in Domains, s \in Routers, r \in Identities, amount \in Amounts :
              Handle(d, s, r, amount)
    <2>1. PICK d \in Domains, s \in Routers, r \in Identities, amount \in Amounts :
              Handle(d, s, r, amount)
        BY <1>4
    <2>2. \/ ledger' = Paid(Receive(ledger, r, amount), r, amount)
          \/ ledger' = Receive(ledger, r, amount)
        BY <2>1 DEF Handle
    <2>3. SameFigures /\ stack' = stack
        BY <1>1, <2>1, <2>2, HistoryKeepsFigures DEF Handle
    <2> QED
        BY <1>1, <2>3, SameLedgerKeepsBooks
<1>5. ASSUME NEW p \in Identities, ledger' = Paid(ledger, p, route.pending_transfers[p])
      PROVE  SameFigures
    BY <1>1, <1>5, HistoryKeepsFigures
<1>6. CASE \E a \in Accounts : ClaimPending(a)
    <2>1. SameFigures /\ stack' = stack
        BY <1>5, <1>6 DEF ClaimPending, Identities
    <2> QED
        BY <1>1, <2>1, SameLedgerKeepsBooks
<1>7. CASE \E c \in Contracts : ClaimPendingContract(c)
    <2>1. PICK c \in Contracts : ClaimPendingContract(c)
        BY <1>7
    <2>2. SameFigures /\ Enter("receive_native_pending", c, 0)
        BY <1>5, <2>1 DEF ClaimPendingContract, Identities
    <2> QED
        BY <1>1, <2>2, EnterKeepsBooks
<1>8. CASE FinishClaim
    BY <1>1, <1>8, ReturnKeepsBooks DEF FinishClaim, Returned
<1>9. CASE UNCHANGED vars
    BY <1>1, <1>9, SameLedgerKeepsBooks DEF vars, SameFigures
<1> QED
    BY <1>2, <1>3, <1>4, <1>6, <1>7, <1>8, <1>9 DEF Next

\* In every reachable state the books of the calls in progress balance.
THEOREM NativeBooks == Spec => []Books
<1>1. Init => Books
    BY InitBooks DEF Init
<1>2. IInv /\ IInv' /\ Books /\ [Next]_vars => Books'
    BY NextKeepsBooks
<1> QED
    BY <1>1, <1>2, NativeSound, PTL DEF Spec

\* Between transactions, what senders gave is what messages told the other side.
THEOREM NativeTakenIsSent == Spec => []TakenIsSent
<1> QED
    BY NativeBooks, BooksTakenIsSent, PTL

\* No transfer spends the route's standing credit, whatever re-enters or fails.
THEOREM NativeStandingCredit == Spec => StandingCreditKept
<1>1. IInv /\ IInv' /\ Books /\ [Next]_vars
        => [CommittedLedger.credit + CommittedLedger.withdrawn
              <= CommittedLedger'.credit + CommittedLedger'.withdrawn]_vars
    BY NextKeepsBooks, SoundFramed, SoundFramedNext, CommittedRises
<1> QED
    BY <1>1, NativeSound, NativeBooks, PTL DEF Spec, StandingCreditKept

=============================================================================
