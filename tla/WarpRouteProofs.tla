--------------------------- MODULE WarpRouteProofs ---------------------------
(***************************************************************************)
(* What the steps common to the three routes preserve.  A route's          *)
(* invariant is a set S of states of its storage; the invariant of the     *)
(* whole is that the current state is in S and so is every state a failing *)
(* call would restore.  The lemmas here say it for any S.  What relates     *)
(* the calls in progress to each other, their books, needs no S.           *)
(***************************************************************************)
EXTENDS WarpRoute, FiniteSetTheorems, WellFoundedInduction, TLAPS

State == [route |-> route, assets |-> assets, ledger |-> ledger]

FrameOver(S) == [pc : PC, caller : Identities, amount : Nat,
                 credit_before : 0..MaxU64, saved : S]

-----------------------------------------------------------------------------
(* Sums.  The number of units the summands consist of satisfies the         *)
(* recursion that SumFunction is defined by, so it is the sum: the library's *)
(* theorems on cardinalities say the rest.                                  *)

\* The units of the summands at the indices s, for summands up to max.
Units(f, s, max) == {u \in s \X (1..max) : u[2] <= f[u[1]]}

LEMMA UnitsFinite ==
    ASSUME NEW s, IsFiniteSet(s), NEW max \in Nat, NEW f
    PROVE  IsFiniteSet(Units(f, s, max)) /\ Cardinality(Units(f, s, max)) \in Nat
<1>1. IsFiniteSet(1..max)
    BY FS_Interval
<1>2. IsFiniteSet(s \X (1..max))
    BY <1>1, FS_Product
<1>3. Units(f, s, max) \in SUBSET (s \X (1..max))
    BY DEF Units
<1> QED
    BY <1>2, <1>3, FS_Subset, FS_CardinalityType

\* Without one index, its summand's units are missing.
LEMMA UnitsWithout ==
    ASSUME NEW s, IsFiniteSet(s), NEW max \in Nat, NEW f, NEW x \in s, f[x] \in 0..max
    PROVE  Cardinality(Units(f, s, max)) = f[x] + Cardinality(Units(f, s \ {x}, max))
<1> DEFINE rest == Units(f, s \ {x}, max)
           n == f[x]
           range == 1..n
           one == {x}
           mine == one \X range
<1>0. n \in Nat /\ n <= max
    OBVIOUS
<1>1. Units(f, s, max) = rest \cup mine
    <2>1. ASSUME NEW u \in Units(f, s, max) PROVE u \in rest \cup mine
        <3>1. u \in s \X (1..max) /\ u[2] <= f[u[1]]
            BY <2>1 DEF Units
        <3>2. u = <<u[1], u[2]>> /\ u[1] \in s /\ u[2] \in 1..max
            BY <3>1
        <3>3. CASE u[1] = x
            <4>1. u[2] \in range
                BY <1>0, <3>1, <3>2, <3>3
            <4> QED
                BY <3>2, <3>3, <4>1
        <3>4. CASE u[1] # x
            BY <3>1, <3>2, <3>4 DEF Units
        <3> QED
            BY <3>3, <3>4
    <2>2. ASSUME NEW u \in rest PROVE u \in Units(f, s, max)
        BY <2>2 DEF Units
    <2>3. ASSUME NEW u \in mine PROVE u \in Units(f, s, max)
        <3>1. u = <<u[1], u[2]>> /\ u[1] = x /\ u[2] \in 1..n
            BY <2>3
        <3>2. u[2] \in 1..max /\ u[2] <= n
            BY <1>0, <3>1
        <3>3. u \in s \X (1..max)
            BY <3>1, <3>2
        <3> QED
            BY <3>1, <3>2, <3>3 DEF Units
    <2> QED
        BY <2>1, <2>2, <2>3
<1>2. rest \cap mine = {}
    BY DEF Units
<1>3. IsFiniteSet(s \ {x})
    BY FS_RemoveElement
<1>4. IsFiniteSet(rest) /\ Cardinality(rest) \in Nat
    BY <1>3, UnitsFinite
<1>5. IsFiniteSet(mine) /\ Cardinality(mine) = n
    <2>1. IsFiniteSet(one) /\ Cardinality(one) = 1
        BY FS_Singleton
    <2> HIDE DEF one, n
    <2>2. 1 \in Int /\ n \in Int /\ (1 > n => n = 0) /\ n - 1 + 1 = n
        BY <1>0
    <2>3. IsFiniteSet(1..n) /\ Cardinality(1..n) = IF 1 > n THEN 0 ELSE n - 1 + 1
        BY <2>2, FS_Interval
    <2>4. IsFiniteSet(range) /\ Cardinality(range) = n
        BY <2>2, <2>3
    <2> HIDE DEF range
    <2>5. IsFiniteSet(one \X range) /\ Cardinality(one \X range) = Cardinality(one) * Cardinality(range)
        BY <2>1, <2>4, FS_Product
    <2> QED
        BY <1>0, <2>1, <2>4, <2>5
<1> HIDE DEF rest, mine, n
<1>6. Cardinality(rest \cup mine) = Cardinality(rest) + Cardinality(mine) - Cardinality({})
    BY <1>2, <1>4, <1>5, FS_Union
<1>7. Cardinality(rest \cup mine) = n + Cardinality(rest)
    BY <1>0, <1>4, <1>5, <1>6, FS_EmptySet
<1> QED
    BY <1>1, <1>7 DEF rest, n

\* The sum is the number of units.
LEMMA SumIsCount ==
    ASSUME NEW D, IsFiniteSet(D), NEW max \in Nat, NEW f, \A x \in D : f[x] \in 0..max
    PROVE  SumFunctionOnSet(f, D) = Cardinality(Units(f, D, max))
<1> DEFINE Pick(s) == CHOOSE x \in s : TRUE
           count == [s \in SUBSET D |-> Cardinality(Units(f, s, max))]
           Sums(g) == g = [s \in SUBSET D |->
                             IF s = {} THEN 0 ELSE f[Pick(s)] + g[s \ {Pick(s)}]]
           sum == CHOOSE g : Sums(g)
<1>1. SumFunctionOnSet(f, D) = sum[D]
    BY DEF SumFunctionOnSet, FoldFunctionOnSet, MapThenFoldSet
<1>2. \A s \in SUBSET D : s # {} => Pick(s) \in s /\ s \ {Pick(s)} \in SUBSET D
    OBVIOUS
<1>3. \A s \in SUBSET D : IsFiniteSet(s)
    BY FS_Subset
<1> HIDE DEF Pick
<1>4. Sums(count)
    <2>1. count[{}] = 0
        <3>1. Units(f, {}, max) = {}
            BY DEF Units
        <3> QED
            BY <3>1, FS_EmptySet
    <2>2. ASSUME NEW s \in SUBSET D, s # {}
          PROVE  count[s] = f[Pick(s)] + count[s \ {Pick(s)}]
        <3>1. Pick(s) \in s /\ s \ {Pick(s)} \in SUBSET D /\ IsFiniteSet(s) /\ f[Pick(s)] \in 0..max
            BY <1>2, <1>3, <2>2
        <3>2. Cardinality(Units(f, s, max))
                = f[Pick(s)] + Cardinality(Units(f, s \ {Pick(s)}, max))
            BY <3>1, UnitsWithout
        <3> QED
            BY <3>1, <3>2
    <2>3. \A s \in SUBSET D : count[s] = IF s = {} THEN 0 ELSE f[Pick(s)] + count[s \ {Pick(s)}]
        BY <2>1, <2>2
    <2>4. count = [s \in SUBSET D |-> count[s]]
        OBVIOUS
    <2> HIDE DEF count
    <2> QED
        BY <2>3, <2>4
<1>5. Sums(sum)
    BY <1>4
<1> HIDE DEF sum
<1>6. \A s \in SUBSET D : sum[s] = IF s = {} THEN 0 ELSE f[Pick(s)] + sum[s \ {Pick(s)}]
    BY <1>5
<1>7. \A s \in SUBSET D : count[s] = IF s = {} THEN 0 ELSE f[Pick(s)] + count[s \ {Pick(s)}]
    BY <1>4
<1>8. ASSUME NEW s \in SUBSET D, sum[s] # count[s] PROVE FALSE
    <2> DEFINE T == {t \in SUBSET D : sum[t] # count[t]}
    <2>1. IsWellFoundedOn(StrictSubsetOrdering(D), SUBSET D)
        BY FS_StrictSubsetOrderingWellFounded, FS_FiniteSubsetsOfFinite
    <2>2. T \subseteq SUBSET D /\ T # {}
        BY <1>8
    <2>3. PICK t \in T : \A u \in T : ~(<<u, t>> \in StrictSubsetOrdering(D))
        BY <2>1, <2>2, WFMin
    <2>4. t # {}
        BY <1>6, <1>7, <2>3
    <2>5. Pick(t) \in t /\ t \ {Pick(t)} \in SUBSET D
        BY <1>2, <2>3, <2>4
    <2>6. <<t \ {Pick(t)}, t>> \in StrictSubsetOrdering(D)
        BY <2>3, <2>5 DEF StrictSubsetOrdering
    <2>7. sum[t \ {Pick(t)}] = count[t \ {Pick(t)}]
        BY <2>3, <2>5, <2>6
    <2> HIDE DEF count, Sums
    <2> QED
        BY <1>6, <1>7, <2>3, <2>4, <2>5, <2>7
<1> QED
    BY <1>1, <1>8

\* Functions that can be summed.
Summands(D, max) == [D -> 0..max]

\* A sum of natural numbers is one, no smaller than any of them.
LEMMA SumAtLeast ==
    ASSUME NEW D, IsFiniteSet(D), NEW max \in Nat, NEW f \in Summands(D, max)
    PROVE  /\ SumFunction(f) \in Nat
           /\ \A x \in D : f[x] <= SumFunction(f)
<1>1. SumFunction(f) = Cardinality(Units(f, D, max))
    BY SumIsCount DEF SumFunction, Summands
<1>2. ASSUME NEW x \in D PROVE f[x] <= SumFunction(f)
    <2>1. IsFiniteSet(D \ {x})
        BY FS_RemoveElement
    <2>2. Cardinality(Units(f, D \ {x}, max)) \in Nat
        BY <2>1, UnitsFinite
    <2>3. f[x] \in 0..max
        BY DEF Summands
    <2> QED
        BY <1>1, <2>2, <2>3, UnitsWithout
<1> QED
    BY <1>1, <1>2, UnitsFinite

\* The sum of zeros.
LEMMA SumNone ==
    ASSUME NEW D, IsFiniteSet(D), NEW f, DOMAIN f = D, \A x \in D : f[x] = 0
    PROVE  SumFunction(f) = 0
<1>1. SumFunction(f) = Cardinality(Units(f, D, 0))
    BY SumIsCount DEF SumFunction
<1>2. Units(f, D, 0) = {}
    BY DEF Units
<1> QED
    BY <1>1, <1>2, FS_EmptySet

\* g differs from f at p alone.
ChangedAt(f, g, D, p) == \A x \in D \ {p} : f[x] = g[x]

\* The sum changes by as much as the one summand.
LEMMA SumChange ==
    ASSUME NEW D, IsFiniteSet(D), NEW max \in Nat, NEW p \in D,
           NEW f \in Summands(D, max), NEW g \in Summands(D, max),
           ChangedAt(f, g, D, p)
    PROVE  SumFunction(g) = SumFunction(f) + g[p] - f[p]
<1>1. /\ SumFunction(f) = Cardinality(Units(f, D, max))
      /\ SumFunction(g) = Cardinality(Units(g, D, max))
    BY SumIsCount DEF SumFunction, Summands
<1>2. /\ f[p] \in 0..max /\ g[p] \in 0..max
    BY DEF Summands
<1>3. /\ Cardinality(Units(f, D, max)) = f[p] + Cardinality(Units(f, D \ {p}, max))
      /\ Cardinality(Units(g, D, max)) = g[p] + Cardinality(Units(g, D \ {p}, max))
    BY <1>2, UnitsWithout
<1>4. Units(f, D \ {p}, max) = Units(g, D \ {p}, max)
    BY DEF Units, ChangedAt
<1>5. IsFiniteSet(D \ {p})
    BY FS_RemoveElement
<1>6. Cardinality(Units(f, D \ {p}, max)) \in Nat
    BY <1>5, UnitsFinite
<1> QED
    BY <1>1, <1>2, <1>3, <1>4, <1>6

-----------------------------------------------------------------------------
(* Sequences.                                                               *)

\* The last element of a nonempty sequence over F is in F, and what is below it
\* is a sequence over F.
LEMMA TopPop ==
    ASSUME NEW F, NEW s \in Seq(F), s # <<>>
    PROVE  /\ Len(s) \in 1..Len(s)
           /\ s[Len(s)] \in F
           /\ SubSeq(s, 1, Len(s) - 1) \in Seq(F)
<1>1. Len(s) \in Nat /\ Len(s) # 0
    OBVIOUS
<1>2. Len(s) \in 1..Len(s)
    BY <1>1
<1>3. s[Len(s)] \in F
    BY <1>2
<1>4. SubSeq(s, 1, Len(s) - 1) \in Seq(F)
    BY <1>1
<1> QED
    BY <1>2, <1>3, <1>4

\* Moving the top frame's pc on keeps a stack of frames one.
LEMMA GotoKeeps ==
    ASSUME NEW S, stack \in Seq(FrameOver(S)), stack # <<>>,
           NEW pc \in PC, Goto(pc)
    PROVE  stack' \in Seq(FrameOver(S))
<1>1. Len(stack) \in 1..Len(stack) /\ stack[Len(stack)] \in FrameOver(S)
    BY TopPop
<1>2. [stack[Len(stack)] EXCEPT !.pc = pc] \in FrameOver(S)
    BY <1>1 DEF FrameOver
<1>3. stack' = [stack EXCEPT ![Len(stack)] = [stack[Len(stack)] EXCEPT !.pc = pc]]
    BY DEF Goto
<1> QED
    BY <1>1, <1>2, <1>3

\* A new call's frame keeps the state it begins in.
LEMMA EnterKeeps ==
    ASSUME NEW S, State \in S, stack \in Seq(FrameOver(S)), ledger \in Ledger,
           NEW pc \in PC, NEW caller \in Identities, NEW amount \in Nat,
           Enter(pc, caller, amount)
    PROVE  stack' \in Seq(FrameOver(S))
<1>1. ledger.credit \in 0..MaxU64
    BY DEF Ledger
<1>2. [pc |-> pc, caller |-> caller, amount |-> amount,
       credit_before |-> ledger.credit, saved |-> State] \in FrameOver(S)
    BY <1>1 DEF FrameOver
<1>3. stack' = Append(stack, [pc |-> pc, caller |-> caller, amount |-> amount,
                              credit_before |-> ledger.credit, saved |-> State])
    BY DEF Enter, State
<1> QED
    BY <1>2, <1>3

-----------------------------------------------------------------------------
(* Steps.                                                                   *)

\* A failing call falls back to a state of S.
LEMMA AbortKeeps ==
    ASSUME NEW S, stack \in Seq(FrameOver(S)), Abort,
           \A s \in S : s = [route |-> s.route, assets |-> s.assets, ledger |-> s.ledger]
    PROVE  State' \in S /\ stack' \in Seq(FrameOver(S))
<1>1. stack # <<>>
    BY DEF Abort
<1>2. Top \in FrameOver(S) /\ Pop \in Seq(FrameOver(S))
    BY <1>1, TopPop DEF Top, Pop
<1>3. Top.saved \in S
    BY <1>2 DEF FrameOver
<1>4. State' = Top.saved
    BY <1>3 DEF Abort, State
<1> QED
    BY <1>2, <1>3, <1>4 DEF Abort

\* What no common step but Abort touches: the value handled, the pending
\* ledger, and the history of taken, received, credited and paid value.
Kept ==
    /\ assets' = assets
    /\ route'.pending_transfers = route.pending_transfers
    /\ route'.pending_total = route.pending_total
    /\ ledger'.taken = ledger.taken
    /\ ledger'.received = ledger.received
    /\ ledger'.credited = ledger.credited
    /\ ledger'.paid = ledger.paid

Typed == route \in RouteStorage /\ ledger \in Ledger

\* The owner's calls keep the types and all of Kept.
LEMMA AdminKeeps ==
    ASSUME Typed, Admin
    PROVE  Typed' /\ Kept /\ stack' = stack
<1> USE DEF Typed, Kept
<1>1. PICK caller \in Callers :
          \/ \E d \in Domains, r \in Routers : EnrollRemoteRouter(caller, d, r)
          \/ \E h \in HookIds : SetHook(caller, h)
          \/ \E i \in IsmIds : SetIsm(caller, i)
          \/ \E amount \in Amounts : WithdrawDispatchCredit(caller, amount)
          \/ \E o \in Owners : TransferOwnership(caller, o)
    BY DEF Admin
<1>2. CASE \E d \in Domains, r \in Routers : EnrollRemoteRouter(caller, d, r)
    BY <1>2 DEF EnrollRemoteRouter, RouteStorage
<1>3. CASE \E h \in HookIds : SetHook(caller, h)
    BY <1>3 DEF SetHook, RouteStorage
<1>4. CASE \E i \in IsmIds : SetIsm(caller, i)
    BY <1>4 DEF SetIsm, RouteStorage
<1>5. CASE \E amount \in Amounts : WithdrawDispatchCredit(caller, amount)
    <2>1. PICK amount \in Amounts : WithdrawDispatchCredit(caller, amount)
        BY <1>5
    <2>2. /\ ledger.credit - amount \in 0..MaxU64
          /\ ledger.withdrawn + amount \in Nat
        BY <2>1, WarpRouteAssumption DEF WithdrawDispatchCredit, Ledger
    <2> QED
        BY <2>1, <2>2 DEF WithdrawDispatchCredit, Ledger
<1>6. CASE \E o \in Owners : TransferOwnership(caller, o)
    BY <1>6, WarpRouteAssumption DEF TransferOwnership, RouteStorage
<1> QED
    BY <1>1, <1>2, <1>3, <1>4, <1>5, <1>6

\* Every common step but Abort keeps the types and all of Kept, and its new
\* frames save states of S.
LEMMA CommonKeeps ==
    ASSUME NEW S, State \in S, stack \in Seq(FrameOver(S)), Typed,
           CommonNext, ~Abort
    PROVE  Typed' /\ Kept /\ stack' \in Seq(FrameOver(S))
<1>1. CASE \E a \in Accounts : RegisterAccount(a)
    BY <1>1 DEF RegisterAccount, RouteStorage, Typed, Kept
<1>2. CASE \E caller \in Callers, d \in Domains, amount \in Amounts :
              TransferRemote(caller, d, amount)
    <2>1. PICK caller \in Callers, d \in Domains, amount \in Amounts :
              TransferRemote(caller, d, amount)
        BY <1>2
    <2>2. caller \in Identities /\ amount \in Nat /\ "quote" \in PC
        BY WarpRouteAssumption DEF Callers, Identities, PC
    <2>3. stack' \in Seq(FrameOver(S))
        BY <2>1, <2>2, EnterKeeps DEF TransferRemote, Typed
    <2> QED
        BY <2>1, <2>3 DEF TransferRemote, Typed, Kept
<1>3. CASE \E fee \in Fees : MailboxCharges(fee)
    <2>1. PICK fee \in Fees : MailboxCharges(fee)
        BY <1>3
    <2>2. stack # <<>> /\ Goto("post_dispatch") /\ "post_dispatch" \in PC
        BY <2>1 DEF MailboxCharges, Returned, PC
    <2>3. stack' \in Seq(FrameOver(S))
        BY <2>2, GotoKeeps
    <2>4. Top \in FrameOver(S)
        BY <2>2, TopPop DEF Top
    <2>5. Top.amount \in Nat
        BY <2>4 DEF FrameOver
    <2>6. /\ ledger.credit - fee \in 0..MaxU64
          /\ ledger.sent + Top.amount \in Nat
        <3>1. ledger.credit \in 0..MaxU64 /\ ledger.sent \in Nat
            BY DEF Ledger, Typed
        <3>2. fee \in 0..MaxU64 /\ MaxU64 \in Nat
            BY WarpRouteAssumption
        <3>3. ledger.credit >= fee
            BY <2>1 DEF MailboxCharges
        <3> QED
            BY <2>5, <3>1, <3>2, <3>3
    <2>7. ledger' = [ledger EXCEPT !.credit = @ - fee, !.sent = @ + Top.amount]
        BY <2>1 DEF MailboxCharges
    <2> QED
        BY <2>1, <2>3, <2>6, <2>7 DEF MailboxCharges, Ledger, Typed, Kept
<1>4. CASE FinishTransfer
    <2>1. Pop \in Seq(FrameOver(S))
        BY <1>4, TopPop DEF FinishTransfer, Returned, Pop
    <2> QED
        BY <1>4, <2>1 DEF FinishTransfer, Typed, Kept
<1>5. CASE \E amount \in Amounts : FundCredit(amount)
    <2>1. PICK amount \in Amounts : FundCredit(amount)
        BY <1>5
    <2>2. /\ ledger.credit + amount \in 0..MaxU64
          /\ ledger.funded + amount \in Nat
        BY <2>1, WarpRouteAssumption DEF FundCredit, Ledger, Typed
    <2>3. /\ ledger' = [ledger EXCEPT !.credit = @ + amount, !.funded = @ + amount]
          /\ UNCHANGED <<route, assets, stack>>
        BY <2>1 DEF FundCredit
    <2> QED
        BY <2>2, <2>3 DEF Ledger, Typed, Kept
<1>6. CASE Admin
    BY <1>6, AdminKeeps
<1> QED
    BY <1>1, <1>2, <1>3, <1>4, <1>5, <1>6 DEF CommonNext

\* The common part of a quote's return.
LEMMA TakeKeeps ==
    ASSUME NEW S, stack \in Seq(FrameOver(S)), Typed,
           NEW fee \in Fees, TakeAndForward(fee)
    PROVE  /\ Typed' /\ stack' \in Seq(FrameOver(S)) /\ route' = route
           /\ Top.amount \in Nat /\ Top.caller \in Identities
           /\ ledger'.taken = ledger.taken + Top.amount
           /\ ledger'.received = ledger.received
           /\ ledger'.credited = ledger.credited
           /\ ledger'.paid = ledger.paid
<1>1. stack # <<>> /\ Goto("dispatch") /\ "dispatch" \in PC
    BY DEF TakeAndForward, Returned, PC
<1>2. stack' \in Seq(FrameOver(S))
    BY <1>1, GotoKeeps
<1>3. Top \in FrameOver(S)
    BY <1>1, TopPop DEF Top
<1>4. Top.amount \in Nat /\ Top.caller \in Identities
    BY <1>3 DEF FrameOver
<1>5. /\ ledger.credit + fee \in 0..MaxU64
      /\ ledger.taken + Top.amount \in Nat
    <2>1. ledger.credit \in 0..MaxU64 /\ ledger.taken \in Nat
        BY DEF Ledger, Typed
    <2>2. fee \in 0..MaxU64 /\ MaxU64 \in Nat
        BY WarpRouteAssumption
    <2>3. ledger.credit + fee <= MaxU64
        BY DEF TakeAndForward
    <2> QED
        BY <1>4, <2>1, <2>2, <2>3
<1>6. ledger' = [ledger EXCEPT !.taken = @ + Top.amount, !.credit = @ + fee]
    BY DEF TakeAndForward
<1> QED
    BY <1>2, <1>4, <1>5, <1>6 DEF TakeAndForward, Ledger, Typed

-----------------------------------------------------------------------------
(* The pending ledger and the history.                                      *)

\* A new entry of the pending ledger.
LEMMA OweKeeps ==
    ASSUME route \in RouteStorage,
           NEW p \in Identities, NEW amount \in Amounts, Owe(p, amount)
    PROVE  /\ route' \in RouteStorage
           /\ route'.pending_total = route.pending_total + amount
           /\ route'.pending_transfers =
                [route.pending_transfers EXCEPT ![p] = @ + amount]
<1>1. /\ amount \in Nat /\ MaxU64 \in Nat
      /\ route.pending_transfers[p] \in 0..MaxU64 /\ route.pending_total \in 0..MaxU64
    BY WarpRouteAssumption DEF RouteStorage
<1>2. /\ route.pending_transfers[p] + amount \in 0..MaxU64
      /\ route.pending_total + amount \in 0..MaxU64
    BY <1>1 DEF Owe
<1> QED
    BY <1>2 DEF Owe, RouteStorage

\* A claimed entry.
LEMMA SettleKeeps ==
    ASSUME route \in RouteStorage, NEW p \in Identities, Settle(p)
    PROVE  /\ route' \in RouteStorage
           /\ route.pending_transfers[p] \in Nat
           /\ route'.pending_total = route.pending_total - route.pending_transfers[p]
           /\ route'.pending_transfers = [route.pending_transfers EXCEPT ![p] = 0]
<1>1. /\ MaxU64 \in Nat /\ 0 \in 0..MaxU64
      /\ route.pending_transfers[p] \in 0..MaxU64 /\ route.pending_total \in 0..MaxU64
    BY WarpRouteAssumption DEF RouteStorage
<1>2. route.pending_total - route.pending_transfers[p] \in 0..MaxU64
    BY <1>1 DEF Settle
<1> DEFINE entries == [route.pending_transfers EXCEPT ![p] = 0]
           total == route.pending_total - route.pending_transfers[p]
<1>3. route' = [route EXCEPT !.pending_transfers = entries, !.pending_total = total]
    BY DEF Settle, RouteStorage
<1>4. entries \in [Identities -> 0..MaxU64] /\ total \in 0..MaxU64
    BY <1>1, <1>2 DEF RouteStorage
<1>5. entries = [route.pending_transfers EXCEPT ![p] = 0]
      /\ total = route.pending_total - route.pending_transfers[p]
    OBVIOUS
<1> HIDE DEF entries, total
<1>6. route' \in RouteStorage
    BY <1>3, <1>4 DEF RouteStorage
<1>7. route'.pending_total = total /\ route'.pending_transfers = entries
    BY <1>3 DEF RouteStorage
<1>8. route.pending_transfers[p] \in Nat
    BY <1>1
<1> QED
    BY <1>5, <1>6, <1>7, <1>8

\* A handled message in the history.
LEMMA ReceiveKeeps ==
    ASSUME NEW l \in Ledger, NEW p \in Identities, NEW amount \in Nat
    PROVE  /\ Receive(l, p, amount) \in Ledger
           /\ Receive(l, p, amount).taken = l.taken
           /\ Receive(l, p, amount).received = l.received + amount
           /\ Receive(l, p, amount).paid = l.paid
           /\ Receive(l, p, amount).credited = [l.credited EXCEPT ![p] = @ + amount]
<1>1. l.received + amount \in Nat /\ l.credited[p] + amount \in Nat
    BY DEF Ledger
<1> QED
    BY <1>1 DEF Receive, Ledger

\* A payment in the history.
LEMMA PaidKeeps ==
    ASSUME NEW l \in Ledger, NEW p \in Identities, NEW amount \in Nat
    PROVE  /\ Paid(l, p, amount) \in Ledger
           /\ Paid(l, p, amount).taken = l.taken
           /\ Paid(l, p, amount).received = l.received
           /\ Paid(l, p, amount).credited = l.credited
           /\ Paid(l, p, amount).paid = [l.paid EXCEPT ![p] = @ + amount]
<1>1. l.paid[p] + amount \in Nat
    BY DEF Ledger
<1> QED
    BY <1>1 DEF Paid, Ledger

-----------------------------------------------------------------------------
(* The aggregate of the pending ledger.                                     *)

\* The aggregate of a storage is the sum of its entries.
Summed(r) == r.pending_total = SumFunction(r.pending_transfers)

SumsUp(r) == IsFiniteSet(Identities) => Summed(r)

\* A new entry is added to both.
LEMMA OweKeepsSum ==
    ASSUME route \in RouteStorage, SumsUp(route),
           NEW p \in Identities, NEW amount \in Amounts, Owe(p, amount)
    PROVE  SumsUp(route')
<1> SUFFICES ASSUME IsFiniteSet(Identities), Summed(route) PROVE Summed(route')
    BY DEF SumsUp
<1> DEFINE f == route.pending_transfers
           g == route'.pending_transfers
           D == Identities
<1>1. f \in Summands(D, MaxU64) /\ g \in Summands(D, MaxU64)
    BY OweKeeps DEF RouteStorage, Summands
<1>2. MaxU64 \in Nat /\ route.pending_total \in Nat /\ f[p] \in Nat /\ amount \in Nat
    BY WarpRouteAssumption DEF RouteStorage
<1>3. /\ route'.pending_total = route.pending_total + amount
      /\ g = [f EXCEPT ![p] = @ + amount]
    BY OweKeeps
<1>4. g[p] = f[p] + amount /\ ChangedAt(f, g, D, p)
    BY <1>3 DEF RouteStorage, ChangedAt
<1>5. route.pending_total = SumFunction(f) /\ IsFiniteSet(D) /\ p \in D
    BY DEF Summed
<1>6. route'.pending_total = SumFunction(g) => Summed(route')
    BY DEF Summed
<1> HIDE DEF f, g, D
<1>7. SumFunction(g) = SumFunction(f) + g[p] - f[p]
    BY <1>1, <1>2, <1>4, <1>5, SumChange
<1>8. SumFunction(f) \in Nat
    BY <1>1, <1>2, <1>5, SumAtLeast
<1> QED
    BY <1>2, <1>3, <1>4, <1>5, <1>6, <1>7, <1>8

\* A claim takes its entry from both.
LEMMA SettleKeepsSum ==
    ASSUME route \in RouteStorage, SumsUp(route),
           NEW p \in Identities, Settle(p)
    PROVE  SumsUp(route')
<1> SUFFICES ASSUME IsFiniteSet(Identities), Summed(route) PROVE Summed(route')
    BY DEF SumsUp
<1> DEFINE f == route.pending_transfers
           g == route'.pending_transfers
           D == Identities
<1>1. f \in Summands(D, MaxU64) /\ g \in Summands(D, MaxU64)
    BY SettleKeeps DEF RouteStorage, Summands
<1>2. MaxU64 \in Nat /\ route.pending_total \in Nat /\ f[p] \in Nat
    BY WarpRouteAssumption DEF RouteStorage
<1>3. /\ route'.pending_total = route.pending_total - f[p]
      /\ g = [f EXCEPT ![p] = 0]
    BY SettleKeeps
<1>4. g[p] = 0 /\ ChangedAt(f, g, D, p)
    BY <1>3 DEF RouteStorage, ChangedAt
<1>5. route.pending_total = SumFunction(f) /\ IsFiniteSet(D) /\ p \in D
    BY DEF Summed
<1>6. route'.pending_total = SumFunction(g) => Summed(route')
    BY DEF Summed
<1> HIDE DEF f, g, D
<1>7. SumFunction(g) = SumFunction(f) + g[p] - f[p]
    BY <1>1, <1>2, <1>4, <1>5, SumChange
<1>8. SumFunction(f) \in Nat
    BY <1>1, <1>2, <1>5, SumAtLeast
<1> QED
    BY <1>2, <1>3, <1>4, <1>5, <1>6, <1>7, <1>8

\* A route is deployed with nothing pending.
LEMMA InitSumsUp == InitRoute => SumsUp(route)
<1> SUFFICES ASSUME IsFiniteSet(Identities), InitRoute PROVE Summed(route)
    BY DEF SumsUp
<1>1. /\ route.pending_total = 0
      /\ DOMAIN route.pending_transfers = Identities
      /\ \A p \in Identities : route.pending_transfers[p] = 0
    BY DEF InitRoute
<1> QED
    BY <1>1, SumNone DEF Summed

-----------------------------------------------------------------------------
(* The books of the calls in progress.                                      *)

\* The ledger at the end of the k-th call so far: what the next one began with,
\* or, for the innermost call, the ledger as it is.
Level(k) == IF k = Len(stack) THEN ledger ELSE stack[k + 1].saved.ledger

Dispatching(f) == f.pc \in {"dispatch", "post_dispatch"}

Standing(l) == l.credit + l.withdrawn

\* At most one call is dispatching.
OneDispatch ==
    \A i, j \in 1..Len(stack) :
        Dispatching(stack[i]) /\ Dispatching(stack[j]) => i = j

\* What that call has taken and not yet sent is the difference between the two
\* in every later ledger.
TransitAt(k) ==
    /\ \A j \in 1..k : stack[j].pc = "dispatch"
          => Level(k).taken = Level(k).sent + stack[j].amount
    /\ (\A j \in 1..k : stack[j].pc # "dispatch") => Level(k).taken = Level(k).sent

Transit == \A k \in 0..Len(stack) : TransitAt(k)

\* No call has lowered the standing credit, but for the one the Mailbox has
\* charged; that one finishes only with the credit it began with.
CreditAt(k) ==
    /\ stack[k].credit_before = Level(k - 1).credit
    /\ Level(k - 1).withdrawn <= Level(k).withdrawn
    /\ stack[k].pc # "post_dispatch" => Standing(Level(k - 1)) <= Standing(Level(k))

CreditKept == \A k \in 1..Len(stack) : CreditAt(k)

Books == OneDispatch /\ Transit /\ CreditKept

\* The frames and ledgers of a well-typed stack.
Framed(S) == stack \in Seq(FrameOver(S)) /\ ledger \in Ledger
             /\ \A s \in S : s.ledger \in Ledger

LEMMA Levels ==
    ASSUME NEW S, Framed(S)
    PROVE  /\ Len(stack) \in Nat
           /\ \A j \in 1..Len(stack) : stack[j] \in FrameOver(S) /\ stack[j].amount \in Nat
           /\ \A k \in 0..Len(stack) : Level(k) \in Ledger
           /\ \A k \in 1..Len(stack) : k - 1 \in 0..Len(stack)
           /\ Level(Len(stack)) = ledger
<1>1. Len(stack) \in Nat
    BY DEF Framed
<1>2. \A j \in 1..Len(stack) : stack[j] \in FrameOver(S)
    BY DEF Framed
<1>3. ASSUME NEW k \in 0..Len(stack) PROVE Level(k) \in Ledger
    <2>1. CASE k = Len(stack)
        BY <2>1 DEF Level, Framed
    <2>2. CASE k # Len(stack)
        <3>1. k + 1 \in 1..Len(stack)
            BY <1>1, <2>2
        <3>2. stack[k + 1].saved \in S
            BY <1>2, <3>1 DEF FrameOver
        <3> QED
            BY <2>2, <3>2 DEF Level, Framed
    <2> QED
        BY <2>1, <2>2
<1>4. \A j \in 1..Len(stack) : stack[j].amount \in Nat
    BY <1>2 DEF FrameOver
<1> QED
    BY <1>1, <1>2, <1>3, <1>4 DEF Level

\* What a transaction in progress falls back to does not lose standing credit.
Rises == Standing(Level(0)) <= Standing(Level(0)')

\* The figures the books are about.
SameFigures ==
    /\ ledger'.taken = ledger.taken /\ ledger'.sent = ledger.sent
    /\ ledger'.withdrawn = ledger.withdrawn /\ ledger'.credit = ledger.credit

\* What a ledger tells the books.
LEMMA LedgerNumbers ==
    ASSUME NEW l \in Ledger
    PROVE  /\ l.taken \in Nat /\ l.sent \in Nat /\ l.credit \in Nat /\ l.withdrawn \in Nat
           /\ Standing(l) = l.credit + l.withdrawn
    BY WarpRouteAssumption DEF Ledger, Standing

\* A step within the innermost call that dispatches nothing.
LEMMA StayKeepsBooks ==
    ASSUME NEW S, Framed(S), Books, stack' = stack, ledger' \in Ledger,
           ledger'.taken = ledger.taken, ledger'.sent = ledger.sent,
           ledger'.withdrawn >= ledger.withdrawn, Standing(ledger') >= Standing(ledger)
    PROVE  Books' /\ Rises
<1> DEFINE n == Len(stack)
<1>1. /\ n \in Nat /\ \A k \in 0..n : Level(k) \in Ledger
      /\ \A k \in 1..n : k - 1 \in 0..n
      /\ Level(n) = ledger
    BY Levels
<1>2. Len(stack') = n /\ \A k \in 0..n : Level(k)' = IF k = n THEN ledger' ELSE Level(k)
    BY DEF Level
<1> HIDE DEF n
<1>3. OneDispatch'
    BY <1>2 DEF Books, OneDispatch, n
<1>4. Transit'
    <2>1. ASSUME NEW k \in 0..n
          PROVE  Level(k)'.taken = Level(k).taken /\ Level(k)'.sent = Level(k).sent
        <3>1. CASE k = n
            BY <1>1, <1>2, <3>1
        <3>2. CASE k # n
            BY <1>2, <3>2
        <3> QED
            BY <3>1, <3>2
    <2> QED
        BY <2>1 DEF Books, Transit, TransitAt, n
<1>5. CreditKept'
    <2>1. ASSUME NEW k \in 1..n
          PROVE  /\ stack'[k].credit_before = Level(k - 1)'.credit
                 /\ Level(k - 1)'.withdrawn <= Level(k)'.withdrawn
                 /\ stack'[k].pc # "post_dispatch"
                       => Standing(Level(k - 1)') <= Standing(Level(k)')
        <3>1. k - 1 \in 0..n /\ k - 1 # n /\ k \in 0..n
            BY <1>1
        <3>2. Level(k - 1)' = Level(k - 1)
            BY <1>2, <3>1
        <3>3. /\ stack[k].credit_before = Level(k - 1).credit
              /\ Level(k - 1).withdrawn <= Level(k).withdrawn
              /\ stack[k].pc # "post_dispatch" => Standing(Level(k - 1)) <= Standing(Level(k))
            BY DEF Books, CreditKept, CreditAt, n
        <3>4. /\ Level(k).withdrawn <= Level(k)'.withdrawn
              /\ Standing(Level(k)) <= Standing(Level(k)')
              /\ Level(k)' \in Ledger
            <4>1. CASE k = n
                BY <1>1, <1>2, <4>1
            <4>2. CASE k # n
                <5>1. Level(k)' = Level(k) /\ Level(k) \in Ledger
                    BY <1>1, <1>2, <3>1, <4>2
                <5> QED
                    BY <5>1, LedgerNumbers
            <4> QED
                BY <4>1, <4>2
        <3>5. /\ Level(k - 1).withdrawn \in Nat /\ Standing(Level(k - 1)) \in Nat
              /\ Level(k).withdrawn \in Nat /\ Standing(Level(k)) \in Nat
              /\ Level(k)'.withdrawn \in Nat /\ Standing(Level(k)') \in Nat
            BY <1>1, <3>1, <3>4, LedgerNumbers
        <3> HIDE DEF Level
        <3> QED
            BY <3>2, <3>3, <3>4, <3>5
    <2> QED
        BY <1>2, <2>1 DEF CreditKept, CreditAt, n
<1>6. Rises
    <2>1. 0 \in 0..n /\ Standing(Level(0)) \in Nat
        BY <1>1, LedgerNumbers
    <2>2. CASE n = 0
        BY <1>1, <1>2, <2>1, <2>2 DEF Rises
    <2>3. CASE n # 0
        BY <1>2, <2>1, <2>3 DEF Rises
    <2> QED
        BY <2>2, <2>3
<1> QED
    BY <1>3, <1>4, <1>5, <1>6 DEF Books

\* Nor does one that leaves the ledger's figures alone.
LEMMA SameLedgerKeepsBooks ==
    ASSUME NEW S, Framed(S), Books, stack' = stack, ledger' \in Ledger,
           SameFigures
    PROVE  Books' /\ Rises
<1>1. ledger \in Ledger
    BY DEF Framed
<1>2. ledger'.withdrawn >= ledger.withdrawn /\ Standing(ledger') >= Standing(ledger)
    BY <1>1, LedgerNumbers DEF Standing, SameFigures
<1> QED
    BY <1>2, StayKeepsBooks DEF SameFigures

\* A call that moves on leaves the calls below it and their ledgers alone.
LEMMA GotoBelow ==
    ASSUME NEW S, Framed(S), stack # <<>>, NEW pc, Goto(pc), NEW n, n = Len(stack)
    PROVE  /\ n \in Nat /\ n > 0 /\ Len(stack') = n
           /\ \A j \in 1..n : j # n => stack'[j] = stack[j]
           /\ stack'[n].pc = pc /\ stack'[n].amount = stack[n].amount
           /\ stack'[n].credit_before = stack[n].credit_before
           /\ \A k \in 0..n : Level(k)' = IF k = n THEN ledger' ELSE Level(k)
           /\ \A k \in 0..(n - 1) : TransitAt(k) => TransitAt(k)'
           /\ \A k \in 1..(n - 1) : CreditAt(k) => CreditAt(k)'
<1>1. n \in Nat /\ n > 0 /\ n \in 1..n
    BY DEF Framed
<1>2. stack[n] \in FrameOver(S)
    BY <1>1 DEF Framed
<1>3. stack' = [stack EXCEPT ![n] = [stack[n] EXCEPT !.pc = pc]]
    BY DEF Goto
<1>4. /\ Len(stack') = n
      /\ \A j \in 1..n : j # n => stack'[j] = stack[j]
      /\ stack'[n] = [stack[n] EXCEPT !.pc = pc]
    BY <1>1, <1>3 DEF Framed
<1>5. /\ stack'[n].pc = pc /\ stack'[n].amount = stack[n].amount
      /\ stack'[n].credit_before = stack[n].credit_before
      /\ stack'[n].saved = stack[n].saved
    BY <1>2, <1>4 DEF FrameOver
<1>6. ASSUME NEW k \in 0..n
      PROVE  Level(k)' = IF k = n THEN ledger' ELSE Level(k)
    <2>1. CASE k = n
        BY <1>4, <2>1 DEF Level
    <2>2. CASE k # n
        <3>1. k + 1 \in 1..n
            BY <1>1, <2>2
        <3>2. stack'[k + 1].saved = stack[k + 1].saved
            BY <1>4, <1>5, <3>1
        <3> QED
            BY <1>4, <2>2, <3>2 DEF Level
    <2> QED
        BY <2>1, <2>2
<1>7. ASSUME NEW k \in 0..(n - 1), TransitAt(k)
      PROVE  TransitAt(k)'
    <2>1. k \in 0..n /\ k # n /\ \A j \in 1..k : j \in 1..n /\ j # n
        BY <1>1
    <2>2. Level(k)' = Level(k) /\ \A j \in 1..k : stack'[j] = stack[j]
        BY <1>4, <1>6, <2>1
    <2> QED
        BY <1>7, <2>2 DEF TransitAt
<1>8. ASSUME NEW k \in 1..(n - 1), CreditAt(k)
      PROVE  CreditAt(k)'
    <2>1. k \in 0..n /\ k \in 1..n /\ k # n /\ k - 1 \in 0..n /\ k - 1 # n
        BY <1>1
    <2>2. Level(k)' = Level(k) /\ Level(k - 1)' = Level(k - 1) /\ stack'[k] = stack[k]
        BY <1>4, <1>6, <2>1
    <2> QED
        BY <1>8, <2>2 DEF CreditAt, Standing
<1> QED
    BY <1>1, <1>4, <1>5, <1>6, <1>7, <1>8

\* So does a new call, which begins with the ledger as it is.
LEMMA PushBelow ==
    ASSUME NEW S, Framed(S), NEW f, f.saved = State, stack' = Append(stack, f),
           NEW n, n = Len(stack)
    PROVE  /\ n \in Nat /\ Len(stack') = n + 1
           /\ \A j \in 1..n : stack'[j] = stack[j]
           /\ stack'[n + 1] = f
           /\ \A k \in 0..n : Level(k)' = Level(k)
           /\ Level(n + 1)' = ledger'
           /\ \A k \in 0..n : TransitAt(k) => TransitAt(k)'
           /\ \A k \in 1..n : CreditAt(k) => CreditAt(k)'
<1>1. n \in Nat
    BY DEF Framed
<1>2. /\ Len(stack') = n + 1
      /\ \A j \in 1..n : stack'[j] = stack[j]
      /\ stack'[n + 1] = f
    BY <1>1 DEF Framed
<1>3. ASSUME NEW k \in 0..n
      PROVE  Level(k)' = Level(k)
    <2>1. k # Len(stack')
        BY <1>1, <1>2
    <2>2. CASE k = n
        BY <1>2, <2>1, <2>2 DEF Level, State
    <2>3. CASE k # n
        <3>1. k + 1 \in 1..n
            BY <1>1, <2>3
        <3> QED
            BY <1>2, <2>1, <2>3, <3>1 DEF Level
    <2> QED
        BY <2>2, <2>3
<1>4. Level(n + 1)' = ledger'
    BY <1>2 DEF Level
<1>5. ASSUME NEW k \in 0..n, TransitAt(k)
      PROVE  TransitAt(k)'
    <2>1. \A j \in 1..k : stack'[j] = stack[j]
        BY <1>1, <1>2
    <2> QED
        BY <1>3, <1>5, <2>1 DEF TransitAt
<1>6. ASSUME NEW k \in 1..n, CreditAt(k)
      PROVE  CreditAt(k)'
    <2>1. k \in 0..n /\ k - 1 \in 0..n
        BY <1>1
    <2>2. Level(k)' = Level(k) /\ Level(k - 1)' = Level(k - 1) /\ stack'[k] = stack[k]
        BY <1>2, <1>3, <2>1
    <2> QED
        BY <1>6, <2>2 DEF CreditAt, Standing
<1> QED
    BY <1>1, <1>2, <1>3, <1>4, <1>5, <1>6

\* And a call that ends.
LEMMA PopBelow ==
    ASSUME NEW S, Framed(S), stack # <<>>, stack' = Pop, NEW n, n = Len(stack)
    PROVE  /\ n \in Nat /\ n > 0 /\ Len(stack') = n - 1
           /\ \A j \in 1..(n - 1) : stack'[j] = stack[j]
           /\ \A k \in 0..(n - 1) : Level(k)' = IF k = n - 1 THEN ledger' ELSE Level(k)
           /\ \A k \in 0..(n - 1) : k # n - 1 /\ TransitAt(k) => TransitAt(k)'
           /\ \A k \in 1..(n - 1) : k # n - 1 /\ CreditAt(k) => CreditAt(k)'
<1>1. n \in Nat /\ n > 0 /\ n - 1 \in Nat
    BY DEF Framed
<1>2. /\ Len(stack') = n - 1
      /\ \A j \in 1..(n - 1) : stack'[j] = stack[j]
    BY <1>1 DEF Framed, Pop
<1>3. ASSUME NEW k \in 0..(n - 1)
      PROVE  Level(k)' = IF k = n - 1 THEN ledger' ELSE Level(k)
    <2>1. CASE k = n - 1
        BY <1>2, <2>1 DEF Level
    <2>2. CASE k # n - 1
        <3>1. k + 1 \in 1..(n - 1) /\ k # n
            BY <1>1, <2>2
        <3>2. stack'[k + 1] = stack[k + 1]
            BY <1>2, <3>1
        <3> QED
            BY <1>2, <2>2, <3>1, <3>2 DEF Level
    <2> QED
        BY <2>1, <2>2
<1>4. ASSUME NEW k \in 0..(n - 1), k # n - 1, TransitAt(k)
      PROVE  TransitAt(k)'
    <2>1. \A j \in 1..k : j \in 1..(n - 1)
        BY <1>1
    <2>2. \A j \in 1..k : stack'[j] = stack[j]
        BY <1>2, <2>1
    <2>3. Level(k)' = Level(k)
        BY <1>3, <1>4
    <2> QED
        BY <1>4, <2>2, <2>3 DEF TransitAt
<1>5. ASSUME NEW k \in 1..(n - 1), k # n - 1, CreditAt(k)
      PROVE  CreditAt(k)'
    <2>1. k \in 0..(n - 1) /\ k - 1 \in 0..(n - 1) /\ k - 1 # n - 1
        BY <1>1
    <2>2. Level(k)' = Level(k) /\ Level(k - 1)' = Level(k - 1) /\ stack'[k] = stack[k]
        BY <1>2, <1>3, <1>5, <2>1
    <2> QED
        BY <1>5, <2>2 DEF CreditAt, Standing
<1> QED
    BY <1>1, <1>2, <1>3, <1>4, <1>5

\* A call that begins has taken nothing and lowered no credit.
LEMMA EnterKeepsBooks ==
    ASSUME NEW S, Framed(S), Books, NEW pc, pc \notin {"dispatch", "post_dispatch"},
           NEW caller, NEW amount, Enter(pc, caller, amount), ledger' \in Ledger,
           SameFigures
    PROVE  Books' /\ Rises
<1> USE DEF SameFigures
<1> DEFINE f == [pc |-> pc, caller |-> caller, amount |-> amount,
                 credit_before |-> ledger.credit, saved |-> State]
           n == Len(stack)
<1>1. stack' = Append(stack, f) /\ f.saved = State /\ f.pc = pc /\ f.credit_before = ledger.credit
    BY DEF Enter, State
<1> HIDE DEF f
<1>2. PICK m : m = n
    OBVIOUS
<1> HIDE DEF n
<1>3. m = Len(stack)
    BY <1>2 DEF n
<1>4. /\ m \in Nat /\ Len(stack') = m + 1
      /\ \A j \in 1..m : stack'[j] = stack[j]
      /\ stack'[m + 1] = f
      /\ \A k \in 0..m : Level(k)' = Level(k)
      /\ Level(m + 1)' = ledger'
      /\ \A k \in 0..m : TransitAt(k) => TransitAt(k)'
      /\ \A k \in 1..m : CreditAt(k) => CreditAt(k)'
    BY <1>1, <1>3, PushBelow
<1>5. OneDispatch'
    <2>1. ASSUME NEW i \in 1..(m + 1), Dispatching(stack'[i])
          PROVE  i \in 1..m /\ stack'[i] = stack[i]
        BY <1>1, <1>4, <2>1 DEF Dispatching
    <2>2. \A i, j \in 1..m : Dispatching(stack[i]) /\ Dispatching(stack[j]) => i = j
        BY <1>3 DEF Books, OneDispatch
    <2>3. \A i, j \in 1..(m + 1) : Dispatching(stack'[i]) /\ Dispatching(stack'[j]) => i = j
        BY <2>1, <2>2
    <2> QED
        BY <1>4, <2>3 DEF OneDispatch, Dispatching
<1>6. Level(m) = ledger
    BY <1>3 DEF Level
<1>7. TransitAt(m + 1)'
    <2>1. TransitAt(m)
        BY <1>3, <1>4 DEF Books, Transit
    <2>2. \A j \in 1..(m + 1) : stack'[j].pc = "dispatch" => j \in 1..m /\ stack'[j] = stack[j]
        BY <1>1, <1>4
    <2>3. \A j \in 1..m : j \in 1..(m + 1) /\ stack'[j] = stack[j]
        BY <1>4
    <2>4. /\ \A j \in 1..m : stack[j].pc = "dispatch"
                => ledger.taken = ledger.sent + stack[j].amount
          /\ (\A j \in 1..m : stack[j].pc # "dispatch") => ledger.taken = ledger.sent
        BY <1>6, <2>1 DEF TransitAt
    <2>5. /\ \A j \in 1..(m + 1) : stack'[j].pc = "dispatch"
                => ledger'.taken = ledger'.sent + stack'[j].amount
          /\ (\A j \in 1..(m + 1) : stack'[j].pc # "dispatch") => ledger'.taken = ledger'.sent
        BY <2>2, <2>3, <2>4
    <2> QED
        BY <1>4, <2>5 DEF TransitAt
<1>8. CreditAt(m + 1)'
    <2>1. m + 1 - 1 = m /\ m \in 0..m
        BY <1>4
    <2>2. Level(m + 1 - 1)' = ledger
        BY <1>4, <1>6, <2>1
    <2>3. ledger.withdrawn \in Nat /\ Standing(ledger) \in Nat /\ Standing(ledger') = Standing(ledger)
        BY LedgerNumbers DEF Framed, Standing
    <2> QED
        BY <1>1, <1>4, <2>2, <2>3 DEF CreditAt, Standing
<1>9. Transit'
    <2>1. \A k \in 0..m : TransitAt(k)'
        BY <1>3, <1>4 DEF Books, Transit
    <2>2. \A k \in 0..(m + 1) : k \in 0..m \/ k = m + 1
        BY <1>4
    <2>3. \A k \in 0..(m + 1) : TransitAt(k)'
        BY <1>7, <2>1, <2>2
    <2> QED
        BY <1>4, <2>3 DEF Transit
<1>10. CreditKept'
    <2>1. \A k \in 1..m : CreditAt(k)'
        BY <1>3, <1>4 DEF Books, CreditKept
    <2>2. \A k \in 1..(m + 1) : k \in 1..m \/ k = m + 1
        BY <1>4
    <2>3. \A k \in 1..(m + 1) : CreditAt(k)'
        BY <1>8, <2>1, <2>2
    <2> QED
        BY <1>4, <2>3 DEF CreditKept
<1>11. Rises
    <2>1. 0 \in 0..m /\ Standing(Level(0)) \in Nat
        BY <1>3, <1>4, Levels, LedgerNumbers
    <2> QED
        BY <1>4, <2>1 DEF Rises
<1> QED
    BY <1>5, <1>9, <1>10, <1>11 DEF Books

\* A call that comes to dispatch is the only one, and has taken its amount.
LEMMA TakeKeepsBooks ==
    ASSUME NEW S, Framed(S), Books, Typed', NEW fee \in Fees, TakeAndForward(fee)
    PROVE  Books' /\ Rises
<1>1. PICK n : n = Len(stack)
    OBVIOUS
<1>2. stack # <<>> /\ Top.pc = "quote" /\ Goto("dispatch") /\ Top = stack[n]
    BY <1>1 DEF TakeAndForward, Returned, Top
<1>3. /\ n \in Nat /\ n > 0 /\ Len(stack') = n
      /\ \A j \in 1..n : j # n => stack'[j] = stack[j]
      /\ stack'[n].pc = "dispatch" /\ stack'[n].amount = stack[n].amount
      /\ stack'[n].credit_before = stack[n].credit_before
      /\ \A k \in 0..n : Level(k)' = IF k = n THEN ledger' ELSE Level(k)
      /\ \A k \in 0..(n - 1) : TransitAt(k) => TransitAt(k)'
      /\ \A k \in 1..(n - 1) : CreditAt(k) => CreditAt(k)'
    BY <1>1, <1>2, GotoBelow
<1>4. \A i \in 1..n : ~ Dispatching(stack[i])
    BY <1>1, <1>3 DEF TakeAndForward, MailboxIdle, Dispatching
<1>5. OneDispatch'
    <2>1. \A i \in 1..n : Dispatching(stack'[i]) => i = n
        BY <1>3, <1>4 DEF Dispatching
    <2> QED
        BY <1>3, <2>1 DEF OneDispatch, Dispatching
<1>6. stack[n].amount \in Nat
    BY <1>1, <1>3, Levels
<1>7. /\ ledger'.taken = ledger.taken + stack[n].amount /\ ledger'.sent = ledger.sent
      /\ ledger'.credit = ledger.credit + fee /\ ledger'.withdrawn = ledger.withdrawn
    BY <1>2 DEF TakeAndForward, Framed, Ledger
<1>8. ledger \in Ledger /\ ledger' \in Ledger /\ fee \in Nat
    BY WarpRouteAssumption DEF Framed, Typed
<1>9. Level(n) = ledger /\ n \in 0..n /\ n \in 1..n /\ n - 1 \in 0..n /\ n - 1 # n
    BY <1>1, <1>3 DEF Level
<1>10. TransitAt(n)'
    <2>1. TransitAt(n)
        BY <1>1, <1>9 DEF Books, Transit
    <2>2. ledger.taken = ledger.sent
        BY <1>4, <1>9, <2>1 DEF TransitAt, Dispatching
    <2>3. \A j \in 1..n : stack'[j].pc = "dispatch" => j = n
        BY <1>3, <1>4 DEF Dispatching
    <2>4. Level(n)' = ledger' /\ ledger'.taken = ledger'.sent + stack'[n].amount
        BY <1>3, <1>7, <1>9, <2>2
    <2> QED
        BY <1>3, <1>9, <2>3, <2>4 DEF TransitAt
<1>11. CreditAt(n)'
    <2>1. CreditAt(n)
        BY <1>1, <1>9 DEF Books, CreditKept
    <2>2. Level(n)' = ledger' /\ Level(n - 1)' = Level(n - 1) /\ Level(n - 1) \in Ledger
        BY <1>1, <1>3, <1>9, Levels
    <2>3. stack[n].pc # "post_dispatch"
        BY <1>2
    <2>4. Level(n - 1).withdrawn <= ledger.withdrawn /\ Standing(Level(n - 1)) <= Standing(ledger)
        BY <1>9, <2>1, <2>3 DEF CreditAt
    <2>5. Standing(ledger) <= Standing(ledger')
          /\ Standing(Level(n - 1)) \in Nat /\ Standing(ledger) \in Nat /\ Standing(ledger') \in Nat
        BY <1>7, <1>8, <2>2, LedgerNumbers
    <2>6. stack'[n].credit_before = Level(n - 1).credit
        BY <1>3, <2>1 DEF CreditAt
    <2>7. Level(n - 1).withdrawn <= ledger'.withdrawn /\ Standing(Level(n - 1)) <= Standing(ledger')
        BY <1>7, <2>4, <2>5
    <2> QED
        BY <2>2, <2>6, <2>7 DEF CreditAt, Standing
<1>12. Transit'
    <2>1. \A k \in 0..(n - 1) : TransitAt(k)'
        BY <1>1, <1>3 DEF Books, Transit
    <2>2. \A k \in 0..n : k \in 0..(n - 1) \/ k = n
        BY <1>3
    <2>3. \A k \in 0..n : TransitAt(k)'
        BY <1>10, <2>1, <2>2
    <2> QED
        BY <1>3, <2>3 DEF Transit
<1>13. CreditKept'
    <2>1. \A k \in 1..(n - 1) : CreditAt(k)'
        BY <1>1, <1>3 DEF Books, CreditKept
    <2>2. \A k \in 1..n : k \in 1..(n - 1) \/ k = n
        BY <1>3
    <2>3. \A k \in 1..n : CreditAt(k)'
        BY <1>11, <2>1, <2>2
    <2> QED
        BY <1>3, <2>3 DEF CreditKept
<1>14. Rises
    <2>1. 0 \in 0..n /\ 0 # n /\ Standing(Level(0)) \in Nat
        BY <1>1, <1>3, Levels, LedgerNumbers
    <2> QED
        BY <1>3, <2>1 DEF Rises
<1> QED
    BY <1>5, <1>12, <1>13, <1>14 DEF Books

\* What the Mailbox charges for is sent.
LEMMA ChargeKeepsBooks ==
    ASSUME NEW S, Framed(S), Books, Typed', NEW fee \in Fees, MailboxCharges(fee)
    PROVE  Books' /\ Rises
<1>1. PICK n : n = Len(stack)
    OBVIOUS
<1>2. stack # <<>> /\ Top.pc = "dispatch" /\ Goto("post_dispatch") /\ Top = stack[n]
    BY <1>1 DEF MailboxCharges, Returned, Top
<1>3. /\ n \in Nat /\ n > 0 /\ Len(stack') = n
      /\ \A j \in 1..n : j # n => stack'[j] = stack[j]
      /\ stack'[n].pc = "post_dispatch" /\ stack'[n].amount = stack[n].amount
      /\ stack'[n].credit_before = stack[n].credit_before
      /\ \A k \in 0..n : Level(k)' = IF k = n THEN ledger' ELSE Level(k)
      /\ \A k \in 0..(n - 1) : TransitAt(k) => TransitAt(k)'
      /\ \A k \in 1..(n - 1) : CreditAt(k) => CreditAt(k)'
    BY <1>1, <1>2, GotoBelow
<1>4. Level(n) = ledger /\ n \in 0..n /\ n \in 1..n /\ n - 1 \in 0..n /\ n - 1 # n
    BY <1>1, <1>3 DEF Level
<1>5. \A i \in 1..n : Dispatching(stack[i]) => i = n
    BY <1>1, <1>2, <1>4 DEF Books, OneDispatch, Dispatching
<1>6. OneDispatch'
    <2>1. \A i \in 1..n : Dispatching(stack'[i]) => i = n
        BY <1>3, <1>5 DEF Dispatching
    <2> QED
        BY <1>3, <2>1 DEF OneDispatch, Dispatching
<1>7. /\ ledger'.taken = ledger.taken /\ ledger'.sent = ledger.sent + stack[n].amount
      /\ ledger'.withdrawn = ledger.withdrawn
    BY <1>2 DEF MailboxCharges, Framed, Ledger
<1>8. TransitAt(n)'
    <2>1. TransitAt(n)
        BY <1>1, <1>4 DEF Books, Transit
    <2>2. ledger.taken = ledger.sent + stack[n].amount
        BY <1>2, <1>4, <2>1 DEF TransitAt
    <2>3. \A j \in 1..n : stack'[j].pc # "dispatch"
        BY <1>3, <1>5 DEF Dispatching
    <2>4. Level(n)' = ledger' /\ ledger'.taken = ledger'.sent
        BY <1>3, <1>4, <1>7, <2>2
    <2> QED
        BY <2>3, <2>4 DEF TransitAt
<1>9. CreditAt(n)'
    <2>1. CreditAt(n)
        BY <1>1, <1>4 DEF Books, CreditKept
    <2>2. Level(n)' = ledger' /\ Level(n - 1)' = Level(n - 1)
        BY <1>3, <1>4
    <2>3. stack'[n].credit_before = Level(n - 1).credit /\ Level(n - 1).withdrawn <= ledger'.withdrawn
        BY <1>3, <1>4, <1>7, <2>1 DEF CreditAt
    <2> QED
        BY <1>3, <2>2, <2>3 DEF CreditAt
<1>10. Transit'
    <2>1. \A k \in 0..(n - 1) : TransitAt(k)'
        BY <1>1, <1>3 DEF Books, Transit
    <2>2. \A k \in 0..n : k \in 0..(n - 1) \/ k = n
        BY <1>3
    <2>3. \A k \in 0..n : TransitAt(k)'
        BY <1>8, <2>1, <2>2
    <2> QED
        BY <1>3, <2>3 DEF Transit
<1>11. CreditKept'
    <2>1. \A k \in 1..(n - 1) : CreditAt(k)'
        BY <1>1, <1>3 DEF Books, CreditKept
    <2>2. \A k \in 1..n : k \in 1..(n - 1) \/ k = n
        BY <1>3
    <2>3. \A k \in 1..n : CreditAt(k)'
        BY <1>9, <2>1, <2>2
    <2> QED
        BY <1>3, <2>3 DEF CreditKept
<1>12. Rises
    <2>1. 0 \in 0..n /\ 0 # n /\ Standing(Level(0)) \in Nat
        BY <1>1, <1>3, Levels, LedgerNumbers
    <2> QED
        BY <1>3, <2>1 DEF Rises
<1> QED
    BY <1>6, <1>10, <1>11, <1>12 DEF Books

\* A call that ends leaves the call below it books that balance, provided the
\* ledger it leaves does and stands no lower than the one it began with.
LEMMA PopKeepsBooks ==
    ASSUME NEW S, Framed(S), Books, stack # <<>>, stack' = Pop, ledger' \in Ledger,
           NEW n, n = Len(stack), TransitAt(n - 1)',
           Level(n - 1).withdrawn <= ledger'.withdrawn,
           Level(n - 1).credit + Level(n - 1).withdrawn <= ledger'.credit + ledger'.withdrawn
    PROVE  Books' /\ Rises
<1>1. /\ n \in Nat /\ n > 0 /\ Len(stack') = n - 1
      /\ \A j \in 1..(n - 1) : stack'[j] = stack[j]
      /\ \A k \in 0..(n - 1) : Level(k)' = IF k = n - 1 THEN ledger' ELSE Level(k)
      /\ \A k \in 0..(n - 1) : k # n - 1 /\ TransitAt(k) => TransitAt(k)'
      /\ \A k \in 1..(n - 1) : k # n - 1 /\ CreditAt(k) => CreditAt(k)'
    BY PopBelow
<1>2. OneDispatch'
    <2>1. \A j \in 1..(n - 1) : j \in 1..n /\ stack'[j] = stack[j]
        BY <1>1
    <2>2. \A i, j \in 1..n : Dispatching(stack[i]) /\ Dispatching(stack[j]) => i = j
        BY DEF Books, OneDispatch
    <2>3. \A i, j \in 1..(n - 1) : Dispatching(stack'[i]) /\ Dispatching(stack'[j]) => i = j
        BY <2>1, <2>2
    <2> QED
        BY <1>1, <2>3 DEF OneDispatch, Dispatching
<1>3. Transit'
    <2>1. ASSUME NEW k \in 0..(n - 1) PROVE TransitAt(k)'
        <3>1. k \in 0..n
            BY <1>1
        <3>2. TransitAt(k)
            BY <3>1 DEF Books, Transit
        <3> QED
            BY <1>1, <3>2
    <2> QED
        BY <1>1, <2>1 DEF Transit
<1>4. CreditKept'
    <2>1. ASSUME NEW k \in 1..(n - 1) PROVE CreditAt(k)'
        <3>1. k \in 1..n
            BY <1>1
        <3>2. CreditAt(k)
            BY <3>1 DEF Books, CreditKept
        <3>3. CASE k # n - 1
            BY <1>1, <3>2, <3>3
        <3>4. CASE k = n - 1
            <4>1. /\ k \in 0..(n - 1) /\ k - 1 \in 0..(n - 1) /\ k - 1 # n - 1
                  /\ k \in 0..n /\ k - 1 \in 0..n
                BY <1>1, <3>4
            <4>2. Level(k)' = ledger' /\ Level(k - 1)' = Level(k - 1) /\ stack'[k] = stack[k]
                BY <1>1, <3>4, <4>1
            <4>3. Level(k) \in Ledger /\ Level(k - 1) \in Ledger
                BY <4>1, Levels
            <4>4. Level(k).withdrawn <= ledger'.withdrawn /\ Standing(Level(k)) <= Standing(ledger')
                BY <3>4 DEF Standing
            <4>5. /\ Level(k - 1).withdrawn <= ledger'.withdrawn
                  /\ stack[k].pc # "post_dispatch" => Standing(Level(k - 1)) <= Standing(ledger')
                <5>1. /\ Level(k - 1).withdrawn \in Nat /\ Standing(Level(k - 1)) \in Nat
                      /\ Level(k).withdrawn \in Nat /\ Standing(Level(k)) \in Nat
                      /\ ledger'.withdrawn \in Nat /\ Standing(ledger') \in Nat
                    <6>1. \A l \in Ledger : l.withdrawn \in Nat /\ Standing(l) \in Nat
                        BY LedgerNumbers
                    <6> QED
                        BY <4>3, <6>1
                <5>2. /\ Level(k - 1).withdrawn <= Level(k).withdrawn
                      /\ stack[k].pc # "post_dispatch" => Standing(Level(k - 1)) <= Standing(Level(k))
                    BY <3>2 DEF CreditAt
                <5> QED
                    BY <4>4, <5>1, <5>2
            <4>6. stack[k].credit_before = Level(k - 1).credit
                BY <3>2 DEF CreditAt
            <4> QED
                BY <4>2, <4>5, <4>6 DEF CreditAt, Standing
        <3> QED
            BY <3>3, <3>4
    <2> QED
        BY <1>1, <2>1 DEF CreditKept
<1>5. Rises
    <2>1. 0 \in 0..n /\ 0 \in 0..(n - 1) /\ Standing(Level(0)) \in Nat
        BY <1>1, Levels, LedgerNumbers
    <2>2. CASE n - 1 = 0
        BY <1>1, <2>1, <2>2 DEF Rises, Standing
    <2>3. CASE n - 1 # 0
        BY <1>1, <2>1, <2>3 DEF Rises
    <2> QED
        BY <2>2, <2>3
<1> QED
    BY <1>2, <1>3, <1>4, <1>5 DEF Books

\* A call that fails leaves the ledger it began with.
LEMMA AbortKeepsBooks ==
    ASSUME NEW S, Framed(S), Books, Abort, ledger' \in Ledger
    PROVE  Books' /\ Rises
<1>1. PICK n : n = Len(stack)
    OBVIOUS
<1>2. stack # <<>> /\ stack' = Pop /\ ledger' = stack[n].saved.ledger
    BY <1>1 DEF Abort, Top
<1>3. /\ n \in Nat /\ n > 0 /\ Len(stack') = n - 1
      /\ \A j \in 1..(n - 1) : stack'[j] = stack[j]
      /\ \A k \in 0..(n - 1) : Level(k)' = IF k = n - 1 THEN ledger' ELSE Level(k)
    BY <1>1, <1>2, PopBelow
<1>4. n - 1 \in 0..(n - 1) /\ n - 1 \in 0..n /\ n - 1 # n /\ n - 1 + 1 = n
    BY <1>3
<1>5. Level(n - 1) = ledger' /\ Level(n - 1)' = ledger'
    BY <1>1, <1>2, <1>3, <1>4 DEF Level
<1>6. TransitAt(n - 1)'
    <2>1. TransitAt(n - 1)
        BY <1>1, <1>4 DEF Books, Transit
    <2> QED
        BY <1>3, <1>5, <2>1 DEF TransitAt
<1>7. ledger'.withdrawn \in Nat /\ ledger'.credit \in Nat
    BY LedgerNumbers
<1> QED
    BY <1>1, <1>2, <1>5, <1>6, <1>7, PopKeepsBooks

\* A call that ends without having dispatched, or with the credit it began with.
LEMMA ReturnKeepsBooks ==
    ASSUME NEW S, Framed(S), Books, stack # <<>>, stack' = Pop, ledger' = ledger,
           Top.pc # "dispatch",
           Top.pc = "post_dispatch" => ledger.credit = Top.credit_before
    PROVE  Books' /\ Rises
<1>1. PICK n : n = Len(stack)
    OBVIOUS
<1>2. Top = stack[n]
    BY <1>1 DEF Top
<1>3. /\ n \in Nat /\ n > 0 /\ Len(stack') = n - 1
      /\ \A j \in 1..(n - 1) : stack'[j] = stack[j]
      /\ \A k \in 0..(n - 1) : Level(k)' = IF k = n - 1 THEN ledger' ELSE Level(k)
    BY <1>1, PopBelow
<1>4. n - 1 \in 0..(n - 1) /\ n - 1 \in 0..n /\ n \in 0..n /\ n \in 1..n
    BY <1>3
<1>5. Level(n) = ledger /\ Level(n - 1)' = ledger
    BY <1>1, <1>3, <1>4 DEF Level
<1>6. TransitAt(n - 1)'
    <2>1. TransitAt(n)
        BY <1>1, <1>4 DEF Books, Transit
    <2>2. \A j \in 1..n : (j \in 1..(n - 1) \/ j = n)
        BY <1>3
    <2>3. \A j \in 1..(n - 1) : j \in 1..n
        BY <1>3
    <2>4. /\ \A j \in 1..(n - 1) : stack[j].pc = "dispatch"
                => ledger.taken = ledger.sent + stack[j].amount
          /\ (\A j \in 1..(n - 1) : stack[j].pc # "dispatch") => ledger.taken = ledger.sent
        BY <1>2, <1>5, <2>1, <2>2, <2>3 DEF TransitAt
    <2> QED
        BY <1>3, <1>5, <2>4 DEF TransitAt
<1>7. /\ Level(n - 1).withdrawn <= ledger.withdrawn
      /\ Level(n - 1).credit + Level(n - 1).withdrawn <= ledger.credit + ledger.withdrawn
    <2>1. CreditAt(n)
        BY <1>1, <1>4 DEF Books, CreditKept
    <2>2. /\ stack[n].credit_before = Level(n - 1).credit
          /\ Level(n - 1).withdrawn <= ledger.withdrawn
          /\ stack[n].pc # "post_dispatch" => Standing(Level(n - 1)) <= Standing(ledger)
        BY <1>5, <2>1 DEF CreditAt
    <2>3. Level(n - 1) \in Ledger /\ ledger \in Ledger
        BY <1>1, <1>4, Levels DEF Framed
    <2>4. /\ Level(n - 1).withdrawn \in Nat /\ Level(n - 1).credit \in Nat
          /\ ledger.withdrawn \in Nat /\ ledger.credit \in Nat
        BY <2>3, LedgerNumbers
    <2>5. CASE stack[n].pc = "post_dispatch"
        <3>1. Level(n - 1).credit = ledger.credit
            BY <1>2, <2>2, <2>5
        <3> QED
            BY <2>2, <2>4, <3>1
    <2>6. CASE stack[n].pc # "post_dispatch"
        BY <2>2, <2>6 DEF Standing
    <2> QED
        BY <2>5, <2>6
<1> QED
    BY <1>1, <1>6, <1>7, PopKeepsBooks DEF Framed

\* The common steps keep the books, and so do the steps before them that take
\* nothing: see CommonKeeps for the types.
LEMMA CommonKeepsBooks ==
    ASSUME NEW S, State \in S, Framed(S), Typed, Typed', Books, CommonNext
    PROVE  Books' /\ Rises
<1>0. ledger' \in Ledger
    BY DEF Typed
<1>1. CASE \E a \in Accounts : RegisterAccount(a)
    BY <1>0, <1>1, SameLedgerKeepsBooks DEF RegisterAccount, SameFigures
<1>2. CASE \E caller \in Callers, d \in Domains, amount \in Amounts :
              TransferRemote(caller, d, amount)
    BY <1>0, <1>2, EnterKeepsBooks DEF TransferRemote, SameFigures
<1>3. CASE \E fee \in Fees : MailboxCharges(fee)
    BY <1>3, ChargeKeepsBooks
<1>4. CASE FinishTransfer
    BY <1>0, <1>4, ReturnKeepsBooks DEF FinishTransfer, Returned
<1>5. CASE \E amount \in Amounts : FundCredit(amount)
    <2>1. PICK amount \in Amounts : FundCredit(amount)
        BY <1>5
    <2>2. /\ ledger'.taken = ledger.taken /\ ledger'.sent = ledger.sent
          /\ ledger'.withdrawn = ledger.withdrawn /\ ledger'.credit = ledger.credit + amount
          /\ stack' = stack
        BY <2>1 DEF FundCredit, Typed, Ledger
    <2>3. /\ amount \in Nat /\ ledger.credit \in Nat /\ ledger.withdrawn \in Nat
        BY LedgerNumbers, WarpRouteAssumption DEF Typed
    <2> QED
        BY <1>0, <2>2, <2>3, StayKeepsBooks DEF Standing
<1>6. CASE Admin
    <2>1. PICK caller \in Callers :
              \/ \E d \in Domains, r \in Routers : EnrollRemoteRouter(caller, d, r)
              \/ \E h \in HookIds : SetHook(caller, h)
              \/ \E i \in IsmIds : SetIsm(caller, i)
              \/ \E amount \in Amounts : WithdrawDispatchCredit(caller, amount)
              \/ \E o \in Owners : TransferOwnership(caller, o)
        BY <1>6 DEF Admin
    <2>2. CASE \E amount \in Amounts : WithdrawDispatchCredit(caller, amount)
        <3>1. PICK amount \in Amounts : WithdrawDispatchCredit(caller, amount)
            BY <2>2
        <3>2. /\ ledger'.taken = ledger.taken /\ ledger'.sent = ledger.sent
              /\ ledger'.withdrawn = ledger.withdrawn + amount
              /\ ledger'.credit = ledger.credit - amount
              /\ stack' = stack
            BY <3>1 DEF WithdrawDispatchCredit, Typed, Ledger
        <3>3. /\ amount \in Nat /\ ledger.credit \in Nat /\ ledger.withdrawn \in Nat
            BY LedgerNumbers, WarpRouteAssumption DEF Typed
        <3> QED
            BY <1>0, <3>2, <3>3, StayKeepsBooks DEF Standing
    <2> QED
        BY <1>0, <2>1, <2>2, SameLedgerKeepsBooks
           DEF EnrollRemoteRouter, SetHook, SetIsm, TransferOwnership, SameFigures
<1>7. CASE Abort
    BY <1>0, <1>7, AbortKeepsBooks
<1> QED
    BY <1>1, <1>2, <1>3, <1>4, <1>5, <1>6, <1>7 DEF CommonNext

\* Before the first call the books are empty.
LEMMA InitBooks == InitRoute => Books
<1> SUFFICES ASSUME InitRoute PROVE Books
    OBVIOUS
<1>1. Len(stack) = 0 /\ ledger.taken = 0 /\ ledger.sent = 0 /\ Level(0) = ledger
    BY DEF InitRoute, Level
<1> QED
    BY <1>1 DEF Books, OneDispatch, Transit, TransitAt, CreditKept

\* Books that balance: what was taken has been sent once no call is in progress.
LEMMA BooksTakenIsSent == Books => TakenIsSent
<1> SUFFICES ASSUME Books, stack = <<>> PROVE ledger.taken = ledger.sent
    BY DEF TakenIsSent
<1>1. Len(stack) = 0 /\ Level(0) = ledger
    BY DEF Level
<1> QED
    BY <1>1 DEF Books, Transit, TransitAt

\* The committed ledger is the lowest level.
LEMMA CommittedIsLevel ==
    ASSUME NEW S, Framed(S)
    PROVE  CommittedLedger = Level(0)
<1>1. Len(stack) \in Nat /\ (stack = <<>> <=> Len(stack) = 0)
    BY DEF Framed
<1> QED
    BY <1>1 DEF CommittedLedger, Level

\* A step that keeps Level(0)'s standing credit keeps the committed one's.
LEMMA CommittedRises ==
    ASSUME NEW S, Framed(S), Framed(S)', Rises
    PROVE  CommittedLedger.credit + CommittedLedger.withdrawn
             <= CommittedLedger'.credit + CommittedLedger'.withdrawn
<1>1. CommittedLedger = Level(0)
    BY CommittedIsLevel
<1>2. CommittedLedger' = Level(0)'
    <2>1. Len(stack') \in Nat /\ (stack' = <<>> <=> Len(stack') = 0)
        BY DEF Framed
    <2> QED
        BY <2>1 DEF CommittedLedger, Level
<1> QED
    BY <1>1, <1>2 DEF Rises, Standing

\* A delivery or a payment in the history leaves the figures alone.
LEMMA HistoryKeepsFigures ==
    ASSUME ledger \in Ledger, NEW p, NEW amount,
           \/ ledger' = Paid(Receive(ledger, p, amount), p, amount)
           \/ ledger' = Receive(ledger, p, amount)
           \/ ledger' = Paid(ledger, p, amount)
    PROVE  SameFigures
    BY DEF Ledger, Paid, Receive, SameFigures
=============================================================================
