------------------------------ MODULE BridgeProofs ------------------------------
(***************************************************************************)
(* That the bridge neither makes nor loses value, refuses nothing, and     *)
(* implements Remittance, for any number of chains, people and messages.   *)
(* Everything is a statement about sums over finite sets; the first part   *)
(* says how a sum changes with its summands.                               *)
(***************************************************************************)
EXTENDS Bridge, FiniteSetTheorems, WellFoundedInduction, TLAPS

-----------------------------------------------------------------------------
(* Sums.  The number of units the summands consist of satisfies the         *)
(* recursion that SumFunctionOnSet is defined by, so it is the sum.         *)

\* The units of the summands at the indices s, for summands up to max.
Units(f, s, max) == {u \in s \X (1..max) : u[2] <= f[u[1]]}

\* There are finitely many units.
LEMMA UnitsFinite ==
    ASSUME NEW s, IsFiniteSet(s), NEW max \in Nat, NEW f
    PROVE  IsFiniteSet(Units(f, s, max)) /\ Cardinality(Units(f, s, max)) \in Nat
<1>1. IsFiniteSet(1..max)
    BY FS_Interval
<1>2. IsFiniteSet(s \X (1..max))
    BY <1>1, FS_Product
<1>3. Units(f, s, max) \in SUBSET (s \X (1..max))
    BY DEF Units
<1> QED
    BY <1>2, <1>3, FS_Subset, FS_CardinalityType

\* Without one index, its summand's units are missing.
LEMMA UnitsWithout ==
    ASSUME NEW s, IsFiniteSet(s), NEW max \in Nat, NEW f, NEW x \in s, f[x] \in 0..max
    PROVE  Cardinality(Units(f, s, max)) = f[x] + Cardinality(Units(f, s \ {x}, max))
<1> DEFINE rest == Units(f, s \ {x}, max)
           n == f[x]
           range == 1..n
           one == {x}
           mine == one \X range
<1>0. n \in Nat /\ n <= max
    OBVIOUS
<1>1. Units(f, s, max) = rest \cup mine
    <2>1. ASSUME NEW u \in Units(f, s, max) PROVE u \in rest \cup mine
        <3>1. u \in s \X (1..max) /\ u[2] <= f[u[1]]
            BY <2>1 DEF Units
        <3>2. u = <<u[1], u[2]>> /\ u[1] \in s /\ u[2] \in 1..max
            BY <3>1
        <3>3. CASE u[1] = x
            <4>1. u[2] \in range
                BY <1>0, <3>1, <3>2, <3>3
            <4> QED
                BY <3>2, <3>3, <4>1
        <3>4. CASE u[1] # x
            BY <3>1, <3>2, <3>4 DEF Units
        <3> QED
            BY <3>3, <3>4
    <2>2. ASSUME NEW u \in rest PROVE u \in Units(f, s, max)
        BY <2>2 DEF Units
    <2>3. ASSUME NEW u \in mine PROVE u \in Units(f, s, max)
        <3>1. u = <<u[1], u[2]>> /\ u[1] = x /\ u[2] \in 1..n
            BY <2>3
        <3>2. u[2] \in 1..max /\ u[2] <= n
            BY <1>0, <3>1
        <3>3. u \in s \X (1..max)
            BY <3>1, <3>2
        <3> QED
            BY <3>1, <3>2, <3>3 DEF Units
    <2> QED
        BY <2>1, <2>2, <2>3
<1>2. rest \cap mine = {}
    BY DEF Units
<1>3. IsFiniteSet(s \ {x})
    BY FS_RemoveElement
<1>4. IsFiniteSet(rest) /\ Cardinality(rest) \in Nat
    BY <1>3, UnitsFinite
<1>5. IsFiniteSet(mine) /\ Cardinality(mine) = n
    <2>1. IsFiniteSet(one) /\ Cardinality(one) = 1
        BY FS_Singleton
    <2> HIDE DEF one, n
    <2>2. 1 \in Int /\ n \in Int /\ (1 > n => n = 0) /\ n - 1 + 1 = n
        BY <1>0
    <2>3. IsFiniteSet(1..n) /\ Cardinality(1..n) = IF 1 > n THEN 0 ELSE n - 1 + 1
        BY <2>2, FS_Interval
    <2>4. IsFiniteSet(range) /\ Cardinality(range) = n
        BY <2>2, <2>3
    <2> HIDE DEF range
    <2>5. IsFiniteSet(one \X range) /\ Cardinality(one \X range) = Cardinality(one) * Cardinality(range)
        BY <2>1, <2>4, FS_Product
    <2> QED
        BY <1>0, <2>1, <2>4, <2>5
<1> HIDE DEF rest, mine, n
<1>6. Cardinality(rest \cup mine) = Cardinality(rest) + Cardinality(mine) - Cardinality({})
    BY <1>2, <1>4, <1>5, FS_Union
<1>7. Cardinality(rest \cup mine) = n + Cardinality(rest)
    BY <1>0, <1>4, <1>5, <1>6, FS_EmptySet
<1> QED
    BY <1>1, <1>7 DEF rest, n

\* The sum is the number of units.
LEMMA SumIsCount ==
    ASSUME NEW D, IsFiniteSet(D), NEW max \in Nat, NEW f, \A x \in D : f[x] \in 0..max
    PROVE  SumFunctionOnSet(f, D) = Cardinality(Units(f, D, max))
<1> DEFINE Pick(s) == CHOOSE x \in s : TRUE
           count == [s \in SUBSET D |-> Cardinality(Units(f, s, max))]
           Sums(g) == g = [s \in SUBSET D |->
                             IF s = {} THEN 0 ELSE f[Pick(s)] + g[s \ {Pick(s)}]]
           sum == CHOOSE g : Sums(g)
<1>1. SumFunctionOnSet(f, D) = sum[D]
    BY DEF SumFunctionOnSet, FoldFunctionOnSet, MapThenFoldSet
<1>2. \A s \in SUBSET D : s # {} => Pick(s) \in s /\ s \ {Pick(s)} \in SUBSET D
    OBVIOUS
<1>3. \A s \in SUBSET D : IsFiniteSet(s)
    BY FS_Subset
<1> HIDE DEF Pick
<1>4. Sums(count)
    <2>1. count[{}] = 0
        <3>1. Units(f, {}, max) = {}
            BY DEF Units
        <3> QED
            BY <3>1, FS_EmptySet
    <2>2. ASSUME NEW s \in SUBSET D, s # {}
          PROVE  count[s] = f[Pick(s)] + count[s \ {Pick(s)}]
        <3>1. Pick(s) \in s /\ s \ {Pick(s)} \in SUBSET D /\ IsFiniteSet(s) /\ f[Pick(s)] \in 0..max
            BY <1>2, <1>3, <2>2
        <3>2. Cardinality(Units(f, s, max))
                = f[Pick(s)] + Cardinality(Units(f, s \ {Pick(s)}, max))
            BY <3>1, UnitsWithout
        <3> QED
            BY <3>1, <3>2
    <2>3. \A s \in SUBSET D : count[s] = IF s = {} THEN 0 ELSE f[Pick(s)] + count[s \ {Pick(s)}]
        BY <2>1, <2>2
    <2>4. count = [s \in SUBSET D |-> count[s]]
        OBVIOUS
    <2> HIDE DEF count
    <2> QED
        BY <2>3, <2>4
<1>5. Sums(sum)
    BY <1>4
<1> HIDE DEF sum
<1>6. \A s \in SUBSET D : sum[s] = IF s = {} THEN 0 ELSE f[Pick(s)] + sum[s \ {Pick(s)}]
    BY <1>5
<1>7. \A s \in SUBSET D : count[s] = IF s = {} THEN 0 ELSE f[Pick(s)] + count[s \ {Pick(s)}]
    BY <1>4
<1>8. ASSUME NEW s \in SUBSET D, sum[s] # count[s] PROVE FALSE
    <2> DEFINE T == {t \in SUBSET D : sum[t] # count[t]}
    <2>1. IsWellFoundedOn(StrictSubsetOrdering(D), SUBSET D)
        BY FS_StrictSubsetOrderingWellFounded, FS_FiniteSubsetsOfFinite
    <2>2. T \subseteq SUBSET D /\ T # {}
        BY <1>8
    <2>3. PICK t \in T : \A u \in T : ~(<<u, t>> \in StrictSubsetOrdering(D))
        BY <2>1, <2>2, WFMin
    <2>4. t # {}
        BY <1>6, <1>7, <2>3
    <2>5. Pick(t) \in t /\ t \ {Pick(t)} \in SUBSET D
        BY <1>2, <2>3, <2>4
    <2>6. <<t \ {Pick(t)}, t>> \in StrictSubsetOrdering(D)
        BY <2>3, <2>5 DEF StrictSubsetOrdering
    <2>7. sum[t \ {Pick(t)}] = count[t \ {Pick(t)}]
        BY <2>3, <2>5, <2>6
    <2> HIDE DEF count, Sums
    <2> QED
        BY <1>6, <1>7, <2>3, <2>4, <2>5, <2>7
<1> QED
    BY <1>1, <1>8

\* Functions that can be summed.
Summands(f, D) == IsFiniteSet(D) /\ f \in [D -> Nat]

\* Natural numbers on a finite set have a bound.
LEMMA SummandsBounded ==
    ASSUME NEW D, NEW f, Summands(f, D)
    PROVE  \E max \in Nat : \A x \in D : f[x] \in 0..max
<1> DEFINE Bounded(s) == \E max \in Nat : \A x \in s : f[x] \in 0..max
           T == {t \in SUBSET D : ~Bounded(t)}
<1>1. \A x \in D : f[x] \in Nat
    BY DEF Summands
<1>2. IsWellFoundedOn(StrictSubsetOrdering(D), SUBSET D)
    BY FS_StrictSubsetOrderingWellFounded, FS_FiniteSubsetsOfFinite DEF Summands
<1>3. CASE T = {}
    <2>1. Bounded(D)
        BY <1>3
    <2> QED
        BY <2>1
<1>4. CASE T # {}
    <2>1. T \subseteq SUBSET D
        OBVIOUS
    <2>2. PICK t \in T : \A u \in T : ~(<<u, t>> \in StrictSubsetOrdering(D))
        BY <1>2, <1>4, <2>1, WFMin
    <2>3. t # {}
        <3>1. Bounded({})
            <4>1. 0 \in Nat /\ \A x \in {} : f[x] \in 0..0
                OBVIOUS
            <4> QED
                BY <4>1
        <3> QED
            BY <3>1
    <2>4. PICK x \in t : x \in D
        BY <2>3
    <2>5. <<t \ {x}, t>> \in StrictSubsetOrdering(D)
        BY <2>2, <2>4 DEF StrictSubsetOrdering
    <2>6. Bounded(t \ {x})
        BY <2>2, <2>5
    <2>7. PICK max \in Nat : \A y \in t \ {x} : f[y] \in 0..max
        BY <2>6
    <2>8. f[x] \in Nat /\ max + f[x] \in Nat
        BY <1>1, <2>4
    <2>9. \A y \in t : f[y] \in 0..(max + f[x])
        <3>1. ASSUME NEW y \in t PROVE f[y] \in 0..(max + f[x])
            <4>1. CASE y = x
                BY <2>8, <4>1
            <4>2. CASE y # x
                <5>1. f[y] \in 0..max
                    BY <2>7, <4>2
                <5> QED
                    BY <2>8, <5>1
            <4> QED
                BY <4>1, <4>2
        <3> QED
            BY <3>1
    <2>10. Bounded(t)
        BY <2>8, <2>9
    <2> QED
        BY <2>2, <2>10
<1> QED
    BY <1>3, <1>4

\* A sum of natural numbers is one, no smaller than any of them.
LEMMA SumAtLeast ==
    ASSUME NEW D, NEW f, Summands(f, D)
    PROVE  /\ SumFunction(f) \in Nat
           /\ \A x \in D : f[x] <= SumFunction(f)
<1>1. PICK max \in Nat : \A x \in D : f[x] \in 0..max
    BY SummandsBounded
<1>2. IsFiniteSet(D) /\ DOMAIN f = D
    BY DEF Summands
<1>3. SumFunction(f) = Cardinality(Units(f, D, max))
    BY <1>1, <1>2, SumIsCount DEF SumFunction
<1>4. ASSUME NEW x \in D PROVE f[x] <= SumFunction(f)
    <2>1. IsFiniteSet(D \ {x})
        BY <1>2, FS_RemoveElement
    <2>2. Cardinality(Units(f, D \ {x}, max)) \in Nat
        BY <2>1, UnitsFinite
    <2>3. f[x] \in 0..max
        BY <1>1
    <2> QED
        BY <1>2, <1>3, <2>2, <2>3, UnitsWithout
<1> QED
    BY <1>2, <1>3, <1>4, UnitsFinite

\* The sum of zeros.
LEMMA SumNone ==
    ASSUME NEW D, IsFiniteSet(D), NEW f, DOMAIN f = D, \A x \in D : f[x] = 0
    PROVE  SumFunction(f) = 0
<1>1. SumFunction(f) = Cardinality(Units(f, D, 0))
    BY SumIsCount DEF SumFunction
<1>2. Units(f, D, 0) = {}
    BY DEF Units
<1> QED
    BY <1>1, <1>2, FS_EmptySet

\* g differs from f at p alone.
ChangedAt(f, g, D, p) == \A x \in D \ {p} : f[x] = g[x]

\* The sum changes by as much as the one summand.
LEMMA SumChange ==
    ASSUME NEW D, NEW p \in D, NEW f, NEW g, Summands(f, D), Summands(g, D),
           ChangedAt(f, g, D, p)
    PROVE  SumFunction(g) + f[p] = SumFunction(f) + g[p]
<1>1. PICK fmax \in Nat : \A x \in D : f[x] \in 0..fmax
    BY SummandsBounded
<1>2. PICK gmax \in Nat : \A x \in D : g[x] \in 0..gmax
    BY SummandsBounded
<1>3. PICK max \in Nat : max = fmax + gmax
    OBVIOUS
<1>4. \A x \in D : f[x] \in 0..max /\ g[x] \in 0..max
    BY <1>1, <1>2, <1>3
<1>5. IsFiniteSet(D) /\ DOMAIN f = D /\ DOMAIN g = D
    BY DEF Summands
<1>6. SumFunction(f) = Cardinality(Units(f, D, max))
    BY <1>4, <1>5, SumIsCount DEF SumFunction
<1>7. SumFunction(g) = Cardinality(Units(g, D, max))
    BY <1>4, <1>5, SumIsCount DEF SumFunction
<1>8. Cardinality(Units(f, D, max)) = f[p] + Cardinality(Units(f, D \ {p}, max))
    BY <1>4, <1>5, UnitsWithout
<1>9. Cardinality(Units(g, D, max)) = g[p] + Cardinality(Units(g, D \ {p}, max))
    BY <1>4, <1>5, UnitsWithout
<1>10. Units(f, D \ {p}, max) = Units(g, D \ {p}, max)
    BY DEF Units, ChangedAt
<1>11. IsFiniteSet(D \ {p})
    BY <1>5, FS_RemoveElement
<1>12. Cardinality(Units(f, D \ {p}, max)) \in Nat
    BY <1>11, UnitsFinite
<1>13. f[p] \in Nat /\ g[p] \in Nat
    BY <1>4
<1> QED
    BY <1>6, <1>7, <1>8, <1>9, <1>10, <1>12, <1>13

\* A sum over more is more by what is added: one index, ...
LEMMA SumGrows ==
    ASSUME NEW D, NEW x, x \notin D, NEW f, Summands(f, D), NEW g, Summands(g, D \cup {x}),
           \A y \in D : g[y] = f[y]
    PROVE  SumFunction(g) = SumFunction(f) + g[x]
<1> DEFINE E == D \cup {x}
<1>1. PICK max \in Nat : \A y \in E : g[y] \in 0..max
    BY SummandsBounded
<1>2. IsFiniteSet(D) /\ IsFiniteSet(E) /\ DOMAIN f = D /\ DOMAIN g = E
      /\ E \ {x} = D /\ x \in E
    BY DEF Summands
<1> HIDE DEF E
<1>3. \A y \in D : f[y] \in 0..max
    BY <1>1 DEF E
<1>4. SumFunction(f) = Cardinality(Units(f, D, max))
    BY <1>2, <1>3, SumIsCount DEF SumFunction
<1>5. SumFunction(g) = Cardinality(Units(g, E, max))
    BY <1>1, <1>2, SumIsCount DEF SumFunction
<1>6. Cardinality(Units(g, E, max)) = g[x] + Cardinality(Units(g, D, max))
    <2>1. g[x] \in 0..max
        BY <1>1, <1>2
    <2>2. Cardinality(Units(g, E, max)) = g[x] + Cardinality(Units(g, E \ {x}, max))
        BY <1>2, <2>1, UnitsWithout
    <2> QED
        BY <1>2, <2>2
<1>7. Units(g, D, max) = Units(f, D, max)
    BY DEF Units
<1>8. Cardinality(Units(f, D, max)) \in Nat /\ g[x] \in Nat
    BY <1>1, <1>2, UnitsFinite
<1> QED
    BY <1>4, <1>5, <1>6, <1>7, <1>8

\* ... or many.
LEMMA SumOfPart ==
    ASSUME NEW D, NEW E, E \subseteq D, NEW f, Summands(f, D), NEW g, Summands(g, E),
           \A y \in E : g[y] = f[y]
    PROVE  SumFunction(g) <= SumFunction(f)
<1>1. PICK max \in Nat : \A y \in D : f[y] \in 0..max
    BY SummandsBounded
<1>2. IsFiniteSet(D) /\ IsFiniteSet(E) /\ DOMAIN f = D /\ DOMAIN g = E
    BY DEF Summands
<1>3. \A y \in E : g[y] \in 0..max
    BY <1>1
<1>4. SumFunction(f) = Cardinality(Units(f, D, max))
    BY <1>1, <1>2, SumIsCount DEF SumFunction
<1>5. SumFunction(g) = Cardinality(Units(g, E, max))
    BY <1>2, <1>3, SumIsCount DEF SumFunction
<1>6. Units(g, E, max) \in SUBSET Units(f, D, max)
    BY DEF Units
<1>7. IsFiniteSet(Units(f, D, max))
    BY <1>2, UnitsFinite
<1> QED
    BY <1>4, <1>5, <1>6, <1>7, FS_Subset


-----------------------------------------------------------------------------
(* The inductive invariant.                                                 *)

\* Natural numbers throughout, and messages that refer to the routes and people
\* there are.
Shape ==
    /\ enrolled \in [Chains -> SUBSET Chains]
    /\ registered_accounts \in [Chains -> SUBSET Accounts]
    /\ pending_transfers \in [Chains -> [People -> Nat]]
    /\ pending_total \in [Chains -> Nat]
    /\ holdings \in [Chains -> [People -> Nat]]
    /\ custody \in Nat
    /\ total_supply \in [Synthetics -> Nat]
    /\ dispatched \subseteq Messages /\ IsFiniteSet(dispatched)
    /\ delivered \subseteq dispatched

\* What people hold is what there is, ...
Holdings ==
    /\ custody + SumFunction(holdings[Home]) = SumFunction(Start)
    /\ \A c \in Synthetics : total_supply[c] = SumFunction(holdings[c])

\* ... what they are promised is what the routes count as promised.
Promises == \A c \in Chains : pending_total[c] = SumFunction(pending_transfers[c])

\* A Mailbox has given out the nonces below its own.
Numbered == \A m \in dispatched : m.nonce < Nonce(m.origin)

\* All that the routes promise
Promised == [c \in Synthetics |-> pending_total[c]]

Owed == pending_total[Home] + SumFunction(Promised)

\* The second half of Conserved.
Backed == custody = Owed + SumFunction(total_supply) + Carried(InFlight)

BridgeInv == Shape /\ Holdings /\ Promises /\ Backed /\ Numbered

-----------------------------------------------------------------------------
(* What one step does to the sums.                                          *)

\* One summand is given another value.
LEMMA SumSet ==
    ASSUME NEW D, NEW f, Summands(f, D), NEW x \in D, NEW v \in Nat
    PROVE  /\ Summands([f EXCEPT ![x] = v], D)
           /\ SumFunction([f EXCEPT ![x] = v]) + f[x] = SumFunction(f) + v
<1>1. PICK g : g = [f EXCEPT ![x] = v]
    OBVIOUS
<1>2. f \in [D -> Nat] /\ IsFiniteSet(D)
    BY DEF Summands
<1>3. g \in [D -> Nat] /\ g[x] = v /\ \A y \in D \ {x} : f[y] = g[y]
    BY <1>1, <1>2
<1>4. Summands(g, D) /\ ChangedAt(f, g, D, x)
    BY <1>2, <1>3 DEF Summands, ChangedAt
<1>5. SumFunction(g) + f[x] = SumFunction(f) + g[x]
    BY <1>4, SumChange
<1> QED
    BY <1>1, <1>3, <1>4, <1>5

\* A table: per chain, the amounts of people.
Table(t) == t \in [Chains -> [People -> Nat]]

\* In one row of a table, one entry is given another value.
Revised(t, u, c, p, v) == u = [t EXCEPT ![c][p] = v]

\* The row's sum changes with the entry, and nothing else changes.
LEMMA RowSet ==
    ASSUME NEW t, Table(t), NEW c \in Chains, NEW p \in People, NEW v \in Nat,
           NEW u, Revised(t, u, c, p, v)
    PROVE  /\ Table(u)
           /\ SumFunction(u[c]) + t[c][p] = SumFunction(t[c]) + v
           /\ u[c][p] = v
           /\ \A x \in People : x # p => u[c][x] = t[c][x]
           /\ \A d \in Chains : d # c => u[d] = t[d]
<1>1. t \in [Chains -> [People -> Nat]]
    BY DEF Table
<1>2. PICK row : row = t[c]
    OBVIOUS
<1>3. PICK new : new = [row EXCEPT ![p] = v]
    OBVIOUS
<1>4. row \in [People -> Nat]
    BY <1>1, <1>2
<1>5. new \in [People -> Nat] /\ new[p] = v /\ \A q \in People : q # p => new[q] = row[q]
    BY <1>3, <1>4
<1>6. u = [t EXCEPT ![c] = new]
    BY <1>1, <1>2, <1>3 DEF Revised
<1>7. u \in [Chains -> [People -> Nat]] /\ u[c] = new /\ \A d \in Chains : d # c => u[d] = t[d]
    BY <1>1, <1>5, <1>6
<1>8. Summands(row, People)
    BY <1>4, BridgeAssumption DEF Summands
<1>9. SumFunction(new) + row[p] = SumFunction(row) + v
    <2>1. p \in People /\ v \in Nat
        OBVIOUS
    <2>2. SumFunction([row EXCEPT ![p] = v]) + row[p] = SumFunction(row) + v
        BY <1>8, <2>1, SumSet
    <2> QED
        BY <1>3, <2>2
<1> QED
    BY <1>2, <1>5, <1>7, <1>9 DEF Table

\* The rows of a table can be summed.
LEMMA RowSums ==
    ASSUME NEW t, Table(t), NEW c \in Chains
    PROVE  Summands(t[c], People) /\ SumFunction(t[c]) \in Nat
           /\ \A p \in People : t[c][p] \in Nat /\ t[c][p] <= SumFunction(t[c])
<1>1. t[c] \in [People -> Nat]
    BY DEF Table
<1>2. Summands(t[c], People)
    BY <1>1, BridgeAssumption DEF Summands
<1> QED
    BY <1>1, <1>2, SumAtLeast

\* Finitely many remittances with their amounts
Parcels(ms) == IsFiniteSet(ms) /\ \A m \in ms : m.amount \in Nat

\* The amounts of finitely many parcels can be summed.
LEMMA CarriedSums ==
    ASSUME NEW ms, Parcels(ms)
    PROVE  Summands([m \in ms |-> m.amount], ms) /\ Carried(ms) \in Nat
<1>1. Summands([m \in ms |-> m.amount], ms)
    BY DEF Parcels, Summands
<1> QED
    BY <1>1, SumAtLeast DEF Carried

\* One more parcel
LEMMA CarriedMore ==
    ASSUME NEW ms, Parcels(ms), NEW m, m \notin ms, m.amount \in Nat
    PROVE  /\ Parcels(ms \cup {m})
           /\ Carried(ms \cup {m}) = Carried(ms) + m.amount
<1>1. Parcels(ms \cup {m})
    BY FS_AddElement DEF Parcels
<1>2. PICK f : f = [n \in ms |-> n.amount]
    OBVIOUS
<1>3. PICK g : g = [n \in ms \cup {m} |-> n.amount]
    OBVIOUS
<1>4. Summands(f, ms) /\ Summands(g, ms \cup {m})
    BY <1>1, <1>2, <1>3, CarriedSums
<1>5. (\A n \in ms : g[n] = f[n]) /\ g[m] = m.amount
    BY <1>2, <1>3
<1>6. SumFunction(g) = SumFunction(f) + g[m]
    BY <1>4, <1>5, SumGrows
<1> QED
    BY <1>1, <1>2, <1>3, <1>5, <1>6 DEF Carried

\* Some of the parcels
LEMMA CarriedPart ==
    ASSUME NEW ms, Parcels(ms), NEW ns \in SUBSET ms
    PROVE  /\ Parcels(ns)
           /\ Carried(ns) <= Carried(ms)
<1>1. Parcels(ns)
    BY FS_Subset DEF Parcels
<1>2. PICK f : f = [n \in ms |-> n.amount]
    OBVIOUS
<1>3. PICK g : g = [n \in ns |-> n.amount]
    OBVIOUS
<1>4. Summands(f, ms) /\ Summands(g, ns)
    BY <1>1, <1>2, <1>3, CarriedSums
<1>5. \A n \in ns : g[n] = f[n]
    BY <1>2, <1>3
<1>6. SumFunction(g) <= SumFunction(f)
    BY <1>4, <1>5, SumOfPart
<1> QED
    BY <1>1, <1>2, <1>3, <1>6 DEF Carried

\* There are finitely many chains.
LEMMA ChainsFinite == IsFiniteSet(Chains) /\ IsFiniteSet(Synthetics) /\ IsFiniteSet(People)
                      /\ Home \in Chains /\ Synthetics \subseteq Chains
                      /\ \A c \in Chains : c # Home <=> c \in Synthetics
<1>1. IsFiniteSet({Home}) /\ IsFiniteSet(Synthetics)
    BY FS_Singleton, BridgeAssumption
<1>2. IsFiniteSet({Home} \cup Synthetics)
    BY <1>1, FS_Union
<1> QED
    BY <1>2, BridgeAssumption DEF Chains

\* Amounts are positive numbers.
LEMMA AmountsAreNumbers == MaxU64 \in Nat /\ \A amount \in Amounts : amount \in Nat /\ amount > 0
BY BridgeAssumption


\* The figures of a state with this shape can be added up.
LEMMA ShapeSums ==
    ASSUME Shape
    PROVE  /\ Table(holdings) /\ Table(pending_transfers)
           /\ Summands(total_supply, Synthetics)
           /\ Summands(Promised, Synthetics)
           /\ Parcels(InFlight)
           /\ custody \in Nat /\ SumFunction(total_supply) \in Nat
           /\ SumFunction(Promised) \in Nat
           /\ pending_total[Home] \in Nat /\ Owed \in Nat /\ Carried(InFlight) \in Nat
<1>1. Table(holdings) /\ Table(pending_transfers)
    BY DEF Shape, Table
<1>2. Summands(total_supply, Synthetics)
    BY ChainsFinite DEF Shape, Summands
<1>3. Summands(Promised, Synthetics)
    BY ChainsFinite DEF Shape, Summands, Promised
<1>4. Parcels(InFlight)
    <2>1. InFlight \in SUBSET dispatched /\ IsFiniteSet(dispatched)
        BY DEF Shape, InFlight
    <2>2. IsFiniteSet(InFlight)
        BY <2>1, FS_Subset
    <2>3. ASSUME NEW m \in InFlight PROVE m.amount \in Nat
        <3>1. m \in Messages
            BY <2>1, <2>3 DEF Shape
        <3> QED
            BY <3>1, AmountsAreNumbers DEF Messages
    <2> QED
        BY <2>2, <2>3 DEF Parcels
<1>5. SumFunction(total_supply) \in Nat
    BY <1>2, SumAtLeast
<1>6. SumFunction(Promised) \in Nat
    BY <1>3, SumAtLeast
<1>7. pending_total[Home] \in Nat /\ custody \in Nat
    BY ChainsFinite DEF Shape
<1>8. Carried(InFlight) \in Nat
    BY <1>4, CarriedSums
<1> QED
    BY <1>1, <1>2, <1>3, <1>4, <1>5, <1>6, <1>7, <1>8 DEF Owed

\* Shape after a step, from what only some steps change
ValueShape ==
    /\ holdings \in [Chains -> [People -> Nat]] /\ custody \in Nat
    /\ total_supply \in [Synthetics -> Nat]
PendingShape ==
    /\ pending_transfers \in [Chains -> [People -> Nat]]
    /\ pending_total \in [Chains -> Nat]
MessageShape ==
    /\ dispatched \subseteq Messages /\ IsFiniteSet(dispatched)
    /\ delivered \subseteq dispatched

\* A payment to p of what the custody or a new supply covers.
LEMMA PayStep ==
    ASSUME Shape, Holdings, NEW c \in Chains, NEW p \in People, NEW amount \in Nat,
           Pay(c, p, amount)
    PROVE  /\ ValueShape' /\ Holdings'
           /\ custody' \in Nat /\ SumFunction(total_supply') \in Nat
           /\ custody' - SumFunction(total_supply') + amount = custody - SumFunction(total_supply)
<1>1. Table(holdings) /\ Summands(total_supply, Synthetics)
      /\ custody \in Nat /\ SumFunction(total_supply) \in Nat
    BY ShapeSums
<1>2. PICK v : v = holdings[c][p] + amount
    OBVIOUS
<1>3. holdings[c][p] \in Nat /\ v \in Nat
    BY <1>1, <1>2, RowSums
<1>4. holdings' = [holdings EXCEPT ![c][p] = v]
    BY <1>2 DEF Pay
<1>5. /\ Table(holdings')
      /\ SumFunction(holdings'[c]) + holdings[c][p] = SumFunction(holdings[c]) + v
      /\ \A d \in Chains : d # c => holdings'[d] = holdings[d]
    <2>1. PICK t : t = holdings
        OBVIOUS
    <2>2. PICK u : u = holdings'
        OBVIOUS
    <2>3. Table(t) /\ Revised(t, u, c, p, v)
        BY <1>1, <1>4, <2>1, <2>2 DEF Revised
    <2>4. /\ Table(u)
          /\ SumFunction(u[c]) + t[c][p] = SumFunction(t[c]) + v
          /\ \A d \in Chains : d # c => u[d] = t[d]
        BY <1>3, <2>3, RowSet
    <2> QED
        BY <2>1, <2>2, <2>4
<1>6. SumFunction(holdings[c]) \in Nat /\ SumFunction(holdings'[c]) \in Nat
    BY <1>1, <1>5, RowSums
<1>7. SumFunction(holdings'[c]) = SumFunction(holdings[c]) + amount
    BY <1>2, <1>3, <1>5, <1>6
<1>8. holdings' \in [Chains -> [People -> Nat]]
    BY <1>5 DEF Table
<1>9. CASE c = Home
    <2>1. custody >= amount /\ custody' = custody - amount /\ total_supply' = total_supply
        BY <1>9 DEF Pay
    <2>2. custody' \in Nat /\ custody' + SumFunction(holdings'[Home]) = custody + SumFunction(holdings[Home])
        BY <1>1, <1>6, <1>7, <1>9, <2>1
    <2>3. \A d \in Synthetics : total_supply'[d] = SumFunction(holdings'[d])
        BY <1>5, <1>9, <2>1, ChainsFinite DEF Holdings
    <2>4. Holdings'
        BY <2>2, <2>3 DEF Holdings
    <2>5. ValueShape'
        BY <1>8, <2>1, <2>2 DEF ValueShape, Shape
    <2> QED
        BY <1>1, <2>1, <2>4, <2>5
<1>10. CASE c # Home
    <2>1. c \in Synthetics
        BY <1>10, ChainsFinite
    <2>2. PICK s : s = total_supply[c] + amount
        OBVIOUS
    <2>3. custody' = custody /\ total_supply' = [total_supply EXCEPT ![c] = s]
        BY <1>10, <2>2 DEF Pay
    <2>4. total_supply \in [Synthetics -> Nat] /\ s \in Nat
        BY <2>1, <2>2 DEF Shape
    <2>5. SumFunction(total_supply') + total_supply[c] = SumFunction(total_supply) + s
          /\ Summands(total_supply', Synthetics)
        <3>1. PICK f : f = total_supply
            OBVIOUS
        <3>2. Summands(f, Synthetics) /\ c \in Synthetics /\ s \in Nat
            BY <1>1, <2>1, <2>4, <3>1
        <3>3. SumFunction([f EXCEPT ![c] = s]) + f[c] = SumFunction(f) + s
              /\ Summands([f EXCEPT ![c] = s], Synthetics)
            BY <3>2, SumSet
        <3> QED
            BY <2>3, <3>1, <3>3
    <2>6. SumFunction(total_supply') \in Nat
        BY <2>5, SumAtLeast
    <2>7. SumFunction(total_supply') = SumFunction(total_supply) + amount
        BY <1>1, <2>1, <2>2, <2>4, <2>5, <2>6
    <2>8. total_supply'[c] = SumFunction(holdings'[c])
        BY <1>7, <2>1, <2>2, <2>3, <2>4 DEF Holdings
    <2>9. ASSUME NEW d \in Synthetics, d # c PROVE total_supply'[d] = SumFunction(holdings'[d])
        BY <1>5, <2>3, <2>4, <2>9, ChainsFinite DEF Holdings
    <2>10. holdings'[Home] = holdings[Home]
        BY <1>5, <1>10, ChainsFinite
    <2>11. Holdings'
        BY <2>3, <2>8, <2>9, <2>10 DEF Holdings
    <2>12. ValueShape'
        BY <1>1, <1>8, <2>3, <2>4 DEF ValueShape
    <2> QED
        BY <1>1, <2>3, <2>6, <2>7, <2>11, <2>12
<1> QED
    BY <1>9, <1>10

\* p parts with an amount: it is locked at home and burnt elsewhere.
LEMMA PartStep ==
    ASSUME Shape, Holdings, NEW c \in Chains, NEW p \in People, NEW amount \in Nat,
           IF c = Home THEN Lock(p, amount) ELSE Burn(c, p, amount)
    PROVE  /\ ValueShape' /\ Holdings'
           /\ custody' \in Nat /\ SumFunction(total_supply') \in Nat
           /\ custody' - SumFunction(total_supply') = custody - SumFunction(total_supply) + amount
<1>1. Table(holdings) /\ Summands(total_supply, Synthetics)
      /\ custody \in Nat /\ SumFunction(total_supply) \in Nat
    BY ShapeSums
<1>2. PICK v : v = holdings[c][p] - amount
    OBVIOUS
<1>3. holdings[c][p] \in Nat /\ holdings[c][p] >= amount /\ v \in Nat
    <2>1. holdings[c][p] \in Nat
        BY <1>1, RowSums
    <2>2. holdings[c][p] >= amount
        BY DEF Lock, Burn
    <2> QED
        BY <1>2, <2>1, <2>2
<1>4. holdings' = [holdings EXCEPT ![c][p] = v]
    BY <1>2 DEF Lock, Burn
<1>5. /\ Table(holdings')
      /\ SumFunction(holdings'[c]) + holdings[c][p] = SumFunction(holdings[c]) + v
      /\ \A d \in Chains : d # c => holdings'[d] = holdings[d]
    <2>1. PICK t : t = holdings
        OBVIOUS
    <2>2. PICK u : u = holdings'
        OBVIOUS
    <2>3. Table(t) /\ Revised(t, u, c, p, v)
        BY <1>1, <1>4, <2>1, <2>2 DEF Revised
    <2>4. /\ Table(u)
          /\ SumFunction(u[c]) + t[c][p] = SumFunction(t[c]) + v
          /\ \A d \in Chains : d # c => u[d] = t[d]
        BY <1>3, <2>3, RowSet
    <2> QED
        BY <2>1, <2>2, <2>4
<1>6. SumFunction(holdings[c]) \in Nat /\ SumFunction(holdings'[c]) \in Nat
    BY <1>1, <1>5, RowSums
<1>7. SumFunction(holdings'[c]) + amount = SumFunction(holdings[c])
    BY <1>2, <1>3, <1>5, <1>6
<1>8. holdings' \in [Chains -> [People -> Nat]]
    BY <1>5 DEF Table
<1>9. CASE c = Home
    <2>1. custody' = custody + amount /\ total_supply' = total_supply
        BY <1>9 DEF Lock
    <2>2. custody' \in Nat /\ custody' + SumFunction(holdings'[Home]) = custody + SumFunction(holdings[Home])
        BY <1>1, <1>6, <1>7, <1>9, <2>1
    <2>3. \A d \in Synthetics : total_supply'[d] = SumFunction(holdings'[d])
        BY <1>5, <1>9, <2>1, ChainsFinite DEF Holdings
    <2>4. Holdings'
        BY <2>2, <2>3 DEF Holdings
    <2>5. ValueShape'
        BY <1>8, <2>1, <2>2 DEF ValueShape, Shape
    <2> QED
        BY <1>1, <2>1, <2>4, <2>5
<1>10. CASE c # Home
    <2>1. c \in Synthetics
        BY <1>10, ChainsFinite
    <2>2. PICK s : s = total_supply[c] - amount
        OBVIOUS
    <2>3. custody' = custody /\ total_supply' = [total_supply EXCEPT ![c] = s] /\ total_supply[c] >= amount
        BY <1>10, <2>2 DEF Burn
    <2>4. total_supply \in [Synthetics -> Nat] /\ s \in Nat
        BY <2>1, <2>2, <2>3 DEF Shape
    <2>5. SumFunction(total_supply') + total_supply[c] = SumFunction(total_supply) + s
          /\ Summands(total_supply', Synthetics)
        <3>1. PICK f : f = total_supply
            OBVIOUS
        <3>2. Summands(f, Synthetics) /\ c \in Synthetics /\ s \in Nat
            BY <1>1, <2>1, <2>4, <3>1
        <3>3. SumFunction([f EXCEPT ![c] = s]) + f[c] = SumFunction(f) + s
              /\ Summands([f EXCEPT ![c] = s], Synthetics)
            BY <3>2, SumSet
        <3> QED
            BY <2>3, <3>1, <3>3
    <2>6. SumFunction(total_supply') \in Nat
        BY <2>5, SumAtLeast
    <2>7. SumFunction(total_supply') + amount = SumFunction(total_supply)
        BY <1>1, <2>1, <2>2, <2>4, <2>5, <2>6
    <2>8. total_supply'[c] = SumFunction(holdings'[c])
        <3>1. total_supply[c] = SumFunction(holdings[c])
            BY <2>1 DEF Holdings
        <3>2. total_supply'[c] = s
            BY <2>1, <2>3, <2>4
        <3> QED
            BY <1>6, <1>7, <2>2, <3>1, <3>2
    <2>9. ASSUME NEW d \in Synthetics, d # c PROVE total_supply'[d] = SumFunction(holdings'[d])
        BY <1>5, <2>3, <2>4, <2>9, ChainsFinite DEF Holdings
    <2>10. holdings'[Home] = holdings[Home]
        BY <1>5, <1>10, ChainsFinite
    <2>11. Holdings'
        BY <2>3, <2>8, <2>9, <2>10 DEF Holdings
    <2>12. ValueShape'
        BY <1>1, <1>8, <2>3, <2>4 DEF ValueShape
    <2> QED
        BY <1>1, <2>3, <2>6, <2>7, <2>11, <2>12
<1> QED
    BY <1>9, <1>10


\* The promises of one chain, and the routes' counts of them, change together.
LEMMA PromiseStep ==
    ASSUME Shape, Promises, NEW c \in Chains, NEW p \in People, NEW v \in Nat, NEW w \in Nat,
           Revised(pending_transfers, pending_transfers', c, p, v),
           pending_total' = [pending_total EXCEPT ![c] = w],
           w + pending_transfers[c][p] = pending_total[c] + v
    PROVE  /\ PendingShape' /\ Promises'
           /\ Owed' \in Nat /\ Owed' + pending_transfers[c][p] = Owed + v
<1>1. Table(pending_transfers) /\ Summands(Promised, Synthetics)
      /\ pending_total[Home] \in Nat /\ SumFunction(Promised) \in Nat
    BY ShapeSums
<1>2. PICK t : t = pending_transfers
    OBVIOUS
<1>3. PICK u : u = pending_transfers'
    OBVIOUS
<1>4. Table(t) /\ Revised(t, u, c, p, v)
    BY <1>1, <1>2, <1>3 DEF Revised
<1>5. /\ Table(u)
      /\ SumFunction(u[c]) + t[c][p] = SumFunction(t[c]) + v
      /\ \A d \in Chains : d # c => u[d] = t[d]
    BY <1>4, RowSet
<1>6. SumFunction(u[c]) \in Nat /\ SumFunction(t[c]) \in Nat /\ t[c][p] \in Nat
    BY <1>4, <1>5, RowSums
<1>7. pending_total \in [Chains -> Nat]
    BY DEF Shape
<1>8. PendingShape'
    <2>1. pending_total' \in [Chains -> Nat]
        BY <1>7
    <2>2. pending_transfers' \in [Chains -> [People -> Nat]]
        BY <1>3, <1>5 DEF Table
    <2> QED
        BY <2>1, <2>2 DEF PendingShape
<1>9. Promises'
    <2>1. pending_total'[c] = SumFunction(pending_transfers'[c])
        <3>1. pending_total[c] = SumFunction(t[c]) /\ pending_total[c] \in Nat
            BY <1>2, <1>7 DEF Promises
        <3>2. pending_total'[c] = w
            BY <1>7
        <3>3. w + t[c][p] = SumFunction(t[c]) + v
            BY <1>2, <3>1
        <3>4. w = SumFunction(u[c])
            BY <1>5, <1>6, <3>3
        <3> QED
            BY <1>3, <3>2, <3>4
    <2>2. ASSUME NEW d \in Chains, d # c PROVE pending_total'[d] = SumFunction(pending_transfers'[d])
        BY <1>2, <1>3, <1>5, <1>7, <2>2 DEF Promises
    <2> QED
        BY <2>1, <2>2 DEF Promises
<1>10. pending_total[c] \in Nat /\ pending_total'[c] = w /\ pending_transfers[c][p] \in Nat
    BY <1>2, <1>6, <1>7
<1>11. CASE c = Home
    <2>1. Promised' = Promised
        BY <1>7, <1>11, ChainsFinite DEF Promised
    <2>2. SumFunction(Promised')
            = SumFunction(Promised)
        BY <2>1
    <2> QED
        BY <1>1, <1>8, <1>9, <1>10, <1>11, <2>2 DEF Owed
<1>12. CASE c # Home
    <2>1. c \in Synthetics /\ pending_total'[Home] = pending_total[Home]
        BY <1>7, <1>12, ChainsFinite
    <2>2. PICK f : f = Promised
        OBVIOUS
    <2>3. Summands(f, Synthetics) /\ f[c] = pending_total[c]
        BY <1>1, <2>1, <2>2 DEF Promised
    <2>4. SumFunction([f EXCEPT ![c] = w]) + f[c] = SumFunction(f) + w
          /\ Summands([f EXCEPT ![c] = w], Synthetics)
        BY <2>1, <2>3, SumSet
    <2>5. Promised' = [f EXCEPT ![c] = w]
        BY <1>7, <2>2, ChainsFinite DEF Promised
    <2>6. SumFunction([f EXCEPT ![c] = w]) \in Nat
        BY <2>4, SumAtLeast
    <2>7. SumFunction(Promised') \in Nat
          /\ SumFunction(Promised') + pending_total[c]
               = SumFunction(Promised) + w
        BY <2>2, <2>3, <2>4, <2>5, <2>6
    <2> QED
        BY <1>1, <1>8, <1>9, <1>10, <2>1, <2>7 DEF Owed
<1> QED
    BY <1>11, <1>12

\* A promise is made.
LEMMA OweStep ==
    ASSUME Shape, Promises, NEW c \in Chains, NEW p \in People, NEW amount \in Nat,
           Owe(c, p, amount)
    PROVE  PendingShape' /\ Promises' /\ Owed' = Owed + amount
<1>1. pending_transfers[c][p] \in Nat /\ pending_total[c] \in Nat /\ Owed \in Nat
    BY ShapeSums DEF Shape
<1>2. PICK v : v = pending_transfers[c][p] + amount
    OBVIOUS
<1>3. PICK w : w = pending_total[c] + amount
    OBVIOUS
<1>4. v \in Nat /\ w \in Nat /\ w + pending_transfers[c][p] = pending_total[c] + v
    BY <1>1, <1>2, <1>3
<1>5. Revised(pending_transfers, pending_transfers', c, p, v)
    BY <1>2 DEF Owe, Revised
<1>6. pending_total' = [pending_total EXCEPT ![c] = w]
    BY <1>3 DEF Owe
<1>7. PendingShape' /\ Promises' /\ Owed' \in Nat /\ Owed' + pending_transfers[c][p] = Owed + v
    BY <1>4, <1>5, <1>6, PromiseStep
<1> QED
    BY <1>1, <1>2, <1>7


\* A promise is settled.
LEMMA SettleStep ==
    ASSUME Shape, Promises, NEW c \in Chains, NEW p \in People, ClaimPending(c, p)
    PROVE  /\ PendingShape' /\ Promises'
           /\ Owed' \in Nat /\ Owed' + pending_transfers[c][p] = Owed
<1>1. pending_transfers[c][p] \in Nat /\ pending_total[c] \in Nat /\ Owed \in Nat
    BY ShapeSums DEF Shape
<1>2. PICK w : w = pending_total[c] - pending_transfers[c][p]
    OBVIOUS
<1>3. pending_total[c] >= pending_transfers[c][p]
    BY DEF ClaimPending
<1>4. 0 \in Nat /\ w \in Nat /\ w + pending_transfers[c][p] = pending_total[c] + 0
    BY <1>1, <1>2, <1>3
<1>5. Revised(pending_transfers, pending_transfers', c, p, 0)
    BY DEF ClaimPending, Revised
<1>6. pending_total' = [pending_total EXCEPT ![c] = w]
    BY <1>2 DEF ClaimPending
<1>7. PendingShape' /\ Promises' /\ Owed' \in Nat /\ Owed' + pending_transfers[c][p] = Owed + 0
    BY <1>4, <1>5, <1>6, PromiseStep
<1> QED
    BY <1>1, <1>7

\* A Mailbox logs a message: it is new, and its amount is on its way if it is a route's.
LEMMA PostStep ==
    ASSUME Shape, Numbered, NEW c \in Chains, NEW d \in Chains, NEW sender \in {Route, Stranger},
           NEW r \in People, NEW amount \in Amounts, Post(c, d, sender, r, amount)
    PROVE  /\ MessageShape' /\ Numbered'
           /\ Carried(InFlight') \in Nat
           /\ Carried(InFlight') = Carried(InFlight) + (IF sender = Route THEN amount ELSE 0)
           /\ \E m : /\ m \notin dispatched /\ dispatched' = dispatched \cup {m}
                     /\ m.sender = sender /\ m.recipient = r /\ m.amount = amount
<1>1. PICK n : n = Nonce(c)
    OBVIOUS
<1>2. PICK m : m = [origin |-> c, nonce |-> n, destination |-> d, sender |-> sender,
                    recipient |-> r, amount |-> amount]
    OBVIOUS
<1>3. /\ m.origin = c /\ m.nonce = n /\ m.destination = d /\ m.sender = sender
      /\ m.recipient = r /\ m.amount = amount
    BY <1>2
<1>4. dispatched' = dispatched \cup {m} /\ delivered' = delivered /\ n < MaxNonce
    BY <1>1, <1>2 DEF Post
<1>5. dispatched \subseteq Messages /\ IsFiniteSet(dispatched) /\ delivered \subseteq dispatched
    BY DEF Shape
<1>6. \A x : IsFiniteSet({k \in dispatched : k.origin = x}) /\ Nonce(x) \in Nat
    BY <1>5, FS_Subset, FS_CardinalityType DEF Nonce
<1>7. m \notin dispatched
    <2>1. ASSUME m \in dispatched PROVE FALSE
        <3>1. m.nonce < Nonce(m.origin)
            BY <2>1 DEF Numbered
        <3>2. m.nonce = n /\ Nonce(m.origin) = n
            BY <1>1, <1>3
        <3>3. n \in Nat /\ n < n
            BY <1>1, <1>6, <3>1, <3>2
        <3> QED
            BY <3>3
    <2> QED
        BY <2>1
<1>8. m \in Messages
    <2>1. n \in 0..(MaxNonce - 1)
        <3>1. n \in Nat /\ MaxNonce \in Nat
            BY <1>1, <1>6, BridgeAssumption
        <3> QED
            BY <1>4, <3>1
    <2> QED
        BY <1>2, <2>1 DEF Messages
<1>9. MessageShape'
    <2>1. IsFiniteSet(dispatched')
        BY <1>4, <1>5, FS_AddElement
    <2> QED
        BY <1>4, <1>5, <1>8, <2>1 DEF MessageShape
<1>10. Numbered'
    <2>1. Nonce(c)' = n + 1
        <3>1. PICK mine : mine = {k \in dispatched : k.origin = c}
            OBVIOUS
        <3>2. {k \in dispatched' : k.origin = c} = mine \cup {m}
            BY <1>3, <1>4, <3>1
        <3>3. IsFiniteSet(mine) /\ m \notin mine /\ Cardinality(mine) = n
            BY <1>1, <1>6, <1>7, <3>1 DEF Nonce
        <3>4. Cardinality(mine \cup {m}) = Cardinality(mine) + 1
            BY <3>3, FS_AddElement
        <3> QED
            BY <3>2, <3>3, <3>4 DEF Nonce
    <2>2. ASSUME NEW x, x # c PROVE Nonce(x)' = Nonce(x)
        <3>1. {k \in dispatched' : k.origin = x} = {k \in dispatched : k.origin = x}
            BY <1>3, <1>4, <2>2
        <3> QED
            BY <3>1 DEF Nonce
    <2>3. ASSUME NEW k \in dispatched' PROVE k.nonce < Nonce(k.origin)'
        <3>1. n \in Nat
            BY <1>1, <1>6
        <3>2. CASE k = m
            BY <1>3, <2>1, <3>1, <3>2
        <3>3. CASE k # m
            <4>1. k \in dispatched /\ k.nonce < Nonce(k.origin) /\ k.nonce \in Int
                BY <1>4, <1>5, <2>3, <3>3 DEF Numbered, Messages
            <4>2. CASE k.origin = c
                <5>1. k.nonce < n
                    BY <1>1, <4>1, <4>2
                <5>2. k.nonce < n + 1
                    BY <3>1, <4>1, <5>1
                <5> QED
                    BY <2>1, <4>2, <5>2
            <4>3. CASE k.origin # c
                BY <2>2, <4>1, <4>3
            <4> QED
                BY <4>2, <4>3
        <3> QED
            BY <3>2, <3>3
    <2> QED
        BY <2>3 DEF Numbered
<1>11. PICK ms : ms = InFlight
    OBVIOUS
<1>12. Parcels(ms) /\ m \notin ms /\ m.amount \in Nat /\ Carried(ms) \in Nat
    <2>1. amount \in Nat
        BY AmountsAreNumbers
    <2> QED
        BY <1>3, <1>7, <1>11, <2>1, ShapeSums DEF InFlight
<1>13. CASE sender = Route
    <2>1. InFlight' = ms \cup {m}
        BY <1>3, <1>4, <1>5, <1>7, <1>11, <1>13 DEF InFlight
    <2>2. Carried(ms \cup {m}) = Carried(ms) + m.amount
        BY <1>12, CarriedMore
    <2>3. Carried(InFlight') = Carried(InFlight) + amount /\ Carried(InFlight') \in Nat
        BY <1>3, <1>11, <1>12, <2>1, <2>2
    <2> QED
        BY <1>3, <1>4, <1>7, <1>9, <1>10, <1>13, <2>3
<1>14. CASE sender # Route
    <2>1. InFlight' = ms
        BY <1>3, <1>4, <1>5, <1>7, <1>11, <1>14 DEF InFlight
    <2>2. Carried(InFlight') = Carried(InFlight) + 0 /\ Carried(InFlight') \in Nat
        BY <1>11, <1>12, <2>1
    <2> QED
        BY <1>3, <1>4, <1>7, <1>9, <1>10, <1>14, <2>2
<1> QED
    BY <1>13, <1>14

\* A Mailbox delivers a route's message: its amount is not on its way any more.
LEMMA DeliverStep ==
    ASSUME Shape, NEW m \in dispatched, Process(m)
    PROVE  /\ m \in InFlight
           /\ m.destination \in Chains /\ m.recipient \in People /\ m.amount \in Nat
           /\ MessageShape'
           /\ InFlight' = InFlight \ {m}
           /\ Carried(InFlight') \in Nat /\ Carried(InFlight') + m.amount = Carried(InFlight)
<1>1. /\ m \in dispatched \ delivered /\ m.sender = Route
      /\ dispatched' = dispatched /\ delivered' = delivered \cup {m}
    BY DEF Process, Handle, FromEnrolledRouter
<1>2. m.destination \in Chains /\ m.recipient \in People /\ m.amount \in Nat
    <2>1. m \in Messages
        BY <1>1 DEF Shape
    <2> QED
        BY <2>1, AmountsAreNumbers DEF Messages
<1>3. m \in InFlight
    BY <1>1 DEF InFlight
<1>4. MessageShape'
    BY <1>1 DEF MessageShape, Shape
<1>5. InFlight' = InFlight \ {m}
    BY <1>1 DEF InFlight
<1>6. PICK ms : ms = InFlight
    OBVIOUS
<1>7. Parcels(ms)
    BY <1>6, ShapeSums
<1>8. PICK ns : ns = ms \ {m}
    OBVIOUS
<1>9. Parcels(ns) /\ m \notin ns /\ ms = ns \cup {m}
    <2>1. ns \in SUBSET ms
        BY <1>8
    <2> QED
        BY <1>3, <1>6, <1>7, <1>8, <2>1, CarriedPart
<1>10. Carried(ns \cup {m}) = Carried(ns) + m.amount
    BY <1>2, <1>9, CarriedMore
<1>11. Carried(ns) \in Nat
    BY <1>9, CarriedSums
<1> QED
    BY <1>2, <1>3, <1>4, <1>5, <1>6, <1>8, <1>9, <1>10, <1>11


\* What a step leaves alone stays as it was.
LEMMA IdleStep ==
    ASSUME BridgeInv
    PROVE  /\ UNCHANGED value => /\ ValueShape' /\ Holdings' /\ custody' \in Nat
                                 /\ SumFunction(total_supply') \in Nat
                                 /\ custody' - SumFunction(total_supply')
                                      = custody - SumFunction(total_supply)
           /\ UNCHANGED pending => PendingShape' /\ Promises' /\ Owed' \in Nat /\ Owed' = Owed
           /\ UNCHANGED messages => /\ MessageShape' /\ Numbered' /\ Carried(InFlight') \in Nat
                                    /\ Carried(InFlight') = Carried(InFlight)
<1> USE DEF BridgeInv
<1>1. ASSUME UNCHANGED value
      PROVE  /\ ValueShape' /\ Holdings' /\ custody' \in Nat
             /\ SumFunction(total_supply') \in Nat
             /\ custody' - SumFunction(total_supply') = custody - SumFunction(total_supply)
    <2>1. holdings' = holdings /\ custody' = custody /\ total_supply' = total_supply
        BY <1>1 DEF value
    <2>2. ValueShape' /\ Holdings'
        BY <2>1 DEF ValueShape, Holdings, Shape
    <2> QED
        BY <2>1, <2>2, ShapeSums
<1>2. ASSUME UNCHANGED pending PROVE PendingShape' /\ Promises' /\ Owed' \in Nat /\ Owed' = Owed
    <2>1. pending_transfers' = pending_transfers /\ pending_total' = pending_total
        BY <1>2 DEF pending
    <2>2. PendingShape' /\ Promises' /\ Owed' = Owed
        BY <2>1 DEF PendingShape, Promises, Shape, Owed, Promised
    <2> QED
        BY <2>2, ShapeSums
<1>3. ASSUME UNCHANGED messages
      PROVE  /\ MessageShape' /\ Numbered' /\ Carried(InFlight') \in Nat
             /\ Carried(InFlight') = Carried(InFlight)
    <2>1. dispatched' = dispatched /\ delivered' = delivered
        BY <1>3 DEF messages
    <2>2. MessageShape' /\ Numbered' /\ InFlight' = InFlight
        BY <2>1 DEF MessageShape, Numbered, Nonce, Shape, InFlight
    <2> QED
        BY <2>2, ShapeSums
<1> QED
    BY <1>1, <1>2, <1>3

\* The invariant from its parts
LEMMA Together ==
    ASSUME BridgeInv, enrolled' \in [Chains -> SUBSET Chains],
           registered_accounts' \in [Chains -> SUBSET Accounts],
           ValueShape', PendingShape', MessageShape', Holdings', Promises', Numbered',
           custody' \in Nat, SumFunction(total_supply') \in Nat, Owed' \in Nat,
           Carried(InFlight') \in Nat,
           custody' - SumFunction(total_supply') - (custody - SumFunction(total_supply))
             = (Owed' - Owed) + (Carried(InFlight') - Carried(InFlight))
    PROVE  BridgeInv'
<1>1. Shape'
    BY DEF Shape, ValueShape, PendingShape, MessageShape
<1>2. Backed'
    <2>1. Shape /\ custody = Owed + SumFunction(total_supply) + Carried(InFlight)
        BY DEF BridgeInv, Backed
    <2>2. custody \in Nat /\ SumFunction(total_supply) \in Nat /\ Owed \in Nat
          /\ Carried(InFlight) \in Nat
        BY <2>1, ShapeSums
    <2>3. custody' = Owed' + SumFunction(total_supply') + Carried(InFlight')
        BY <2>1, <2>2
    <2> QED
        BY <2>3 DEF Backed
<1> QED
    BY <1>1, <1>2 DEF BridgeInv

\* A transfer within a chain moves what its parties hold.
LEMMA TransferStep ==
    ASSUME Shape, Holdings, NEW c \in Chains, NEW p \in People, NEW q \in People,
           NEW amount \in Amounts, Transfer(c, p, q, amount)
    PROVE  /\ ValueShape' /\ Holdings'
           /\ custody' \in Nat /\ SumFunction(total_supply') \in Nat
           /\ custody' - SumFunction(total_supply') = custody - SumFunction(total_supply)
<1>1. Table(holdings) /\ custody \in Nat /\ SumFunction(total_supply) \in Nat /\ amount \in Nat
    BY ShapeSums, AmountsAreNumbers
<1>2. /\ p # q /\ holdings[c][p] >= amount
      /\ holdings' = [holdings EXCEPT ![c][p] = @ - amount, ![c][q] = @ + amount]
      /\ custody' = custody /\ total_supply' = total_supply
    BY DEF Transfer
<1>3. PICK t : t = holdings
    OBVIOUS
<1>4. Table(t) /\ t[c][p] \in Nat /\ t[c][q] \in Nat
    BY <1>1, <1>3, RowSums
<1>5. PICK v : v = t[c][p] - amount
    OBVIOUS
<1>6. PICK w : w = t[c][q] + amount
    OBVIOUS
<1>7. v \in Nat /\ w \in Nat
    BY <1>1, <1>2, <1>3, <1>4, <1>5, <1>6
<1>8. PICK h : h = [t EXCEPT ![c][p] = v]
    OBVIOUS
<1>9. /\ Table(h)
      /\ SumFunction(h[c]) + t[c][p] = SumFunction(t[c]) + v
      /\ h[c][q] = t[c][q]
      /\ \A d \in Chains : d # c => h[d] = t[d]
    <2>1. Revised(t, h, c, p, v)
        BY <1>8 DEF Revised
    <2>2. /\ Table(h)
          /\ SumFunction(h[c]) + t[c][p] = SumFunction(t[c]) + v
          /\ h[c][p] = v
          /\ \A x \in People : x # p => h[c][x] = t[c][x]
          /\ \A d \in Chains : d # c => h[d] = t[d]
        BY <1>4, <1>7, <2>1, RowSet
    <2> QED
        BY <1>2, <2>2
<1>10. PICK u : u = [h EXCEPT ![c][q] = w]
    OBVIOUS
<1>11. /\ Table(u)
       /\ SumFunction(u[c]) + h[c][q] = SumFunction(h[c]) + w
       /\ \A d \in Chains : d # c => u[d] = h[d]
    <2>1. Revised(h, u, c, q, w)
        BY <1>10 DEF Revised
    <2> QED
        BY <1>7, <1>9, <2>1, RowSet
<1>12. SumFunction(u[c]) = SumFunction(t[c])
    <2>1. SumFunction(t[c]) \in Nat /\ SumFunction(h[c]) \in Nat /\ SumFunction(u[c]) \in Nat
        BY <1>4, <1>9, <1>11, RowSums
    <2>2. /\ SumFunction(h[c]) + t[c][p] = SumFunction(t[c]) + (t[c][p] - amount)
          /\ SumFunction(u[c]) + t[c][q] = SumFunction(h[c]) + (t[c][q] + amount)
        BY <1>5, <1>6, <1>9, <1>11
    <2>3. t[c][p] \in Nat /\ t[c][q] \in Nat /\ amount \in Nat
        BY <1>1, <1>4
    <2>4. SumFunction(h[c]) = SumFunction(t[c]) - amount
        BY <2>1, <2>2, <2>3
    <2>5. SumFunction(u[c]) = SumFunction(h[c]) + amount
        BY <2>1, <2>2, <2>3
    <2> QED
        BY <2>1, <2>3, <2>4, <2>5
<1>13. holdings' = u
    <2>1. \A x \in People : t[c][x] = [t[c] EXCEPT ![x] = t[c][x]][x]
        BY <1>4 DEF Table
    <2>2. holdings' = [holdings EXCEPT ![c][p] = v, ![c][q] = w]
        <3>1. t \in [Chains -> [People -> Nat]]
            BY <1>4 DEF Table
        <3> QED
            BY <1>2, <1>3, <1>5, <1>6, <3>1
    <2> QED
        BY <1>3, <1>8, <1>10, <2>2
<1>14. Holdings'
    <2>1. \A d \in Chains : SumFunction(holdings'[d]) = SumFunction(holdings[d])
        BY <1>3, <1>9, <1>11, <1>12, <1>13
    <2> QED
        BY <1>2, <2>1, ChainsFinite DEF Holdings
<1>15. ValueShape'
    BY <1>2, <1>11, <1>13 DEF Table, ValueShape, Shape
<1> QED
    BY <1>1, <1>2, <1>14, <1>15


-----------------------------------------------------------------------------
(* The invariant holds.                                                     *)

\* The invariant holds initially ...
LEMMA BridgeStart ==
    ASSUME Init
    PROVE  BridgeInv
<1> DEFINE none == [p \in People |-> 0]
<1>2. Start \in [People -> Nat] /\ none \in [People -> Nat]
    BY BridgeAssumption
<1>3. Shape
    <2>1. \A c \in Chains : (IF c = Home THEN Start ELSE none) \in [People -> Nat]
        BY <1>2
    <2>2. holdings \in [Chains -> [People -> Nat]]
        BY <2>1 DEF Init
    <2>3. pending_transfers \in [Chains -> [People -> Nat]] /\ pending_total \in [Chains -> Nat]
        BY <1>2 DEF Init
    <2>4. IsFiniteSet(dispatched)
        BY FS_EmptySet DEF Init
    <2> QED
        BY <2>2, <2>3, <2>4 DEF Init, Shape
<1>4. SumFunction(none) = 0
    <2>1. DOMAIN none = People /\ \A p \in People : none[p] = 0
        OBVIOUS
    <2> HIDE DEF none
    <2> QED
        BY <2>1, ChainsFinite, SumNone
<1>5. SumFunction(Start) \in Nat
    <2>1. Summands(Start, People)
        BY <1>2, ChainsFinite DEF Summands
    <2> QED
        BY <2>1, SumAtLeast
<1>6. Holdings
    <2>1. holdings[Home] = Start /\ custody = 0
        BY ChainsFinite DEF Init
    <2>2. ASSUME NEW c \in Synthetics PROVE total_supply[c] = 0 /\ holdings[c] = none
        BY ChainsFinite DEF Init
    <2> HIDE DEF none
    <2> QED
        BY <1>4, <1>5, <2>1, <2>2 DEF Holdings
<1>7. Promises
    <2>1. ASSUME NEW c \in Chains PROVE pending_total[c] = 0 /\ pending_transfers[c] = none
        BY DEF Init
    <2> HIDE DEF none
    <2> QED
        BY <1>4, <2>1 DEF Promises
<1>8. Backed
    <2>1. SumFunction(total_supply) = 0
        <3>1. DOMAIN total_supply = Synthetics /\ \A c \in Synthetics : total_supply[c] = 0
            BY DEF Init
        <3>2. PICK f : f = total_supply
            OBVIOUS
        <3> QED
            BY <3>1, <3>2, ChainsFinite, SumNone
    <2>2. SumFunction(Promised) = 0
        <3>1. DOMAIN Promised = Synthetics /\ \A c \in Synthetics : Promised[c] = 0
            BY ChainsFinite DEF Init, Promised
        <3>2. PICK f : f = Promised
            OBVIOUS
        <3> QED
            BY <3>1, <3>2, ChainsFinite, SumNone
    <2>3. Carried({}) = 0
        <3>1. PICK f : f = [m \in {} |-> m.amount]
            OBVIOUS
        <3>2. DOMAIN f = {} /\ \A x \in {} : f[x] = 0
            BY <3>1
        <3>3. SumFunction(f) = 0
            BY <3>2, FS_EmptySet, SumNone
        <3> QED
            BY <3>1, <3>3 DEF Carried
    <2>4. InFlight = {} /\ custody = 0 /\ pending_total[Home] = 0
        BY ChainsFinite DEF Init, InFlight
    <2>5. Carried(InFlight) = 0
        BY <2>3, <2>4
    <2> QED
        BY <2>1, <2>2, <2>4, <2>5 DEF Backed, Owed
<1>9. Numbered
    BY DEF Init, Numbered
<1> QED
    BY <1>3, <1>6, <1>7, <1>8, <1>9 DEF BridgeInv

\* ... and every step keeps it.
LEMMA BridgeNext ==
    ASSUME BridgeInv, [Next]_vars
    PROVE  BridgeInv'
<1>1. /\ enrolled \in [Chains -> SUBSET Chains]
      /\ registered_accounts \in [Chains -> SUBSET Accounts]
      /\ dispatched \subseteq Messages
    BY DEF BridgeInv, Shape
<1>2. Shape /\ Holdings /\ Promises /\ Numbered
    BY DEF BridgeInv
<1>3. /\ custody \in Nat /\ SumFunction(total_supply) \in Nat /\ Owed \in Nat
      /\ Carried(InFlight) \in Nat
    BY <1>2, ShapeSums
<1>4. ASSUME NEW pair \in Pairs, EnrollRemoteRouter(pair[1], pair[2]) PROVE BridgeInv'
    <2>1. pair[2] \in Chains
        BY BridgeAssumption
    <2>2. /\ enrolled' \in [Chains -> SUBSET Chains] /\ registered_accounts' = registered_accounts
          /\ UNCHANGED value /\ UNCHANGED pending /\ UNCHANGED messages
        BY <1>1, <1>4, <2>1 DEF EnrollRemoteRouter
    <2> QED
        BY <1>1, <1>3, <2>2, IdleStep, Together
<1>5. ASSUME NEW c \in Chains, NEW a \in Accounts, RegisterAccount(c, a) PROVE BridgeInv'
    <2>1. /\ registered_accounts' \in [Chains -> SUBSET Accounts] /\ enrolled' = enrolled
          /\ UNCHANGED value /\ UNCHANGED pending /\ UNCHANGED messages
        BY <1>1, <1>5 DEF RegisterAccount
    <2> QED
        BY <1>1, <1>3, <2>1, IdleStep, Together
<1>6. ASSUME NEW c \in Chains, NEW d \in Chains, NEW p \in People, NEW r \in People,
             NEW amount \in Amounts, TransferRemote(c, d, p, r, amount)
      PROVE  BridgeInv'
    <2>1. /\ IF c = Home THEN Lock(p, amount) ELSE Burn(c, p, amount)
          /\ Post(c, d, Route, r, amount)
          /\ enrolled' = enrolled /\ registered_accounts' = registered_accounts /\ UNCHANGED pending
        BY <1>6 DEF TransferRemote, config
    <2>2. amount \in Nat /\ Route \in {Route, Stranger}
        BY AmountsAreNumbers
    <2>3. /\ ValueShape' /\ Holdings' /\ custody' \in Nat /\ SumFunction(total_supply') \in Nat
          /\ custody' - SumFunction(total_supply') = custody - SumFunction(total_supply) + amount
        BY <1>2, <2>1, <2>2, PartStep
    <2>4. /\ MessageShape' /\ Numbered' /\ Carried(InFlight') \in Nat
          /\ Carried(InFlight') = Carried(InFlight) + (IF Route = Route THEN amount ELSE 0)
        BY <1>2, <2>1, <2>2, PostStep
    <2>5. PendingShape' /\ Promises' /\ Owed' \in Nat /\ Owed' = Owed
        BY <2>1, IdleStep
    <2>6. custody' - SumFunction(total_supply') - (custody - SumFunction(total_supply))
             = (Owed' - Owed) + (Carried(InFlight') - Carried(InFlight))
        BY <1>3, <2>2, <2>3, <2>4, <2>5
    <2> QED
        BY <1>1, <2>1, <2>3, <2>4, <2>5, <2>6, Together
<1>7. ASSUME NEW c \in Chains, NEW d \in Chains, NEW r \in Named, NEW amount \in Amounts,
             DispatchOther(c, d, r, amount)
      PROVE  BridgeInv'
    <2>1. /\ Post(c, d, Stranger, r, amount)
          /\ enrolled' = enrolled /\ registered_accounts' = registered_accounts
          /\ UNCHANGED pending /\ UNCHANGED value
        BY <1>7 DEF DispatchOther, config
    <2>2. r \in People /\ Stranger \in {Route, Stranger} /\ Stranger # Route
        BY BridgeAssumption
    <2>3. /\ MessageShape' /\ Numbered' /\ Carried(InFlight') \in Nat
          /\ Carried(InFlight') = Carried(InFlight) + (IF Stranger = Route THEN amount ELSE 0)
        BY <1>2, <2>1, <2>2, PostStep
    <2>4. /\ ValueShape' /\ Holdings' /\ custody' \in Nat /\ SumFunction(total_supply') \in Nat
          /\ custody' - SumFunction(total_supply') = custody - SumFunction(total_supply)
          /\ PendingShape' /\ Promises' /\ Owed' \in Nat /\ Owed' = Owed
        BY <2>1, IdleStep
    <2>5. custody' - SumFunction(total_supply') - (custody - SumFunction(total_supply))
             = (Owed' - Owed) + (Carried(InFlight') - Carried(InFlight))
        BY <1>3, <2>2, <2>3, <2>4
    <2> QED
        BY <1>1, <2>1, <2>3, <2>4, <2>5, Together
<1>8. ASSUME NEW c \in Chains, NEW p \in People, NEW q \in People, NEW amount \in Amounts,
             Transfer(c, p, q, amount)
      PROVE  BridgeInv'
    <2>1. /\ enrolled' = enrolled /\ registered_accounts' = registered_accounts
          /\ UNCHANGED pending /\ UNCHANGED messages
        BY <1>8 DEF Transfer, config
    <2>2. /\ ValueShape' /\ Holdings' /\ custody' \in Nat /\ SumFunction(total_supply') \in Nat
          /\ custody' - SumFunction(total_supply') = custody - SumFunction(total_supply)
        BY <1>2, <1>8, TransferStep
    <2>3. /\ PendingShape' /\ Promises' /\ Owed' \in Nat /\ Owed' = Owed
          /\ MessageShape' /\ Numbered' /\ Carried(InFlight') \in Nat
          /\ Carried(InFlight') = Carried(InFlight)
        BY <2>1, IdleStep
    <2>4. custody' - SumFunction(total_supply') - (custody - SumFunction(total_supply))
             = (Owed' - Owed) + (Carried(InFlight') - Carried(InFlight))
        BY <1>3, <2>2, <2>3
    <2> QED
        BY <1>1, <2>1, <2>2, <2>3, <2>4, Together
<1>9. ASSUME NEW m \in dispatched, Process(m) PROVE BridgeInv'
    <2>1. /\ m.destination \in Chains /\ m.recipient \in People /\ m.amount \in Nat
          /\ MessageShape' /\ Carried(InFlight') \in Nat
          /\ Carried(InFlight') + m.amount = Carried(InFlight)
        BY <1>2, <1>9, DeliverStep
    <2>2. PICK c \in Chains : c = m.destination
        BY <2>1
    <2>3. PICK p \in People : p = m.recipient
        BY <2>1
    <2>4. PICK amount \in Nat : amount = m.amount
        BY <2>1
    <2>5. enrolled' = enrolled /\ registered_accounts' = registered_accounts
          /\ dispatched' = dispatched
        BY <1>9 DEF Process, config
    <2>6. Numbered'
        BY <1>2, <2>5 DEF Numbered, Nonce
    <2>7. (Pay(c, p, amount) /\ UNCHANGED pending) \/ (Owe(c, p, amount) /\ UNCHANGED value)
        BY <1>9, <2>2, <2>3, <2>4 DEF Process, Handle
    <2>8. CASE Pay(c, p, amount) /\ UNCHANGED pending
        <3>1. /\ ValueShape' /\ Holdings' /\ custody' \in Nat /\ SumFunction(total_supply') \in Nat
              /\ custody' - SumFunction(total_supply') + amount = custody - SumFunction(total_supply)
            BY <1>2, <2>8, PayStep
        <3>2. PendingShape' /\ Promises' /\ Owed' \in Nat /\ Owed' = Owed
            BY <2>8, IdleStep
        <3>3. custody' - SumFunction(total_supply') - (custody - SumFunction(total_supply))
                = (Owed' - Owed) + (Carried(InFlight') - Carried(InFlight))
            BY <1>3, <2>1, <2>4, <3>1, <3>2
        <3> QED
            BY <1>1, <2>1, <2>5, <2>6, <3>1, <3>2, <3>3, Together
    <2>9. CASE Owe(c, p, amount) /\ UNCHANGED value
        <3>1. /\ ValueShape' /\ Holdings' /\ custody' \in Nat /\ SumFunction(total_supply') \in Nat
              /\ custody' - SumFunction(total_supply') = custody - SumFunction(total_supply)
            BY <2>9, IdleStep
        <3>2. PendingShape' /\ Promises' /\ Owed' = Owed + amount
            BY <1>2, <2>9, OweStep
        <3>3. /\ Owed' \in Nat
              /\ custody' - SumFunction(total_supply') - (custody - SumFunction(total_supply))
                = (Owed' - Owed) + (Carried(InFlight') - Carried(InFlight))
            BY <1>3, <2>1, <2>4, <3>1, <3>2
        <3> QED
            BY <1>1, <2>1, <2>5, <2>6, <3>1, <3>2, <3>3, Together
    <2> QED
        BY <2>7, <2>8, <2>9
<1>10. ASSUME NEW c \in Chains, NEW p \in People, ClaimPending(c, p) PROVE BridgeInv'
    <2>1. PICK amount : amount = pending_transfers[c][p]
        OBVIOUS
    <2>2. amount \in Nat
        BY <1>2, <2>1 DEF Shape
    <2>3. /\ Pay(c, p, amount) /\ enrolled' = enrolled /\ registered_accounts' = registered_accounts
          /\ UNCHANGED messages
        BY <1>10, <2>1 DEF ClaimPending, config
    <2>4. /\ ValueShape' /\ Holdings' /\ custody' \in Nat /\ SumFunction(total_supply') \in Nat
          /\ custody' - SumFunction(total_supply') + amount = custody - SumFunction(total_supply)
        BY <1>2, <2>2, <2>3, PayStep
    <2>5. /\ PendingShape' /\ Promises' /\ Owed' \in Nat /\ Owed' + amount = Owed
        BY <1>2, <1>10, <2>1, SettleStep
    <2>6. /\ MessageShape' /\ Numbered' /\ Carried(InFlight') \in Nat
          /\ Carried(InFlight') = Carried(InFlight)
        BY <2>3, IdleStep
    <2>7. custody' - SumFunction(total_supply') - (custody - SumFunction(total_supply))
             = (Owed' - Owed) + (Carried(InFlight') - Carried(InFlight))
        <3>1. custody' - SumFunction(total_supply') - (custody - SumFunction(total_supply)) = 0 - amount
            BY <1>3, <2>2, <2>4
        <3>2. Owed' - Owed = 0 - amount
            <4>1. Owed' + amount = Owed /\ Owed' \in Nat /\ Owed \in Nat
                BY <1>3, <2>5
            <4>2. \A x, y, z \in Nat : x + y = z => x - z = 0 - y
                OBVIOUS
            <4> QED
                BY <2>2, <4>1, <4>2
        <3>3. Carried(InFlight') - Carried(InFlight) = 0
            BY <1>3, <2>6
        <3> QED
            BY <2>2, <3>1, <3>2, <3>3
    <2> QED
        BY <1>1, <2>3, <2>4, <2>5, <2>6, <2>7, Together
<1>11. CASE UNCHANGED vars
    <2>1. /\ enrolled' = enrolled /\ registered_accounts' = registered_accounts
          /\ UNCHANGED value /\ UNCHANGED pending /\ UNCHANGED messages
        BY <1>11 DEF vars, config, value, pending, messages
    <2> QED
        BY <1>1, <1>3, <2>1, IdleStep, Together
<1> QED
    BY <1>4, <1>5, <1>6, <1>7, <1>8, <1>9, <1>10, <1>11 DEF Next

\* In every state the routes' books agree with what people have and with each other.
THEOREM BridgeInvariant == Spec => []BridgeInv
<1>1. Init => BridgeInv
    BY BridgeStart
<1>2. BridgeInv /\ [Next]_vars => BridgeInv'
    BY BridgeNext
<1> QED
    BY <1>1, <1>2, PTL DEF Spec


\* Every single figure is bounded by the DUSK there is.
LEMMA FiguresBounded ==
    ASSUME BridgeInv
    PROVE  /\ SumFunction(Start) <= MaxU64 /\ custody <= SumFunction(Start)
           /\ \A c \in Synthetics :
                /\ total_supply[c] \in Nat /\ total_supply[c] <= SumFunction(total_supply)
                /\ pending_total[c] \in Nat /\ pending_total[c] <= SumFunction(Promised)
           /\ SumFunction(Start) \in Nat
<1>1. Shape /\ Holdings
    BY DEF BridgeInv
<1>2. SumFunction(Start) <= MaxU64
    BY BridgeAssumption
<1>3. custody <= SumFunction(Start) /\ SumFunction(Start) \in Nat
    <2>1. Table(holdings) /\ custody \in Nat
        BY <1>1, ShapeSums
    <2>2. SumFunction(holdings[Home]) \in Nat
        BY <2>1, ChainsFinite, RowSums
    <2>3. custody + SumFunction(holdings[Home]) = SumFunction(Start)
        BY <1>1 DEF Holdings
    <2> QED
        BY <2>1, <2>2, <2>3
<1>4. ASSUME NEW c \in Synthetics
      PROVE  /\ total_supply[c] \in Nat /\ total_supply[c] <= SumFunction(total_supply)
             /\ pending_total[c] \in Nat /\ pending_total[c] <= SumFunction(Promised)
    <2>1. Summands(total_supply, Synthetics) /\ Summands(Promised, Synthetics)
        BY <1>1, ShapeSums
    <2>2. total_supply[c] \in Nat /\ pending_total[c] \in Nat /\ Promised[c] = pending_total[c]
        BY <1>1, ChainsFinite DEF Shape, Promised
    <2>3. total_supply[c] <= SumFunction(total_supply)
        BY <2>1, SumAtLeast
    <2>4. Promised[c] <= SumFunction(Promised)
        BY <2>1, SumAtLeast
    <2> QED
        BY <2>2, <2>3, <2>4
<1> QED
    BY <1>2, <1>3, <1>4

\* The books imply the first property,
LEMMA ConservedHolds ==
    ASSUME BridgeInv
    PROVE  Conserved
<1>1. Shape /\ Holdings /\ Promises
    BY DEF BridgeInv
<1>2. /\ Table(holdings) /\ Table(pending_transfers)
      /\ custody \in Nat /\ SumFunction(total_supply) \in Nat /\ SumFunction(Promised) \in Nat
      /\ pending_total[Home] \in Nat /\ Carried(InFlight) \in Nat
    BY <1>1, ShapeSums
<1>3. custody = pending_total[Home] + SumFunction(Promised) + SumFunction(total_supply)
                + Carried(InFlight)
    BY <1>2 DEF BridgeInv, Backed, Owed
<1>4. custody <= MaxU64 /\ MaxU64 \in Nat
    BY <1>2, FiguresBounded, AmountsAreNumbers
<1>5. custody \in 0..MaxU64
    BY <1>2, <1>4
<1>6. ASSUME NEW c \in Chains PROVE pending_total[c] \in 0..MaxU64
    <2>1. CASE c = Home
        BY <1>2, <1>3, <1>4, <2>1
    <2>2. CASE c # Home
        <3>1. pending_total[c] \in Nat /\ pending_total[c] <= SumFunction(Promised)
            BY <2>2, ChainsFinite, FiguresBounded
        <3> QED
            BY <1>2, <1>3, <1>4, <3>1
    <2> QED
        BY <2>1, <2>2
<1>7. ASSUME NEW c \in Synthetics PROVE total_supply[c] \in 0..MaxU64
    <2>1. total_supply[c] \in Nat /\ total_supply[c] <= SumFunction(total_supply)
        BY FiguresBounded
    <2> QED
        BY <1>2, <1>3, <1>4, <2>1
<1>8. ASSUME NEW c \in Chains, NEW p \in People PROVE holdings[c][p] \in 0..MaxU64
    <2>1. holdings[c][p] \in Nat /\ holdings[c][p] <= SumFunction(holdings[c])
          /\ SumFunction(holdings[c]) \in Nat
        BY <1>2, RowSums
    <2>2. CASE c = Home
        <3>1. custody + SumFunction(holdings[c]) = SumFunction(Start)
            BY <1>1, <2>2 DEF Holdings
        <3>2. SumFunction(Start) <= MaxU64 /\ SumFunction(Start) \in Nat
            BY FiguresBounded
        <3> QED
            BY <1>2, <1>4, <2>1, <3>1, <3>2
    <2>3. CASE c # Home
        <3>1. c \in Synthetics
            BY <2>3, ChainsFinite
        <3>2. SumFunction(holdings[c]) \in 0..MaxU64
            BY <1>1, <1>7, <3>1 DEF Holdings
        <3> QED
            BY <1>4, <2>1, <3>2
    <2> QED
        BY <2>2, <2>3
<1>9. ASSUME NEW c \in Chains, NEW p \in People PROVE pending_transfers[c][p] \in 0..MaxU64
    <2>1. pending_transfers[c][p] \in Nat /\ pending_transfers[c][p] <= SumFunction(pending_transfers[c])
        BY <1>2, RowSums
    <2>2. SumFunction(pending_transfers[c]) \in 0..MaxU64
        BY <1>1, <1>6 DEF Promises
    <2> QED
        BY <1>4, <2>1, <2>2
<1>10. TypeOK
    <2>1. holdings \in [Chains -> [People -> 0..MaxU64]]
        <3>1. holdings \in [Chains -> [People -> Nat]]
            BY <1>1 DEF Shape
        <3> QED
            BY <1>8, <3>1
    <2>2. pending_transfers \in [Chains -> [People -> 0..MaxU64]]
        <3>1. pending_transfers \in [Chains -> [People -> Nat]]
            BY <1>1 DEF Shape
        <3> QED
            BY <1>9, <3>1
    <2>3. pending_total \in [Chains -> 0..MaxU64] /\ total_supply \in [Synthetics -> 0..MaxU64]
        BY <1>1, <1>6, <1>7 DEF Shape
    <2> QED
        BY <1>1, <1>5, <2>1, <2>2, <2>3 DEF TypeOK, Shape
<1>11. custody = pending_total[Home] + SumFunction(total_supply) + SumFunction(Promised)
                 + Carried(InFlight)
    BY <1>2, <1>3
<1> QED
    BY <1>10, <1>11 DEF Conserved, Promised

\* and the second.
LEMMA NoneRefusedHolds ==
    ASSUME BridgeInv
    PROVE  NoneRefused
<1>1. Shape
    BY DEF BridgeInv
<1>2. /\ Parcels(InFlight) /\ Carried(InFlight) \in Nat
      /\ custody \in Nat /\ SumFunction(total_supply) \in Nat /\ SumFunction(Promised) \in Nat
      /\ pending_total[Home] \in Nat
    BY <1>1, ShapeSums
<1>3. custody = pending_total[Home] + SumFunction(Promised) + SumFunction(total_supply)
                + Carried(InFlight)
    BY <1>2 DEF BridgeInv, Backed, Owed
<1>4. ASSUME NEW c
      PROVE  /\ Carried({m \in InFlight : m.destination = c}) \in Nat
             /\ Carried({m \in InFlight : m.destination = c}) <= Carried(InFlight)
    <2>1. PICK ms : ms = InFlight
        OBVIOUS
    <2>2. PICK ns : ns = {m \in ms : m.destination = c}
        OBVIOUS
    <2>3. Parcels(ms) /\ ns \in SUBSET ms
        BY <1>2, <2>1, <2>2
    <2>4. Parcels(ns) /\ Carried(ns) <= Carried(ms)
        BY <2>3, CarriedPart
    <2>5. Carried(ns) \in Nat
        BY <2>4, CarriedSums
    <2>6. {m \in InFlight : m.destination = c} = ns
        BY <2>1, <2>2
    <2> QED
        BY <2>1, <2>4, <2>5, <2>6
<1>5. PICK all : all = Carried(InFlight)
    OBVIOUS
<1>6. Carried({m \in InFlight : m.destination = Home}) <= custody - pending_total[Home]
    <2>1. PICK x : x = Carried({m \in InFlight : m.destination = Home})
        OBVIOUS
    <2>2. x \in Nat /\ x <= all
        BY <1>4, <1>5, <2>1
    <2>3. x <= custody - pending_total[Home]
        BY <1>2, <1>3, <1>5, <2>2
    <2> QED
        BY <2>1, <2>3
<1>7. ASSUME NEW c \in Synthetics
      PROVE  total_supply[c] + pending_total[c]
               + Carried({m \in InFlight : m.destination = c}) <= MaxU64
    <2>1. PICK x : x = Carried({m \in InFlight : m.destination = c})
        OBVIOUS
    <2>2. x \in Nat /\ x <= all
        BY <1>4, <1>5, <2>1
    <2>3. /\ total_supply[c] \in Nat /\ total_supply[c] <= SumFunction(total_supply)
          /\ pending_total[c] \in Nat /\ pending_total[c] <= SumFunction(Promised)
        BY FiguresBounded
    <2>4. total_supply[c] + pending_total[c] + x <= custody
        BY <1>2, <1>3, <1>5, <2>2, <2>3
    <2>5. custody <= MaxU64 /\ MaxU64 \in Nat
        BY <1>2, FiguresBounded, AmountsAreNumbers
    <2>6. total_supply[c] + pending_total[c] + x <= MaxU64
        BY <1>2, <2>2, <2>3, <2>4, <2>5
    <2> QED
        BY <2>1, <2>6
<1> QED
    BY <1>6, <1>7 DEF NoneRefused

\* The native route's custody is, to the last unit, what it owes, what exists and is
\* owed elsewhere and what is on its way; no figure leaves its integer.
THEOREM BridgeConserves == Spec => []Conserved
<1>1. BridgeInv => Conserved
    BY ConservedHolds
<1> QED
    BY <1>1, BridgeInvariant, PTL

\* Custody and capacity suffice for all transfers on their way together.
THEOREM BridgeRefusesNone == Spec => []NoneRefused
<1>1. BridgeInv => NoneRefused
    BY NoneRefusedHolds
<1> QED
    BY <1>1, BridgeInvariant, PTL


-----------------------------------------------------------------------------
(* The bridge implements Remittance.                                        *)

\* What each person has on each chain, to spend or to claim
Assets == [c \in Chains |-> [p \in People |-> holdings[c][p] + pending_transfers[c][p]]]

Worth(t, p) == SumFunction([c \in Chains |-> t[c][p]])

\* A person's worth in a table
LEMMA WorthNumber ==
    ASSUME NEW t, Table(t), NEW p \in People
    PROVE  /\ Summands([c \in Chains |-> t[c][p]], Chains)
           /\ Worth(t, p) \in Nat
           /\ \A c \in Chains : t[c][p] \in Nat /\ t[c][p] <= Worth(t, p)
<1>1. \A c \in Chains : t[c][p] \in Nat
    BY DEF Table
<1>2. PICK f : f = [c \in Chains |-> t[c][p]]
    OBVIOUS
<1>3. Summands(f, Chains) /\ \A c \in Chains : f[c] = t[c][p]
    BY <1>1, <1>2, ChainsFinite DEF Summands
<1>4. SumFunction(f) \in Nat /\ \A c \in Chains : f[c] <= SumFunction(f)
    BY <1>3, SumAtLeast
<1> QED
    BY <1>1, <1>2, <1>3, <1>4 DEF Worth

\* What changes on one chain changes everybody's worth by as much.
LEMMA WorthChange ==
    ASSUME NEW t, Table(t), NEW u, Table(u), NEW c \in Chains,
           ChangedAt(t, u, Chains, c), NEW p \in People
    PROVE  Worth(u, p) + t[c][p] = Worth(t, p) + u[c][p]
<1>1. PICK f : f = [d \in Chains |-> t[d][p]]
    OBVIOUS
<1>2. PICK g : g = [d \in Chains |-> u[d][p]]
    OBVIOUS
<1>3. Summands(f, Chains) /\ Summands(g, Chains)
    BY <1>1, <1>2, WorthNumber
<1>4. ChangedAt(f, g, Chains, c)
    BY <1>1, <1>2 DEF ChangedAt
<1>5. SumFunction(g) + f[c] = SumFunction(f) + g[c]
    BY <1>3, <1>4, SumChange
<1> QED
    BY <1>1, <1>2, <1>5 DEF Worth

\* A purse is what its owner is worth, before a step and after it.
LEMMA PurseIsWorth ==
    ASSUME NEW p \in People
    PROVE  Purse[p] = Worth(Assets, p) /\ Purse'[p] = Worth(Assets', p)
<1>1. [c \in Chains |-> holdings[c][p] + pending_transfers[c][p]] = [c \in Chains |-> Assets[c][p]]
    BY DEF Assets
<1>2. [c \in Chains |-> holdings'[c][p] + pending_transfers'[c][p]] = [c \in Chains |-> Assets'[c][p]]
    BY DEF Assets
<1>3. Purse[p] = Worth(Assets, p)
    BY <1>1 DEF Purse, Worth
<1>4. Purse'[p] = Worth(Assets', p)
    BY <1>2 DEF Purse, Worth
<1> QED
    BY <1>3, <1>4

\* Assets are numbers.
LEMMA AssetsTable ==
    ASSUME Shape
    PROVE  /\ Table(Assets)
           /\ \A c \in Chains, p \in People :
                /\ holdings[c][p] \in Nat /\ pending_transfers[c][p] \in Nat
                /\ Assets[c][p] = holdings[c][p] + pending_transfers[c][p]
<1>1. \A c \in Chains, p \in People : holdings[c][p] \in Nat /\ pending_transfers[c][p] \in Nat
    BY DEF Shape
<1> QED
    BY <1>1 DEF Table, Assets

\* A step that changes what people have on one chain.
LEMMA PurseStep ==
    ASSUME Table(Assets), Table(Assets'), NEW c \in Chains,
           \A d \in Chains : d # c => Assets'[d] = Assets[d], NEW p \in People
    PROVE  /\ Purse[p] \in Nat /\ Purse'[p] \in Nat
           /\ Assets[c][p] \in Nat /\ Assets[c][p] <= Purse[p] /\ Assets'[c][p] \in Nat
           /\ Purse'[p] + Assets[c][p] = Purse[p] + Assets'[c][p]
<1>1. PICK t : t = Assets
    OBVIOUS
<1>2. PICK u : u = Assets'
    OBVIOUS
<1>3. Table(t) /\ Table(u) /\ ChangedAt(t, u, Chains, c)
    BY <1>1, <1>2 DEF ChangedAt
<1>4. Worth(u, p) + t[c][p] = Worth(t, p) + u[c][p]
    BY <1>3, WorthChange
<1>5. Worth(t, p) \in Nat /\ t[c][p] \in Nat /\ t[c][p] <= Worth(t, p)
    BY <1>3, WorthNumber
<1>6. Worth(u, p) \in Nat /\ u[c][p] \in Nat
    BY <1>3, WorthNumber
<1>7. Purse[p] = Worth(t, p)
    BY <1>1, PurseIsWorth
<1>8. Purse'[p] = Worth(u, p)
    BY <1>2, PurseIsWorth
<1> QED
    BY <1>1, <1>2, <1>4, <1>5, <1>6, <1>7, <1>8

\* Purses are a function of people.
LEMMA PurseFunction == Purse = [p \in People |-> Purse[p]] /\ Purse' = [p \in People |-> Purse'[p]]
BY DEF Purse

\* Initially everybody has what Start says.
LEMMA PromiseStart ==
    ASSUME Init
    PROVE  Promise!Init
<1>1. ASSUME NEW p \in People PROVE Purse[p] = Start[p]
    <2>1. PICK f : f = [c \in Chains |-> 0]
        OBVIOUS
    <2>2. PICK g : g = [c \in Chains |-> IF c = Home THEN Start[p] ELSE 0]
        OBVIOUS
    <2>3. Start[p] \in Nat
        BY BridgeAssumption
    <2>4. Summands(f, Chains) /\ Summands(g, Chains) /\ ChangedAt(f, g, Chains, Home)
        BY <2>1, <2>2, <2>3, ChainsFinite DEF Summands, ChangedAt
    <2>5. SumFunction(g) + f[Home] = SumFunction(f) + g[Home]
        BY <2>4, ChainsFinite, SumChange
    <2>6. SumFunction(f) = 0
        <3>1. DOMAIN f = Chains /\ \A c \in Chains : f[c] = 0
            BY <2>1
        <3> QED
            BY <3>1, ChainsFinite, SumNone
    <2>7. SumFunction(g) \in Nat
        BY <2>4, SumAtLeast
    <2>8. SumFunction(g) = Start[p]
        BY <2>1, <2>2, <2>3, <2>5, <2>6, <2>7, ChainsFinite
    <2>9. [c \in Chains |-> holdings[c][p] + pending_transfers[c][p]] = g
        <3>1. ASSUME NEW c \in Chains PROVE holdings[c][p] + pending_transfers[c][p] = g[c]
            BY <2>2, <2>3 DEF Init
        <3> QED
            BY <2>2, <3>1
    <2> QED
        BY <2>8, <2>9 DEF Purse
<1>2. Purse = Start
    BY <1>1, BridgeAssumption DEF Purse
<1> QED
    BY <1>2 DEF Promise!Init, Init


\* One person's assets on one chain grow ...
LEMMA PurseGains ==
    ASSUME Table(Assets), Table(Assets'), NEW c \in Chains, NEW p \in People, NEW amount \in Nat,
           \A d \in Chains : d # c => Assets'[d] = Assets[d],
           \A q \in People : q # p => Assets'[c][q] = Assets[c][q],
           Assets'[c][p] = Assets[c][p] + amount
    PROVE  Purse' = [Purse EXCEPT ![p] = @ + amount]
<1>1. ASSUME NEW q \in People, q # p PROVE Purse'[q] = Purse[q]
    <2>1. /\ Purse[q] \in Nat /\ Purse'[q] \in Nat /\ Assets[c][q] \in Nat
          /\ Purse'[q] + Assets[c][q] = Purse[q] + Assets'[c][q]
        BY PurseStep
    <2>2. Assets'[c][q] = Assets[c][q]
        BY <1>1
    <2> QED
        BY <2>1, <2>2
<1>2. Purse'[p] = Purse[p] + amount
    <2>1. /\ Purse[p] \in Nat /\ Purse'[p] \in Nat /\ Assets[c][p] \in Nat
          /\ Purse'[p] + Assets[c][p] = Purse[p] + Assets'[c][p]
        BY PurseStep
    <2>2. Purse'[p] + Assets[c][p] = Purse[p] + (Assets[c][p] + amount)
        BY <2>1
    <2>3. \A x, y, z, n \in Nat : x + y = z + (y + n) => x = z + n
        OBVIOUS
    <2> QED
        BY <2>1, <2>2, <2>3
<1>3. PICK f : f = Purse
    OBVIOUS
<1>4. PICK g : g = Purse'
    OBVIOUS
<1>5. f = [q \in People |-> f[q]] /\ g = [q \in People |-> g[q]]
    BY <1>3, <1>4, PurseFunction
<1>6. g = [f EXCEPT ![p] = f[p] + amount]
    BY <1>1, <1>2, <1>3, <1>4, <1>5
<1> QED
    BY <1>3, <1>4, <1>6

\* ... or shrink.
LEMMA PurseLoses ==
    ASSUME Table(Assets), Table(Assets'), NEW c \in Chains, NEW p \in People, NEW amount \in Nat,
           \A d \in Chains : d # c => Assets'[d] = Assets[d],
           \A q \in People : q # p => Assets'[c][q] = Assets[c][q],
           Assets'[c][p] + amount = Assets[c][p]
    PROVE  amount <= Purse[p] /\ Purse' = [Purse EXCEPT ![p] = @ - amount]
<1>1. ASSUME NEW q \in People, q # p PROVE Purse'[q] = Purse[q]
    <2>1. /\ Purse[q] \in Nat /\ Purse'[q] \in Nat /\ Assets[c][q] \in Nat
          /\ Purse'[q] + Assets[c][q] = Purse[q] + Assets'[c][q]
        BY PurseStep
    <2>2. Assets'[c][q] = Assets[c][q]
        BY <1>1
    <2> QED
        BY <2>1, <2>2
<1>2. Purse'[p] = Purse[p] - amount /\ amount <= Purse[p]
    <2>1. /\ Purse[p] \in Nat /\ Purse'[p] \in Nat /\ Assets'[c][p] \in Nat
          /\ Purse'[p] + Assets[c][p] = Purse[p] + Assets'[c][p]
        BY PurseStep
    <2>2. Purse'[p] + (Assets'[c][p] + amount) = Purse[p] + Assets'[c][p]
        BY <2>1
    <2>3. \A x, y, z, n \in Nat : x + (y + n) = z + y => x = z - n /\ n <= z
        OBVIOUS
    <2> QED
        BY <2>1, <2>2, <2>3
<1>3. PICK f : f = Purse
    OBVIOUS
<1>4. PICK g : g = Purse'
    OBVIOUS
<1>5. f = [q \in People |-> f[q]] /\ g = [q \in People |-> g[q]]
    BY <1>3, <1>4, PurseFunction
<1>6. g = [f EXCEPT ![p] = f[p] - amount]
    BY <1>1, <1>2, <1>3, <1>4, <1>5
<1> QED
    BY <1>2, <1>3, <1>4, <1>6

\* A purse changes only with holdings and claims.
LEMMA PurseSame ==
    ASSUME holdings' = holdings, pending_transfers' = pending_transfers
    PROVE  Purse' = Purse
BY DEF Purse

\* Rows of Assets
LEMMA AssetRows ==
    ASSUME NEW d \in Chains, holdings'[d] = holdings[d],
           pending_transfers'[d] = pending_transfers[d]
    PROVE  Assets'[d] = Assets[d]
BY DEF Assets

\* A transfer to another chain is a Send.
LEMMA SendStep ==
    ASSUME BridgeInv, BridgeInv', NEW c \in Chains, NEW d \in Chains, NEW p \in People,
           NEW r \in People, NEW amount \in Amounts, TransferRemote(c, d, p, r, amount)
    PROVE  Promise!Send(p)
<1>1. Shape /\ Shape' /\ Numbered
    BY DEF BridgeInv
<1>2. /\ IF c = Home THEN Lock(p, amount) ELSE Burn(c, p, amount)
      /\ Post(c, d, Route, r, amount)
      /\ pending_transfers' = pending_transfers
    BY DEF TransferRemote, pending
<1>3. amount \in Nat
    BY AmountsAreNumbers
<1>4. holdings[c][p] >= amount /\ holdings' = [holdings EXCEPT ![c][p] = @ - amount]
    BY <1>2 DEF Lock, Burn
<1>5. /\ Table(Assets)
      /\ \A e \in Chains, q \in People :
           /\ holdings[e][q] \in Nat /\ pending_transfers[e][q] \in Nat
           /\ Assets[e][q] = holdings[e][q] + pending_transfers[e][q]
    BY <1>1, AssetsTable
<1>6. /\ Table(Assets')
      /\ \A e \in Chains, q \in People :
           Assets'[e][q] = holdings'[e][q] + pending_transfers'[e][q]
    <2>1. \A e \in Chains, q \in People : holdings'[e][q] \in Nat /\ pending_transfers'[e][q] \in Nat
        BY <1>1 DEF Shape
    <2> QED
        BY <2>1 DEF Assets, Table
<1>7. holdings \in [Chains -> [People -> Nat]]
    BY <1>1 DEF Shape
<1>8. \A e \in Chains : e # c => Assets'[e] = Assets[e]
    BY <1>2, <1>4, <1>7, AssetRows
<1>9. \A q \in People : q # p => Assets'[c][q] = Assets[c][q]
    <2>1. \A q \in People : q # p => holdings'[c][q] = holdings[c][q]
        BY <1>4, <1>7
    <2> QED
        BY <1>2, <1>5, <1>6, <2>1
<1>10. Assets'[c][p] + amount = Assets[c][p]
    <2>1. holdings'[c][p] = holdings[c][p] - amount
        BY <1>4, <1>7
    <2>2. Assets'[c][p] = (holdings[c][p] - amount) + pending_transfers[c][p]
        BY <1>2, <1>6, <2>1
    <2> QED
        BY <1>3, <1>5, <2>2
<1>11. amount <= Purse[p] /\ Purse' = [Purse EXCEPT ![p] = @ - amount]
    BY <1>3, <1>5, <1>6, <1>8, <1>9, <1>10, PurseLoses
<1>12. PICK m : /\ m \notin dispatched /\ dispatched' = dispatched \cup {m}
                /\ m.sender = Route /\ m.amount = amount
    <2>1. Route \in {Route, Stranger}
        OBVIOUS
    <2> QED
        BY <1>1, <1>2, <2>1, PostStep
<1>13. /\ m \in {k \in dispatched' : k.sender = Route} \ {k \in dispatched : k.sender = Route}
       /\ {k \in dispatched' : k.sender = Route} = {k \in dispatched : k.sender = Route} \cup {m}
    BY <1>12
<1>14. delivered' = delivered
    BY <1>2 DEF Post
<1> QED
    BY <1>11, <1>12, <1>13, <1>14 DEF Promise!Send

\* What a route pays or owes on delivery arrives.
LEMMA ArriveStep ==
    ASSUME BridgeInv, BridgeInv', NEW m \in dispatched, Process(m)
    PROVE  Promise!Arrive
<1>1. Shape /\ Shape'
    BY DEF BridgeInv
<1>2. m.destination \in Chains /\ m.recipient \in People /\ m.amount \in Nat /\ m \in InFlight
    BY <1>1, DeliverStep
<1>3. PICK c \in Chains : c = m.destination
    BY <1>2
<1>4. PICK p \in People : p = m.recipient
    BY <1>2
<1>5. PICK amount \in Nat : amount = m.amount
    BY <1>2
<1>6. (Pay(c, p, amount) /\ UNCHANGED pending) \/ (Owe(c, p, amount) /\ UNCHANGED value)
    BY <1>3, <1>4, <1>5 DEF Process, Handle
<1>7. \/ /\ holdings' = [holdings EXCEPT ![c][p] = @ + amount]
         /\ pending_transfers' = pending_transfers
      \/ /\ pending_transfers' = [pending_transfers EXCEPT ![c][p] = @ + amount]
         /\ holdings' = holdings
    BY <1>6 DEF Pay, Owe, pending, value
<1>8. /\ Table(Assets)
      /\ \A e \in Chains, q \in People :
           /\ holdings[e][q] \in Nat /\ pending_transfers[e][q] \in Nat
           /\ Assets[e][q] = holdings[e][q] + pending_transfers[e][q]
    BY <1>1, AssetsTable
<1>9. /\ Table(Assets')
      /\ \A e \in Chains, q \in People :
           Assets'[e][q] = holdings'[e][q] + pending_transfers'[e][q]
    <2>1. \A e \in Chains, q \in People : holdings'[e][q] \in Nat /\ pending_transfers'[e][q] \in Nat
        BY <1>1 DEF Shape
    <2> QED
        BY <2>1 DEF Assets, Table
<1>10. holdings \in [Chains -> [People -> Nat]] /\ pending_transfers \in [Chains -> [People -> Nat]]
    BY <1>1 DEF Shape
<1>11. \A e \in Chains : e # c => Assets'[e] = Assets[e]
    BY <1>7, <1>10, AssetRows
<1>12. \A q \in People : q # p => Assets'[c][q] = Assets[c][q]
    <2>1. \A q \in People : q # p => /\ holdings'[c][q] = holdings[c][q]
                                     /\ pending_transfers'[c][q] = pending_transfers[c][q]
        BY <1>7, <1>10
    <2> QED
        BY <1>8, <1>9, <2>1
<1>13. Assets'[c][p] = Assets[c][p] + amount
    <2>1. \/ holdings'[c][p] = holdings[c][p] + amount /\ pending_transfers'[c][p] = pending_transfers[c][p]
          \/ pending_transfers'[c][p] = pending_transfers[c][p] + amount /\ holdings'[c][p] = holdings[c][p]
        BY <1>7, <1>10
    <2>2. /\ Assets'[c][p] = holdings'[c][p] + pending_transfers'[c][p]
          /\ Assets[c][p] = holdings[c][p] + pending_transfers[c][p]
          /\ holdings[c][p] \in Nat /\ pending_transfers[c][p] \in Nat
        BY <1>8, <1>9
    <2> QED
        BY <2>1, <2>2
<1>14. Purse' = [Purse EXCEPT ![p] = @ + amount]
    BY <1>8, <1>9, <1>11, <1>12, <1>13, PurseGains
<1>15. /\ m \in {k \in dispatched : k.sender = Route} \ delivered
       /\ dispatched' = dispatched /\ delivered' = delivered \cup {m}
    BY <1>2 DEF InFlight, Process
<1>16. {k \in dispatched' : k.sender = Route} = {k \in dispatched : k.sender = Route}
    BY <1>15
<1> QED
    BY <1>4, <1>5, <1>14, <1>15, <1>16 DEF Promise!Arrive


\* A transfer within a chain is a Give.
LEMMA GiveStep ==
    ASSUME BridgeInv, BridgeInv', NEW c \in Chains, NEW p \in People, NEW q \in People,
           NEW amount \in Amounts, Transfer(c, p, q, amount)
    PROVE  Promise!Give(p, q, amount)
<1>1. Shape /\ Shape' /\ amount \in Nat
    BY AmountsAreNumbers DEF BridgeInv
<1>2. /\ p # q /\ holdings[c][p] >= amount
      /\ holdings' = [holdings EXCEPT ![c][p] = @ - amount, ![c][q] = @ + amount]
      /\ pending_transfers' = pending_transfers
      /\ dispatched' = dispatched /\ delivered' = delivered
    BY DEF Transfer, pending, messages
<1>3. /\ Table(Assets)
      /\ \A e \in Chains, x \in People :
           /\ holdings[e][x] \in Nat /\ pending_transfers[e][x] \in Nat
           /\ Assets[e][x] = holdings[e][x] + pending_transfers[e][x]
    BY <1>1, AssetsTable
<1>4. /\ Table(Assets')
      /\ \A e \in Chains, x \in People :
           Assets'[e][x] = holdings'[e][x] + pending_transfers'[e][x]
    <2>1. \A e \in Chains, x \in People : holdings'[e][x] \in Nat /\ pending_transfers'[e][x] \in Nat
        BY <1>1 DEF Shape
    <2> QED
        BY <2>1 DEF Assets, Table
<1>5. holdings \in [Chains -> [People -> Nat]]
    BY <1>1 DEF Shape
<1>6. \A e \in Chains : e # c => Assets'[e] = Assets[e]
    BY <1>2, <1>5, AssetRows
<1>7. /\ holdings'[c][p] = holdings[c][p] - amount
      /\ holdings'[c][q] = holdings[c][q] + amount
      /\ \A x \in People : x # p /\ x # q => holdings'[c][x] = holdings[c][x]
    BY <1>2, <1>5
<1>8. /\ Assets'[c][p] + amount = Assets[c][p]
      /\ Assets'[c][q] = Assets[c][q] + amount
      /\ \A x \in People : x # p /\ x # q => Assets'[c][x] = Assets[c][x]
    <2>1. Assets'[c][p] + amount = Assets[c][p]
        <3>1. Assets'[c][p] = (holdings[c][p] - amount) + pending_transfers[c][p]
            BY <1>2, <1>4, <1>7
        <3> QED
            BY <1>1, <1>3, <3>1
    <2>2. Assets'[c][q] = Assets[c][q] + amount
        <3>1. Assets'[c][q] = (holdings[c][q] + amount) + pending_transfers[c][q]
            BY <1>2, <1>4, <1>7
        <3> QED
            BY <1>1, <1>3, <3>1
    <2>3. ASSUME NEW x \in People, x # p, x # q PROVE Assets'[c][x] = Assets[c][x]
        <3>1. holdings'[c][x] = holdings[c][x] /\ pending_transfers'[c][x] = pending_transfers[c][x]
            BY <1>2, <1>7, <2>3
        <3>2. Assets[c][x] = holdings[c][x] + pending_transfers[c][x]
            BY <1>3
        <3>3. Assets'[c][x] = holdings'[c][x] + pending_transfers'[c][x]
            BY <1>4
        <3> QED
            BY <3>1, <3>2, <3>3
    <2> QED
        BY <2>1, <2>2, <2>3
<1>9. ASSUME NEW x \in People
      PROVE  /\ Purse[x] \in Nat /\ Purse'[x] \in Nat /\ Assets[c][x] \in Nat /\ Assets'[c][x] \in Nat
             /\ Purse'[x] + Assets[c][x] = Purse[x] + Assets'[c][x]
    BY <1>3, <1>4, <1>6, PurseStep
<1>10. Purse'[p] = Purse[p] - amount /\ amount <= Purse[p]
    <2>1. Purse'[p] + (Assets'[c][p] + amount) = Purse[p] + Assets'[c][p]
        BY <1>8, <1>9
    <2>2. \A x, y, z, n \in Nat : x + (y + n) = z + y => x = z - n /\ n <= z
        OBVIOUS
    <2> QED
        BY <1>1, <1>9, <2>1, <2>2
<1>11. Purse'[q] = Purse[q] + amount
    <2>1. Purse'[q] + Assets[c][q] = Purse[q] + (Assets[c][q] + amount)
        BY <1>8, <1>9
    <2>2. \A x, y, z, n \in Nat : x + y = z + (y + n) => x = z + n
        OBVIOUS
    <2> QED
        BY <1>1, <1>9, <2>1, <2>2
<1>12. ASSUME NEW x \in People, x # p, x # q PROVE Purse'[x] = Purse[x]
    <2>1. Purse'[x] + Assets[c][x] = Purse[x] + Assets[c][x]
        BY <1>8, <1>9, <1>12
    <2> QED
        BY <1>9, <2>1
<1>13. PICK f : f = Purse
    OBVIOUS
<1>14. PICK g : g = Purse'
    OBVIOUS
<1>15. f = [x \in People |-> f[x]] /\ g = [x \in People |-> g[x]]
    BY <1>13, <1>14, PurseFunction
<1>16. g = [[f EXCEPT ![p] = f[p] - amount] EXCEPT ![q] = f[q] + amount]
    BY <1>10, <1>11, <1>12, <1>13, <1>14, <1>15
<1>17. g = [[f EXCEPT ![p] = @ - amount] EXCEPT ![q] = @ + amount]
    BY <1>2, <1>15, <1>16
<1> QED
    BY <1>2, <1>10, <1>13, <1>14, <1>17 DEF Promise!Give

\* A claim turns what one is owed into what one holds.
LEMMA ClaimStep ==
    ASSUME BridgeInv, BridgeInv', NEW c \in Chains, NEW p \in People, ClaimPending(c, p)
    PROVE  Purse' = Purse
<1>1. Shape /\ Shape'
    BY DEF BridgeInv
<1>2. PICK amount : amount = pending_transfers[c][p]
    OBVIOUS
<1>3. /\ pending_transfers' = [pending_transfers EXCEPT ![c][p] = 0]
      /\ holdings' = [holdings EXCEPT ![c][p] = @ + amount]
    BY <1>2 DEF ClaimPending, Pay
<1>4. holdings \in [Chains -> [People -> Nat]] /\ pending_transfers \in [Chains -> [People -> Nat]]
    BY <1>1 DEF Shape
<1>5. ASSUME NEW e \in Chains, NEW x \in People
      PROVE  holdings'[e][x] + pending_transfers'[e][x] = holdings[e][x] + pending_transfers[e][x]
    <2>1. holdings[e][x] \in Nat /\ pending_transfers[e][x] \in Nat
        BY <1>4
    <2>2. CASE e = c /\ x = p
        <3>1. holdings'[e][x] = holdings[e][x] + pending_transfers[e][x] /\ pending_transfers'[e][x] = 0
            BY <1>2, <1>3, <1>4, <2>2
        <3> QED
            BY <2>1, <3>1
    <2>3. CASE ~(e = c /\ x = p)
        BY <1>3, <1>4, <2>3
    <2> QED
        BY <2>2, <2>3
<1>6. Assets' = Assets
    BY <1>5 DEF Assets
<1>7. \A x \in People : Purse'[x] = Purse[x]
    BY <1>6, PurseIsWorth
<1>8. PICK f : f = Purse
    OBVIOUS
<1>9. PICK g : g = Purse'
    OBVIOUS
<1>10. f = [x \in People |-> f[x]] /\ g = [x \in People |-> g[x]]
    BY <1>8, <1>9, PurseFunction
<1> QED
    BY <1>7, <1>8, <1>9, <1>10

\* Every step of the bridge is one of Remittance, or none.
LEMMA PromiseNext ==
    ASSUME BridgeInv, BridgeInv', [Next]_vars
    PROVE  [Promise!Next]_Promise!vars
<1>1. ASSUME Purse' = Purse, dispatched' = dispatched, delivered' = delivered
      PROVE  UNCHANGED Promise!vars
    BY <1>1 DEF Promise!vars
<1>2. ASSUME holdings' = holdings, pending_transfers' = pending_transfers,
             dispatched' = dispatched, delivered' = delivered
      PROVE  UNCHANGED Promise!vars
    BY <1>1, <1>2, PurseSame
<1>3. ASSUME NEW pair \in Pairs, EnrollRemoteRouter(pair[1], pair[2]) PROVE UNCHANGED Promise!vars
    BY <1>2, <1>3 DEF EnrollRemoteRouter, pending, value, messages
<1>4. ASSUME NEW c \in Chains, NEW a \in Accounts, RegisterAccount(c, a)
      PROVE  UNCHANGED Promise!vars
    BY <1>2, <1>4 DEF RegisterAccount, pending, value, messages
<1>5. ASSUME NEW c \in Chains, NEW d \in Chains, NEW p \in People, NEW r \in People,
             NEW amount \in Amounts, TransferRemote(c, d, p, r, amount)
      PROVE  Promise!Next
    <2>1. Promise!Send(p)
        BY <1>5, SendStep
    <2> QED
        BY <2>1 DEF Promise!Next
<1>6. ASSUME NEW c \in Chains, NEW d \in Chains, NEW r \in Named, NEW amount \in Amounts,
             DispatchOther(c, d, r, amount)
      PROVE  UNCHANGED Promise!vars
    <2>1. /\ Post(c, d, Stranger, r, amount)
          /\ holdings' = holdings /\ pending_transfers' = pending_transfers /\ delivered' = delivered
        BY <1>6 DEF DispatchOther, Post, pending, value
    <2>2. Stranger \in {Route, Stranger} /\ Stranger # Route /\ r \in People /\ Shape /\ Numbered
        BY BridgeAssumption DEF BridgeInv
    <2>3. PICK m : dispatched' = dispatched \cup {m} /\ m.sender = Stranger
        BY <2>1, <2>2, PostStep
    <2>4. {k \in dispatched' : k.sender = Route} = {k \in dispatched : k.sender = Route}
        BY <2>2, <2>3
    <2>5. Purse' = Purse
        BY <2>1, PurseSame
    <2> QED
        BY <2>1, <2>4, <2>5 DEF Promise!vars
<1>7. ASSUME NEW c \in Chains, NEW p \in People, NEW q \in People, NEW amount \in Amounts,
             Transfer(c, p, q, amount)
      PROVE  Promise!Next
    <2>1. Promise!Give(p, q, amount)
        BY <1>7, GiveStep
    <2> QED
        BY <2>1 DEF Promise!Next
<1>8. ASSUME NEW m \in dispatched, Process(m) PROVE Promise!Next
    BY <1>8, ArriveStep DEF Promise!Next
<1>9. ASSUME NEW c \in Chains, NEW p \in People, ClaimPending(c, p) PROVE UNCHANGED Promise!vars
    <2>1. dispatched' = dispatched /\ delivered' = delivered
        BY <1>9 DEF ClaimPending, messages
    <2>2. Purse' = Purse
        BY <1>9, ClaimStep
    <2> QED
        BY <1>1, <2>1, <2>2
<1>10. CASE UNCHANGED vars
    BY <1>2, <1>10 DEF vars, pending, value, messages
<1> QED
    BY <1>3, <1>4, <1>5, <1>6, <1>7, <1>8, <1>9, <1>10 DEF Next

\* Whoever sends parts with exactly the amount, and it reaches exactly its recipient,
\* once, on whatever chain and to hold or to claim.
THEOREM BridgeKeepsPromise == Spec => RemittanceKept
<1>1. Init => Promise!Init
    BY PromiseStart
<1>2. BridgeInv /\ BridgeInv' /\ [Next]_vars => [Promise!Next]_Promise!vars
    BY PromiseNext
<1> QED
    BY <1>1, <1>2, BridgeInvariant, PTL DEF Spec, RemittanceKept, Promise!Spec
=============================================================================
