-------------------- MODULE MatchingEngineLedgerTheorems --------------------
(***************************************************************************)
(* The ledger of MatchingEngine: no share and no cash is created or lost,  *)
(* every open order has locked what it may have to deliver, and what       *)
(* orders have locked is reserved.                                         *)
(*                                                                         *)
(* The laws of conservation are not inductive.  A settlement takes shares  *)
(* and cash from the reserves of its two users, so the reserves must hold  *)
(* what the trades that are still to be settled will take, and these must  *)
(* be covered by what their orders have locked.  LedgerInv says so.        *)
(*                                                                         *)
(* Sums are reasoned about without induction, by what a step does to the   *)
(* summands (the Total lemmas).                                            *)
(***************************************************************************)
EXTENDS MatchingEngineProofs, FiniteSetTheorems

(***************************************************************************)
(* Sums over finite sets.                                                  *)
(***************************************************************************)

\* A part of a finite set is finite.
LEMMA FiniteSubset ==
  ASSUME NEW S, IsFiniteSet(S), NEW T, T \subseteq S
  PROVE  IsFiniteSet(T)
  BY FS_Subset, Zenon

\* The positions between two bounds are finitely many.
LEMMA FiniteInterval == \A a, b \in Int : IsFiniteSet(a..b)
  BY FS_Interval, Zenon

LEMMA IntervalCount == \A n \in Nat : IsFiniteSet(1..n) /\ Cardinality(1..n) = n
  BY FS_Interval

\* The empty set has no elements to count.
LEMMA CountEmpty == IsFiniteSet({}) /\ Cardinality({}) = 0
  BY FS_EmptySet, Zenon

\* One more element counts for one.
LEMMA CountOneMore ==
  ASSUME NEW S, IsFiniteSet(S), NEW x, x \notin S
  PROVE  /\ IsFiniteSet(S \cup {x}) /\ Cardinality(S) \in Nat
         /\ Cardinality(S \cup {x}) = Cardinality(S) + 1
  BY FS_AddElement, FS_CardinalityType, Zenon

\* The units of a finite set can be counted.
LEMMA UnitsFinite ==
  ASSUME NEW S, IsFiniteSet(S), NEW f, \A x \in S : f[x] \in Nat
  PROVE  IsFiniteSet(Units(f, S)) /\ Total(f, S) \in Nat
<1> DEFINE T == {{x} \X (1..f[x]) : x \in S}
           g == [x \in S |-> {x} \X (1..f[x])]
<1>1. g \in Surjection(S, T)
  BY Zenon DEF Surjection
<1>2. IsFiniteSet(T)
  BY <1>1, FS_Surjection, Zenon
<1>3. ASSUME NEW x \in S PROVE IsFiniteSet({x} \X (1..f[x]))
  <2>1. IsFiniteSet(1..f[x])
    BY FS_Interval
  <2>2. IsFiniteSet({x})
    BY FS_Singleton, Zenon
  <2> QED
    BY <2>1, <2>2, FS_Product, Zenon
<1>4. \A U \in T : IsFiniteSet(U)
  BY <1>3, Zenon
<1> HIDE DEF T
<1>5. IsFiniteSet(UNION T)
  BY <1>2, <1>4, FS_UNION, Zenon
<1> QED
  BY <1>5, FS_CardinalityType, Zenon DEF Units, Total, T

\* Nothing adds up to nothing.
LEMMA TotalEmpty == \A f : Total(f, {}) = 0
<1>1. \A f : Units(f, {}) = {}
  BY Zenon DEF Units
<1> QED
  BY <1>1, FS_EmptySet, Zenon DEF Total

\* Zeros add up to zero.
LEMMA TotalZero ==
  ASSUME NEW S, NEW f, \A x \in S : f[x] = 0
  PROVE  Total(f, S) = 0
<1>1. \A x \in S : 1..f[x] = {}
  OBVIOUS
<1>2. Units(f, S) = {}
  BY <1>1, Zenon DEF Units
<1> QED
  BY <1>2, FS_EmptySet, Zenon DEF Total

\* A new member of the set adds its value to the total.
LEMMA TotalAdd ==
  ASSUME NEW S, IsFiniteSet(S), NEW f, NEW y, y \notin S,
         \A x \in S \cup {y} : f[x] \in Nat
  PROVE  Total(f, S \cup {y}) = Total(f, S) + f[y]
<1> DEFINE U == {y} \X (1..f[y])
<1>1. IsFiniteSet(Units(f, S)) /\ Total(f, S) \in Nat
  BY UnitsFinite, Zenon
<1>2. f[y] \in Nat
  BY Zenon
<1>3. IsFiniteSet(U) /\ Cardinality(U) = f[y]
  <2>1. IsFiniteSet(1..f[y]) /\ Cardinality(1..f[y]) = f[y]
    BY <1>2, IntervalCount, Zenon
  <2>2. IsFiniteSet({y}) /\ Cardinality({y}) = 1
    BY FS_Singleton, Zenon
  <2>3. IsFiniteSet(U) /\ Cardinality(U) = Cardinality({y}) * Cardinality(1..f[y])
    BY <2>1, <2>2, FS_Product, Zenon
  <2> QED
    BY <1>2, <2>1, <2>2, <2>3
<1>4. Units(f, S \cup {y}) = Units(f, S) \cup U
  BY Zenon DEF Units
<1>5. Units(f, S) \cap U = {}
  BY DEF Units
<1> HIDE DEF U
<1>6. Cardinality(Units(f, S) \cup U) = Cardinality(Units(f, S)) + Cardinality(U) - Cardinality({})
  BY <1>1, <1>3, <1>5, FS_Union
<1>7. Cardinality({}) = 0
  BY FS_EmptySet, Zenon
<1>8. Cardinality(Units(f, S)) = Total(f, S)
  BY Zenon DEF Total
<1>9. Cardinality(Units(f, S) \cup U) = Total(f, S) + f[y]
  BY <1>1, <1>2, <1>3, <1>6, <1>7, <1>8
<1> QED
  BY <1>4, <1>9, Zenon DEF Total

\* A member of the set contributes its value, and no more than the total.
LEMMA TotalRemove ==
  ASSUME NEW S, IsFiniteSet(S), NEW f, \A x \in S : f[x] \in Nat, NEW y \in S
  PROVE  /\ Total(f, S \ {y}) \in Nat
         /\ Total(f, S) = Total(f, S \ {y}) + f[y]
         /\ f[y] <= Total(f, S)
<1>1. IsFiniteSet(S \ {y})
  BY FS_RemoveElement, Zenon
<1>2. S = (S \ {y}) \cup {y}
  BY Zenon
<1>3. Total(f, S \ {y}) \in Nat
  BY <1>1, UnitsFinite, Zenon
<1>4. Total(f, S) = Total(f, S \ {y}) + f[y]
  BY <1>1, <1>2, TotalAdd
<1> QED
  BY <1>3, <1>4

\* The total depends on the values in the set only.
LEMMA TotalSame ==
  ASSUME NEW S, NEW f, NEW g, \A x \in S : f[x] = g[x]
  PROVE  Total(f, S) = Total(g, S)
<1>1. Units(f, S) = Units(g, S)
  BY Zenon DEF Units
<1> QED
  BY <1>1, Zenon DEF Total

\* Changing the value of one member changes the total by as much.
LEMMA TotalUpdate ==
  ASSUME NEW S, IsFiniteSet(S), NEW f, NEW g, NEW y \in S,
         \A x \in S : f[x] \in Nat /\ g[x] \in Nat,
         \A x \in S : x # y => f[x] = g[x]
  PROVE  Total(g, S) = Total(f, S) - f[y] + g[y]
<1>1. /\ Total(f, S \ {y}) \in Nat /\ Total(f, S) = Total(f, S \ {y}) + f[y]
      /\ Total(g, S) = Total(g, S \ {y}) + g[y]
  BY TotalRemove, Zenon
<1>2. Total(f, S \ {y}) = Total(g, S \ {y})
  BY TotalSame, Zenon
<1> QED
  BY <1>1, <1>2

\* Changing one member of the set, or the value of one member, changes the
\* total by what it contributed and contributes.
LEMMA TotalChange ==
  ASSUME NEW S, NEW T, IsFiniteSet(S), IsFiniteSet(T), NEW f, NEW g, NEW y,
         \A x \in S : f[x] \in Nat, \A x \in T : g[x] \in Nat,
         S \ {y} = T \ {y}, \A x \in S \ {y} : f[x] = g[x]
  PROVE  Total(g, T) = Total(f, S) - (IF y \in S THEN f[y] ELSE 0)
                                   + (IF y \in T THEN g[y] ELSE 0)
<1>1. Total(f, S \ {y}) = Total(g, T \ {y})
  BY TotalSame
<1>2. /\ Total(f, S) \in Nat /\ Total(g, T) \in Nat
  BY UnitsFinite, Zenon
<1>3. y \in S => /\ Total(f, S \ {y}) \in Nat /\ f[y] \in Nat
                 /\ Total(f, S) = Total(f, S \ {y}) + f[y]
  BY TotalRemove
<1>4. y \in T => /\ Total(g, T \ {y}) \in Nat /\ g[y] \in Nat
                 /\ Total(g, T) = Total(g, T \ {y}) + g[y]
  BY TotalRemove
<1>5. y \notin S => Total(f, S \ {y}) = Total(f, S)
  <2>1. y \notin S => S \ {y} = S
    BY Zenon
  <2> QED
    BY <2>1, Zenon
<1>6. y \notin T => Total(g, T \ {y}) = Total(g, T)
  <2>1. y \notin T => T \ {y} = T
    BY Zenon
  <2> QED
    BY <2>1, Zenon
<1> QED
  BY <1>1, <1>2, <1>3, <1>4, <1>5, <1>6

\* g is f with d units moved from x to y, or from x to itself.
MovesUnits(f, g, S, x, y, d) ==
    /\ f \in [S -> Nat] /\ g \in [S -> Nat]
    /\ x \in S /\ y \in S
    /\ d \in Nat /\ d <= f[x]
    /\ \A z \in S : g[z] = f[z] - (IF z = x THEN d ELSE 0) + (IF z = y THEN d ELSE 0)

\* Moving units keeps the total.
LEMMA TotalMove ==
  ASSUME NEW S, IsFiniteSet(S), NEW f, NEW g, NEW x, NEW y, NEW d,
         MovesUnits(f, g, S, x, y, d)
  PROVE  Total(g, S) = Total(f, S)
<1>0. /\ f \in [S -> Nat] /\ g \in [S -> Nat] /\ x \in S /\ y \in S
      /\ d \in Nat /\ d <= f[x]
      /\ \A z \in S : g[z] = f[z] - (IF z = x THEN d ELSE 0) + (IF z = y THEN d ELSE 0)
  BY Zenon DEF MovesUnits
<1> DEFINE h == [f EXCEPT ![x] = @ - d]
<1>1. h \in [S -> Nat] /\ h[x] = f[x] - d /\ \A z \in S : z # x => h[z] = f[z]
  BY <1>0
<1>2. g[y] = h[y] + d /\ \A z \in S : z # y => h[z] = g[z]
  BY <1>0, <1>1
<1> HIDE DEF h
<1>3. Total(h, S) = Total(f, S) - f[x] + h[x]
  BY <1>0, <1>1, TotalUpdate
<1>4. Total(g, S) = Total(h, S) - h[y] + g[y]
  BY <1>0, <1>1, <1>2, TotalUpdate
<1>5. Total(f, S) \in Nat /\ Total(h, S) \in Nat /\ f[x] \in Nat /\ h[x] \in Nat /\ h[y] \in Nat
  BY <1>0, <1>1, UnitsFinite
<1> QED
  BY <1>0, <1>1, <1>2, <1>3, <1>4, <1>5

(***************************************************************************)
(* The inductive invariant.                                                *)
(***************************************************************************)

\* A market BUY freezes all the cash the user has, and the fills may cost more
\* than that.
NoMarketBuys == \A r \in Requests : r.side = "BUY" => r.type = "LIMIT"

\* Balances and BUY orders belong to users with an account.
AccountsOpened ==
    /\ granted \subseteq accounts
    /\ \A u \in Users \ accounts : cashAvailable[u] = 0 /\ cashReserved[u] = 0
    /\ \A id \in OrderIds :
          Exists(id) /\ orders[id].side = "BUY" => orders[id].user \in accounts

\* Without market BUYs among the requests there are none among the orders.
BuysLimited ==
    NoMarketBuys => \A id \in OrderIds :
        Exists(id) /\ orders[id].side = "BUY" => orders[id].type = "LIMIT"

\* The two orders of a trade, by side.
BuyOrder(t) == IF orders[t.taker].side = "BUY" THEN t.taker ELSE t.maker

SellOrder(t) == IF orders[t.taker].side = "BUY" THEN t.maker ELSE t.taker

\* A trade names the users, event and outcome of its two orders.
OfOrders(t) ==
    /\ t.taker # t.maker
    /\ Exists(t.taker) /\ Exists(t.maker)
    /\ orders[BuyOrder(t)].side = "BUY"
    /\ orders[BuyOrder(t)].user = t.buyer
    /\ orders[SellOrder(t)].side = "SELL"
    /\ PositionKey(orders[SellOrder(t)]) = <<t.seller, t.event, t.outcome>>

\* The trades of worker p that settleTradeLocked has still to settle.
Unsettled(p) == (at[p] + 1)..Len(trades[p])

TradesOfOrders ==
    \A p \in Partitions : mu = p =>
        \A i \in Unsettled(p) : OfOrders(trades[p][i])

\* What settling t takes from the locked funds of order id.
Owed(id, t) ==
    IF id \notin {t.taker, t.maker} THEN 0
    ELSE IF orders[id].side = "BUY" THEN t.quantity * t.price ELSE t.quantity

\* What the trades of the match under way will take from it.
DueIn(p, id) ==
    Total([i \in 1..Len(trades[p]) |-> Owed(id, trades[p][i])], Unsettled(p))

Due(id) == IF mu = Unlocked THEN 0 ELSE DueIn(mu, id)

\* Order o has locked what is due and, unless it is canceled, what it may
\* still have to deliver: exactly that for a SELL, at least that for a limit BUY.
Covers(o, due) ==
    IF o.side = "SELL"
    THEN /\ o.locked >= due
         /\ o.status # "CANCELED" => o.locked = o.remaining + due
    ELSE o.type = "LIMIT" =>
         /\ o.locked >= due
         /\ o.status # "CANCELED" => o.locked >= o.remaining * o.price + due

LocksCover == \A id \in OrderIds : Exists(id) => Covers(orders[id], Due(id))

\* What orders have locked is within what their users have reserved.
SharesBacked == \A k \in PositionKeys : LockedShares(k) <= sharesReserved[k]

CashBacked == \A u \in Users : LockedCash(u) <= cashReserved[u]

\* The part of the invariant that is about the balances.
BalancesSound ==
    /\ AccountsOpened
    /\ BuysLimited
    /\ SharesBacked
    /\ SharesConserved
    /\ NoMarketBuys => CashBacked /\ CashConserved

\* The inductive invariant of the ledger.
LedgerInv ==
    /\ BalancesSound
    /\ TradesOfOrders
    /\ LocksCover

(***************************************************************************)
(* How a step changes the sums.                                            *)
(***************************************************************************)

\* The orders that lock cash of u, and those that lock shares of k.
CashOrders(u) ==
    {id \in OrderIds : Exists(id) /\ orders[id].side = "BUY" /\ orders[id].user = u}

ShareOrders(k) ==
    {id \in OrderIds : Exists(id) /\ orders[id].side = "SELL"
                         /\ PositionKey(orders[id]) = k}

Locks == [id \in OrderIds |-> orders[id].locked]

\* What order x contributes to the locked cash of u and to the locked shares
\* of k.
CashClaim(x, u) == IF x \in CashOrders(u) THEN orders[x].locked ELSE 0

ShareClaim(x, k) == IF x \in ShareOrders(k) THEN orders[x].locked ELSE 0

\* What orders have locked can be counted, and each is a part of the total.
LocksCounted ==
    /\ \A u : /\ IsFiniteSet(CashOrders(u))
              /\ \A x \in CashOrders(u) : Locks[x] \in Nat
              /\ LockedCash(u) = Total(Locks, CashOrders(u))
              /\ LockedCash(u) \in Nat
              /\ \A x \in CashOrders(u) : orders[x].locked <= LockedCash(u)
    /\ \A k : /\ IsFiniteSet(ShareOrders(k))
              /\ \A x \in ShareOrders(k) : Locks[x] \in Nat
              /\ LockedShares(k) = Total(Locks, ShareOrders(k))
              /\ LockedShares(k) \in Nat
              /\ \A x \in ShareOrders(k) : orders[x].locked <= LockedShares(k)

\* The locked funds of well-formed orders can be counted.
LEMMA LockedType == TypeOK => LocksCounted
<1> HAVE TypeOK
<1>1. \A x \in OrderIds : Exists(x) => orders[x].locked \in Nat
  BY Zenon DEF TypeOK, Order, Exists
<1>2. ASSUME NEW u
      PROVE  /\ IsFiniteSet(CashOrders(u))
             /\ \A x \in CashOrders(u) : Locks[x] = orders[x].locked /\ Locks[x] \in Nat
             /\ LockedCash(u) = Total(Locks, CashOrders(u))
  <2>1. CashOrders(u) \in SUBSET OrderIds
    BY Zenon DEF CashOrders
  <2>2. IsFiniteSet(CashOrders(u))
    BY <2>1, FiniteAssumption, FiniteSubset, Zenon
  <2>3. \A x \in CashOrders(u) : Locks[x] = orders[x].locked /\ Locks[x] \in Nat
    BY <1>1, Zenon DEF CashOrders, Locks
  <2>4. LockedCash(u) = Total(Locks, CashOrders(u))
    BY Zenon DEF LockedCash, CashOrders, Locks
  <2> QED
    BY <2>2, <2>3, <2>4, Zenon
<1>3. ASSUME NEW k
      PROVE  /\ IsFiniteSet(ShareOrders(k))
             /\ \A x \in ShareOrders(k) : Locks[x] = orders[x].locked /\ Locks[x] \in Nat
             /\ LockedShares(k) = Total(Locks, ShareOrders(k))
  <2>1. ShareOrders(k) \in SUBSET OrderIds
    BY Zenon DEF ShareOrders
  <2>2. IsFiniteSet(ShareOrders(k))
    BY <2>1, FiniteAssumption, FiniteSubset, Zenon
  <2>3. \A x \in ShareOrders(k) : Locks[x] = orders[x].locked /\ Locks[x] \in Nat
    BY <1>1, Zenon DEF ShareOrders, Locks
  <2>4. LockedShares(k) = Total(Locks, ShareOrders(k))
    BY Zenon DEF LockedShares, ShareOrders, Locks
  <2> QED
    BY <2>2, <2>3, <2>4, Zenon
<1>4. ASSUME NEW S, IsFiniteSet(S), \A x \in S : Locks[x] = orders[x].locked /\ Locks[x] \in Nat
      PROVE  Total(Locks, S) \in Nat /\ \A x \in S : orders[x].locked <= Total(Locks, S)
  BY <1>4, UnitsFinite, TotalRemove, Zenon
<1> QED
  BY <1>2, <1>3, <1>4 DEF LocksCounted

\* LockedType in both states of a step.
LEMMA LockedBeforeAfter == TypeOK /\ TypeOK' => LocksCounted /\ LocksCounted'
  BY LockedType, PTL

\* A step that changes order x, and others only in ways that the locked cash
\* of u does not depend on.
LEMMA LockedCashChange ==
  ASSUME TypeOK, TypeOK', NEW u, NEW x \in OrderIds,
         \A y \in OrderIds \ {x} :
            /\ y \in CashOrders(u)' <=> y \in CashOrders(u)
            /\ y \in CashOrders(u) => orders'[y].locked = orders[y].locked
  PROVE  LockedCash(u)' = LockedCash(u) - CashClaim(x, u) + CashClaim(x, u)'
<1> DEFINE S == CashOrders(u)
           T == CashOrders(u)'
           f == Locks
           g == Locks'
<1>0. LocksCounted /\ LocksCounted'
  BY LockedBeforeAfter, Zenon
<1>1. /\ IsFiniteSet(S) /\ \A y \in S : f[y] \in Nat
      /\ LockedCash(u) = Total(f, S)
  BY <1>0, Zenon DEF LocksCounted
<1>2. /\ IsFiniteSet(T) /\ \A y \in T : g[y] \in Nat
      /\ LockedCash(u)' = Total(g, T)
  BY <1>0, Zenon DEF LocksCounted
<1>3. S \subseteq OrderIds /\ T \subseteq OrderIds
  BY Zenon DEF CashOrders
<1>4. f[x] = orders[x].locked /\ g[x] = orders'[x].locked
  BY Zenon DEF Locks
<1>5. \A y \in S \ {x} : f[y] = g[y]
  BY <1>3, Zenon DEF Locks
<1>6. S \ {x} = T \ {x}
  BY <1>3, Zenon
<1>7. /\ CashClaim(x, u) = IF x \in S THEN f[x] ELSE 0
      /\ CashClaim(x, u)' = IF x \in T THEN g[x] ELSE 0
  BY <1>4, Zenon DEF CashClaim
<1> HIDE DEF S, T, f, g
<1>8. Total(g, T) = Total(f, S) - (IF x \in S THEN f[x] ELSE 0) + (IF x \in T THEN g[x] ELSE 0)
  BY <1>1, <1>2, <1>5, <1>6, TotalChange
<1> QED
  BY <1>1, <1>2, <1>7, <1>8, Zenon

\* The same for the locked shares of k.
LEMMA LockedSharesChange ==
  ASSUME TypeOK, TypeOK', NEW k, NEW x \in OrderIds,
         \A y \in OrderIds \ {x} :
            /\ y \in ShareOrders(k)' <=> y \in ShareOrders(k)
            /\ y \in ShareOrders(k) => orders'[y].locked = orders[y].locked
  PROVE  LockedShares(k)' = LockedShares(k) - ShareClaim(x, k) + ShareClaim(x, k)'
<1> DEFINE S == ShareOrders(k)
           T == ShareOrders(k)'
           f == Locks
           g == Locks'
<1>0. LocksCounted /\ LocksCounted'
  BY LockedBeforeAfter, Zenon
<1>1. /\ IsFiniteSet(S) /\ \A y \in S : f[y] \in Nat
      /\ LockedShares(k) = Total(f, S)
  BY <1>0, Zenon DEF LocksCounted
<1>2. /\ IsFiniteSet(T) /\ \A y \in T : g[y] \in Nat
      /\ LockedShares(k)' = Total(g, T)
  BY <1>0, Zenon DEF LocksCounted
<1>3. S \subseteq OrderIds /\ T \subseteq OrderIds
  BY Zenon DEF ShareOrders
<1>4. f[x] = orders[x].locked /\ g[x] = orders'[x].locked
  BY Zenon DEF Locks
<1>5. \A y \in S \ {x} : f[y] = g[y]
  BY <1>3, Zenon DEF Locks
<1>6. S \ {x} = T \ {x}
  BY <1>3, Zenon
<1>7. /\ ShareClaim(x, k) = IF x \in S THEN f[x] ELSE 0
      /\ ShareClaim(x, k)' = IF x \in T THEN g[x] ELSE 0
  BY <1>4, Zenon DEF ShareClaim
<1> HIDE DEF S, T, f, g
<1>8. Total(g, T) = Total(f, S) - (IF x \in S THEN f[x] ELSE 0) + (IF x \in T THEN g[x] ELSE 0)
  BY <1>1, <1>2, <1>5, <1>6, TotalChange
<1> QED
  BY <1>1, <1>2, <1>7, <1>8, Zenon

\* The step leaves alone what order x is for and the funds it has locked.
SameFunds(x) ==
    /\ Exists(x)' <=> Exists(x)
    /\ Exists(x) => /\ orders'[x].user = orders[x].user
                    /\ PositionKey(orders[x])' = PositionKey(orders[x])
                    /\ orders'[x].side = orders[x].side
                    /\ orders'[x].type = orders[x].type
                    /\ orders'[x].price = orders[x].price
                    /\ orders'[x].locked = orders[x].locked

\* The locked totals change with the locked funds only.
LEMMA LockedSame ==
  ASSUME TypeOK, TypeOK', \A x \in OrderIds : SameFunds(x)
  PROVE  /\ \A u : LockedCash(u)' = LockedCash(u)
         /\ \A k : LockedShares(k)' = LockedShares(k)
<1>0. LocksCounted /\ LocksCounted'
  BY LockedBeforeAfter, Zenon
<1>1. ASSUME NEW u PROVE LockedCash(u)' = LockedCash(u)
  <2>1. CashOrders(u)' = CashOrders(u)
    BY Zenon DEF CashOrders, SameFunds
  <2>2. \A x \in CashOrders(u) : Locks'[x] = Locks[x]
    BY Zenon DEF CashOrders, SameFunds, Locks
  <2>3. Total(Locks', CashOrders(u)) = Total(Locks, CashOrders(u))
    BY <2>2, TotalSame, Zenon
  <2>4. LockedCash(u) = Total(Locks, CashOrders(u))
    BY <1>0, Zenon DEF LocksCounted
  <2>5. LockedCash(u)' = Total(Locks', CashOrders(u)')
    BY <1>0, Zenon DEF LocksCounted
  <2> QED
    BY <2>1, <2>3, <2>4, <2>5, Zenon
<1>2. ASSUME NEW k PROVE LockedShares(k)' = LockedShares(k)
  <2>1. ShareOrders(k)' = ShareOrders(k)
    BY Zenon DEF ShareOrders, SameFunds
  <2>2. \A x \in ShareOrders(k) : Locks'[x] = Locks[x]
    BY Zenon DEF ShareOrders, SameFunds, Locks
  <2>3. Total(Locks', ShareOrders(k)) = Total(Locks, ShareOrders(k))
    BY <2>2, TotalSame, Zenon
  <2>4. LockedShares(k) = Total(Locks, ShareOrders(k))
    BY <1>0, Zenon DEF LocksCounted
  <2>5. LockedShares(k)' = Total(Locks', ShareOrders(k)')
    BY <1>0, Zenon DEF LocksCounted
  <2> QED
    BY <2>1, <2>3, <2>4, <2>5, Zenon
<1> QED
  BY <1>1, <1>2, Zenon

\* A step that touches no balance and no locked funds keeps it.
LEMMA BalancesFrame ==
  ASSUME TypeOK, TypeOK', BalancesSound, accounts \subseteq accounts',
         UNCHANGED <<cashAvailable, cashReserved, sharesAvailable, sharesReserved, granted>>,
         \A x \in OrderIds : SameFunds(x)
  PROVE  BalancesSound'
<1>1. AccountsOpened'
  BY Zenon DEF BalancesSound, AccountsOpened, SameFunds
<1>2. BuysLimited'
  BY Zenon DEF BalancesSound, BuysLimited, SameFunds, NoMarketBuys
<1>3. SharesBacked'
  BY LockedSame, Zenon DEF BalancesSound, SharesBacked
<1>4. SharesConserved'
  BY Zenon DEF BalancesSound, SharesConserved
<1>5. ASSUME NoMarketBuys PROVE CashBacked' /\ CashConserved'
  <2>1. CashBacked'
    BY <1>5, LockedSame, Zenon DEF BalancesSound, CashBacked
  <2>2. CashConserved'
    BY <1>5, Zenon DEF BalancesSound, CashConserved
  <2> QED
    BY <2>1, <2>2, Zenon
<1> QED
  BY <1>1, <1>2, <1>3, <1>4, <1>5, Zenon DEF BalancesSound, NoMarketBuys

\* What the trades still to be settled will take from an order's locked funds
\* depends on these trades and the order's side.
LEMMA DueSame ==
  ASSUME NEW p, NEW id, trades'[p] = trades[p], at'[p] = at[p],
         orders'[id].side = orders[id].side
  PROVE  DueIn(p, id)' = DueIn(p, id)
  BY Zenon DEF DueIn, Owed, Unsettled

\* No trades, nothing due.
LEMMA DueOfNone ==
  ASSUME NEW p, NEW id, Unsettled(p) = {}
  PROVE  DueIn(p, id) = 0
  BY TotalEmpty, Zenon DEF DueIn

\* What settling a trade takes from an order is a natural number.
LEMMA OwedType == \A id, t : t \in Trade => Owed(id, t) \in Nat
<1>1. \A t \in Trade : t.quantity \in Nat /\ t.quantity * t.price \in Nat
  BY SMTT(30) DEF Trade
<1> QED
  BY <1>1, Zenon DEF Owed

\* The two parts of the invariant that say that locked funds suffice for the
\* trades: a step that leaves them, their orders and e.mu alone keeps them.
LEMMA CoverFrame ==
  ASSUME TypeOK, TradesOfOrders, LocksCover,
         UNCHANGED <<orders, mu>>,
         \A q \in Partitions : mu = q => trades'[q] = trades[q] /\ at'[q] = at[q]
  PROVE  TradesOfOrders' /\ LocksCover'
<1>0. \A t : OfOrders(t)' <=> OfOrders(t)
  BY Zenon DEF OfOrders, BuyOrder, SellOrder, Exists, PositionKey
<1>1. TradesOfOrders'
  <2> SUFFICES ASSUME NEW q \in Partitions, mu = q, NEW i \in Unsettled(q)'
               PROVE  OfOrders(trades[q][i])'
    BY Zenon DEF TradesOfOrders
  <2>1. i \in Unsettled(q) /\ trades'[q] = trades[q]
    BY Zenon DEF Unsettled
  <2>2. PICK t : t = trades[q][i]
    BY Zenon
  <2>3. OfOrders(t)
    BY <2>1, <2>2, Zenon DEF TradesOfOrders
  <2>4. OfOrders(t)'
    BY <1>0, <2>3, Zenon
  <2> QED
    BY <2>1, <2>2, <2>4, Zenon DEF OfOrders, BuyOrder, SellOrder
<1>2. ASSUME NEW x \in OrderIds PROVE Due(x)' = Due(x)
  <2>1. CASE mu = Unlocked
    BY <2>1, Zenon DEF Due
  <2>2. CASE mu # Unlocked
    <3>1. mu \in Partitions
      BY <2>2, Zenon DEF TypeOK
    <3>2. trades'[mu] = trades[mu] /\ at'[mu] = at[mu]
      BY <3>1, Zenon
    <3>3. PICK q : q = mu
      BY Zenon
    <3>4. DueIn(q, x)' = DueIn(q, x)
      BY <3>2, <3>3, DueSame, Zenon
    <3> QED
      BY <2>2, <3>3, <3>4, Zenon DEF Due
  <2> QED
    BY <2>1, <2>2, Zenon
<1>3. LocksCover'
  BY <1>2, Zenon DEF LocksCover, Exists
<1> QED
  BY <1>1, <1>3, Zenon

(***************************************************************************)
(* LedgerInv is inductive: the initial states, then the actions.           *)
(***************************************************************************)

\* A step that changes no order, no balance and not the match under way.
LEMMA QuietStep ==
  ASSUME TypeOK, TypeOK', LedgerInv, accounts \subseteq accounts',
         UNCHANGED <<orders, cashAvailable, cashReserved, sharesAvailable,
                     sharesReserved, granted, mu>>,
         \A q \in Partitions : mu = q => trades'[q] = trades[q] /\ at'[q] = at[q]
  PROVE  LedgerInv'
<1>1. \A x \in OrderIds : SameFunds(x)
  BY Zenon DEF SameFunds, Exists
<1>2. BalancesSound'
  BY <1>1, BalancesFrame, Zenon DEF LedgerInv
<1>3. TradesOfOrders' /\ LocksCover'
  BY CoverFrame, Zenon DEF LedgerInv
<1> QED
  BY <1>2, <1>3, Zenon DEF LedgerInv

\* Opening a market, rejecting an order, the emissions, the early return for
\* a canceled order and the reply are such steps.
LEMMA QuietSteps ==
  ASSUME Consistent, Consistent', LedgerInv, NEW p \in Partitions,
         \/ \E e \in Events : handleCreateEvent(p, e)
         \/ \E id \in OrderIds, r \in Requests : RejectUnfundedBuy(p, id, r)
         \/ EmitOrderCreated(p) \/ SkipCanceled(p) \/ publishTrade(p)
         \/ FinishOrder(p) \/ EmitOrderCanceled(p)
  PROVE  LedgerInv'
<1>1. /\ accounts \subseteq accounts'
      /\ UNCHANGED <<orders, cashAvailable, cashReserved, sharesAvailable,
                     sharesReserved, granted, mu>>
  BY Zenon DEF handleCreateEvent, RejectUnfundedBuy, EmitOrderCreated, SkipCanceled,
        publishTrade, FinishOrder, EmitOrderCanceled, ledgerVars, workerVars
<1>2. TypeOK /\ TypeOK'
  BY Zenon DEF Consistent
<1>3. ASSUME NEW q \in Partitions, mu = q
      PROVE  trades'[q] = trades[q] /\ at'[q] = at[q]
  <2>1. CASE UNCHANGED <<trades, at>>
    BY <2>1, Zenon
  <2>2. CASE pc[p] = "publishing" /\ \E n, s : trades' = [trades EXCEPT ![p] = s]
                                              /\ at' = [at EXCEPT ![p] = n]
    <3>1. q # p
      BY <1>3, <2>2, Zenon DEF Consistent, WorkersConsistent
    <3> QED
      BY <2>2, <3>1, <1>2, Zenon DEF TypeOK
  <2>3. \/ UNCHANGED <<trades, at>>
        \/ pc[p] = "publishing" /\ \E n, s : trades' = [trades EXCEPT ![p] = s]
                                           /\ at' = [at EXCEPT ![p] = n]
    <3>1. publishTrade(p) => trades' = [trades EXCEPT ![p] = trades[p]]
      BY <1>2, Zenon DEF publishTrade, TypeOK
    <3> QED
      BY <3>1, Zenon DEF handleCreateEvent, RejectUnfundedBuy, EmitOrderCreated, SkipCanceled,
        publishTrade, FinishOrder, EmitOrderCanceled, workerVars
  <2> QED
    BY <2>1, <2>2, <2>3, Zenon
<1> QED
  BY <1>1, <1>2, <1>3, QuietStep, Zenon

\* Before the first command nothing is locked, granted or moved.
LEMMA InitLedger == Init => LedgerInv
<1> SUFFICES ASSUME Init PROVE LedgerInv
  BY Zenon
<1>0. TypeOK
  BY InitConsistent, Zenon DEF Consistent
<1>1. \A x \in OrderIds : ~Exists(x)
  BY Zenon DEF Init, Exists
<1>2. AccountsOpened /\ BuysLimited
  BY <1>1, Zenon DEF AccountsOpened, BuysLimited, Init
<1>3. TradesOfOrders
  BY ConstantsAssumption, Zenon DEF TradesOfOrders, Init
<1>4. LocksCover
  BY <1>1, Zenon DEF LocksCover
<1>5. SharesBacked
  <2>1. ASSUME NEW k \in PositionKeys PROVE LockedShares(k) = 0 /\ sharesReserved[k] = 0
    <3>1. ShareOrders(k) = {}
      BY <1>1, Zenon DEF ShareOrders
    <3>2. LockedShares(k) = 0
      BY <1>0, <3>1, LockedType, TotalEmpty, Zenon DEF LocksCounted
    <3> QED
      BY <3>2, Zenon DEF Init
  <2> QED
    BY <2>1 DEF SharesBacked
<1>6. SharesConserved
  <2> SUFFICES ASSUME NEW e \in Events, NEW out \in Outcomes
               PROVE  Total([u \in Users |-> sharesAvailable[<<u, e, out>>]
                                              + sharesReserved[<<u, e, out>>]], Users)
                        = Total([u \in Users |-> SeedShares[<<u, e, out>>]], Users)
    BY Zenon DEF SharesConserved
  <2>1. \A u \in Users : <<u, e, out>> \in PositionKeys
    BY Zenon DEF PositionKeys
  <2>2. \A k \in PositionKeys : /\ sharesAvailable[k] = SeedShares[k]
                                /\ sharesReserved[k] = 0
                                /\ SeedShares[k] \in Nat
    BY ConstantsAssumption, Zenon DEF Init
  <2>3. \A u \in Users : sharesAvailable[<<u, e, out>>] + sharesReserved[<<u, e, out>>]
                           = SeedShares[<<u, e, out>>]
    BY <2>1, <2>2
  <2> QED
    BY <2>3, TotalSame, Zenon
<1>7. CashBacked
  <2>1. ASSUME NEW u \in Users PROVE LockedCash(u) = 0 /\ cashReserved[u] = 0
    <3>1. CashOrders(u) = {}
      BY <1>1, Zenon DEF CashOrders
    <3>2. LockedCash(u) = 0
      BY <1>0, <3>1, LockedType, TotalEmpty, Zenon DEF LocksCounted
    <3> QED
      BY <3>2, Zenon DEF Init
  <2> QED
    BY <2>1 DEF CashBacked
<1>8. CashConserved
  <2>1. \A u \in Users : cashAvailable[u] + cashReserved[u] = 0
    BY DEF Init
  <2>2. Total([u \in Users |-> cashAvailable[u] + cashReserved[u]], Users) = 0
    BY <2>1, TotalZero, Zenon
  <2>3. Cardinality(granted) = 0
    BY CountEmpty, Zenon DEF Init
  <2> QED
    BY <2>2, <2>3, ConstantsAssumption DEF CashConserved
<1> QED
  BY <1>2, <1>3, <1>4, <1>5, <1>6, <1>7, <1>8 DEF LedgerInv, BalancesSound

\* Locking e.mu: the match starts without trades.
LEMMA StartMatchLedger ==
  ASSUME Consistent, Consistent', LedgerInv, NEW p \in Partitions, StartMatch(p)
  PROVE  LedgerInv'
<1>1. /\ mu = Unlocked /\ mu' = p /\ pc[p] = "waiting"
      /\ UNCHANGED <<orders, trades, at, accounts, cashAvailable, cashReserved,
                     sharesAvailable, sharesReserved, granted>>
  BY Zenon DEF StartMatch, ledgerVars
<1>2. TypeOK /\ TypeOK'
  BY Zenon DEF Consistent
<1>3. \A x \in OrderIds : SameFunds(x)
  BY <1>1, Zenon DEF SameFunds, Exists
<1>4. BalancesSound'
  BY <1>1, <1>2, <1>3, BalancesFrame, Zenon DEF LedgerInv
<1>5. Unsettled(p)' = {}
  <2>1. trades[p] = <<>> /\ at[p] \in Nat
    BY <1>1, Zenon DEF Consistent, WorkersConsistent, TypeOK
  <2> QED
    BY <1>1, <2>1 DEF Unsettled
<1>6. TradesOfOrders'
  BY <1>1, <1>5, Zenon DEF TradesOfOrders
<1>7. \A x \in OrderIds : Due(x) = 0 /\ Due(x)' = 0
  <2>1. \A x \in OrderIds : DueIn(p, x)' = 0
    BY <1>5, TotalEmpty, Zenon DEF DueIn
  <2>2. p # Unlocked
    BY ConstantsAssumption, Zenon
  <2> QED
    BY <1>1, <2>1, <2>2, Zenon DEF Due
<1>8. LocksCover'
  BY <1>1, <1>7, Zenon DEF LedgerInv, LocksCover, Exists
<1> QED
  BY <1>4, <1>6, <1>8, Zenon DEF LedgerInv

\* The starting grant goes to a user without an account, who has nothing.
LEMMA UserCreatedLedger ==
  ASSUME Consistent, Consistent', LedgerInv, NEW p \in Partitions,
         NEW u \in Users, handleUserCreated(p, u)
  PROVE  LedgerInv'
<1>1. /\ u \notin accounts /\ accounts' = accounts \cup {u}
      /\ cashAvailable' = [cashAvailable EXCEPT ![u] = StartingBalance]
      /\ granted' = granted \cup {u}
      /\ UNCHANGED <<orders, cashReserved, sharesAvailable, sharesReserved, mu, trades, at>>
  BY Zenon DEF handleUserCreated, workerVars
<1>2. TypeOK /\ TypeOK'
  BY Zenon DEF Consistent
<1>3. \A x \in OrderIds : SameFunds(x)
  BY <1>1, Zenon DEF SameFunds, Exists
<1>4. cashAvailable[u] = 0 /\ cashReserved[u] = 0 /\ u \notin granted
  BY <1>1, Zenon DEF LedgerInv, BalancesSound, AccountsOpened
<1>5. AccountsOpened'
  <2>1. \A v \in Users \ accounts' : cashAvailable'[v] = cashAvailable[v]
    BY <1>1, <1>2, Zenon DEF TypeOK
  <2> QED
    BY <1>1, <2>1, Zenon DEF LedgerInv, BalancesSound, AccountsOpened, Exists
<1>6. BuysLimited'
  BY <1>1, Zenon DEF LedgerInv, BalancesSound, BuysLimited, NoMarketBuys, Exists
<1>7. SharesBacked' /\ SharesConserved'
  BY <1>1, <1>2, <1>3, LockedSame, Zenon
     DEF LedgerInv, BalancesSound, SharesBacked, SharesConserved
<1>8. ASSUME NoMarketBuys PROVE CashBacked' /\ CashConserved'
  <2>1. CashBacked'
    BY <1>1, <1>2, <1>3, <1>8, LockedSame, Zenon DEF LedgerInv, BalancesSound, CashBacked
  <2> DEFINE f == [v \in Users |-> cashAvailable[v] + cashReserved[v]]
             g == [v \in Users |-> cashAvailable'[v] + cashReserved'[v]]
  <2>2. \A v \in Users : f[v] \in Nat /\ g[v] \in Nat
    <3>1. \A v \in Users : /\ cashAvailable[v] \in Nat /\ cashReserved[v] \in Nat
                           /\ cashAvailable'[v] \in Nat /\ cashReserved'[v] \in Nat
      BY <1>2, Zenon DEF TypeOK
    <3> QED
      BY <3>1
  <2>3. f[u] = 0 /\ g[u] = StartingBalance /\ \A v \in Users : v # u => f[v] = g[v]
    BY <1>1, <1>2, <1>4, ConstantsAssumption DEF TypeOK
  <2>4. Total(f, Users) = StartingBalance * Cardinality(granted)
    BY <1>8, Zenon DEF LedgerInv, BalancesSound, CashConserved
  <2>5. CashConserved' <=> Total(g, Users) = StartingBalance * Cardinality(granted')
    BY Zenon DEF CashConserved
  <2> HIDE DEF f, g
  <2>6. Total(g, Users) = Total(f, Users) - 0 + StartingBalance
    BY <2>2, <2>3, FiniteAssumption, TotalUpdate
  <2>7. IsFiniteSet(granted)
    BY <1>2, FiniteAssumption, FiniteSubset, Zenon DEF TypeOK
  <2>8. Cardinality(granted) \in Nat /\ Cardinality(granted') = Cardinality(granted) + 1
    BY <1>1, <1>4, <2>7, CountOneMore
  <2>9. StartingBalance * (Cardinality(granted) + 1)
           = StartingBalance * Cardinality(granted) + StartingBalance
    BY <2>8, ConstantsAssumption
  <2>10. StartingBalance * Cardinality(granted) \in Nat
    BY <2>8, ConstantsAssumption
  <2>11. CashConserved'
    BY <2>4, <2>5, <2>6, <2>8, <2>9, <2>10, ConstantsAssumption
  <2> QED
    BY <2>1, <2>11, Zenon
<1>9. TradesOfOrders' /\ LocksCover'
  BY <1>1, <1>2, CoverFrame, Zenon DEF LedgerInv
<1> QED
  BY <1>5, <1>6, <1>7, <1>8, <1>9, Zenon DEF LedgerInv, BalancesSound, NoMarketBuys

(***************************************************************************)
(* The steps that store an order, or that leave orders and trades alone.   *)
(***************************************************************************)

\* The claims of an order that stays as it is.
LEMMA SameOrderSameClaims ==
  ASSUME NEW y \in OrderIds, orders'[y] = orders[y]
  PROVE  /\ \A u : y \in CashOrders(u)' <=> y \in CashOrders(u)
         /\ \A k : y \in ShareOrders(k)' <=> y \in ShareOrders(k)
         /\ orders'[y].locked = orders[y].locked
  BY Zenon DEF CashOrders, ShareOrders, Exists, PositionKey

\* A step that changes order x only, and moves between what users have
\* available and reserved at least as much as it changes x's locked funds.
LEMMA OneOrderStep ==
  ASSUME TypeOK, TypeOK', BalancesSound, AccountsOpened', BuysLimited',
         NEW x \in OrderIds, \A y \in OrderIds : y # x => orders'[y] = orders[y],
         UNCHANGED granted,
         \A k \in PositionKeys :
            /\ sharesAvailable'[k] + sharesReserved'[k] = sharesAvailable[k] + sharesReserved[k]
            /\ ShareClaim(x, k)' - ShareClaim(x, k) <= sharesReserved'[k] - sharesReserved[k],
         NoMarketBuys => \A u \in Users :
            /\ cashAvailable'[u] + cashReserved'[u] = cashAvailable[u] + cashReserved[u]
            /\ CashClaim(x, u)' - CashClaim(x, u) <= cashReserved'[u] - cashReserved[u]
  PROVE  BalancesSound'
<1>0. LocksCounted /\ LocksCounted'
  BY LockedBeforeAfter, Zenon
<1>1. SharesBacked'
  <2> SUFFICES ASSUME NEW k \in PositionKeys PROVE LockedShares(k)' <= sharesReserved'[k]
    BY Zenon DEF SharesBacked
  <2>1. LockedShares(k)' = LockedShares(k) - ShareClaim(x, k) + ShareClaim(x, k)'
    BY SameOrderSameClaims, LockedSharesChange, Zenon
  <2>2. LockedShares(k) <= sharesReserved[k]
    BY Zenon DEF BalancesSound, SharesBacked
  <2>3. LockedShares(k) \in Nat
    BY <1>0, Zenon DEF LocksCounted
  <2>4. sharesReserved[k] \in Nat /\ sharesReserved'[k] \in Nat
    BY Zenon DEF TypeOK
  <2>5. ShareClaim(x, k) \in Nat
    BY Zenon DEF ShareClaim, ShareOrders, TypeOK, Exists, Order
  <2>6. ShareClaim(x, k)' \in Nat
    BY Zenon DEF ShareClaim, ShareOrders, TypeOK, Exists, Order
  <2> QED
    BY <2>1, <2>2, <2>3, <2>4, <2>5, <2>6
<1>2. SharesConserved'
  <2> SUFFICES ASSUME NEW e \in Events, NEW out \in Outcomes
               PROVE  Total([u \in Users |-> sharesAvailable'[<<u, e, out>>]
                                              + sharesReserved'[<<u, e, out>>]], Users)
                        = Total([u \in Users |-> SeedShares[<<u, e, out>>]], Users)
    BY Zenon DEF SharesConserved
  <2>1. \A u \in Users : <<u, e, out>> \in PositionKeys
    BY Zenon DEF PositionKeys
  <2>2. \A u \in Users :
          sharesAvailable'[<<u, e, out>>] + sharesReserved'[<<u, e, out>>]
            = sharesAvailable[<<u, e, out>>] + sharesReserved[<<u, e, out>>]
    BY <2>1, Zenon
  <2>3. Total([u \in Users |-> sharesAvailable'[<<u, e, out>>]
                                 + sharesReserved'[<<u, e, out>>]], Users)
          = Total([u \in Users |-> sharesAvailable[<<u, e, out>>]
                                     + sharesReserved[<<u, e, out>>]], Users)
    BY <2>2, TotalSame, Zenon
  <2> QED
    BY <2>3, Zenon DEF BalancesSound, SharesConserved
<1>3. ASSUME NoMarketBuys PROVE CashBacked' /\ CashConserved'
  <2>1. ASSUME NEW u \in Users PROVE LockedCash(u)' <= cashReserved'[u]
    <3>1. LockedCash(u)' = LockedCash(u) - CashClaim(x, u) + CashClaim(x, u)'
      BY SameOrderSameClaims, LockedCashChange, Zenon
    <3>2. LockedCash(u) <= cashReserved[u]
      BY <1>3, Zenon DEF BalancesSound, CashBacked
    <3>3. LockedCash(u) \in Nat
      BY <1>0, Zenon DEF LocksCounted
    <3>4. cashReserved[u] \in Nat /\ cashReserved'[u] \in Nat
      BY Zenon DEF TypeOK
    <3>5. CashClaim(x, u) \in Nat
      BY Zenon DEF CashClaim, CashOrders, TypeOK, Exists, Order
    <3>6. CashClaim(x, u)' \in Nat
      BY Zenon DEF CashClaim, CashOrders, TypeOK, Exists, Order
    <3> QED
      BY <1>3, <3>1, <3>2, <3>3, <3>4, <3>5, <3>6
  <2>2. Total([u \in Users |-> cashAvailable'[u] + cashReserved'[u]], Users)
          = Total([u \in Users |-> cashAvailable[u] + cashReserved[u]], Users)
    BY <1>3, TotalSame, Zenon
  <2>3. CashConserved'
    BY <1>3, <2>2, Zenon DEF BalancesSound, CashConserved
  <2> QED
    BY <2>1, <2>3, Zenon DEF CashBacked
<1> QED
  BY <1>1, <1>2, <1>3, Zenon DEF BalancesSound, NoMarketBuys

\* Dropping an order whose ORDER_CREATED could not be emitted only lowers
\* what is locked.
LEMMA EmitOrderCreatedFailsLedger ==
  ASSUME Consistent, Consistent', LedgerInv, NEW p \in Partitions, EmitOrderCreatedFails(p)
  PROVE  LedgerInv'
<1>1. /\ mu = Unlocked /\ pc[p] = "created"
      /\ orders' = [orders EXCEPT ![cur[p]] = NoOrder]
      /\ UNCHANGED <<accounts, cashAvailable, cashReserved, sharesAvailable,
                     sharesReserved, granted, mu>>
  BY Zenon DEF EmitOrderCreatedFails, ledgerVars
<1>2. TypeOK /\ TypeOK'
  BY Zenon DEF Consistent
<1>3. PICK x \in OrderIds : x = cur[p]
  BY <1>1, Zenon DEF Consistent, WorkersConsistent, TypeOK
<1>4. orders'[x] = NoOrder /\ \A y \in OrderIds : y # x => orders'[y] = orders[y]
  BY <1>1, <1>2, <1>3, Zenon DEF TypeOK
<1>5. AccountsOpened'
  BY <1>1, <1>4 DEF LedgerInv, BalancesSound, AccountsOpened, Exists
<1>6. BuysLimited'
  BY <1>4, Zenon DEF LedgerInv, BalancesSound, BuysLimited, NoMarketBuys, Exists
<1>7. ~Exists(x)'
  BY <1>4, Zenon DEF Exists
<1>8. \A k \in PositionKeys :
         /\ sharesAvailable'[k] + sharesReserved'[k] = sharesAvailable[k] + sharesReserved[k]
         /\ ShareClaim(x, k)' - ShareClaim(x, k) <= sharesReserved'[k] - sharesReserved[k]
  <2> SUFFICES ASSUME NEW k \in PositionKeys
               PROVE  ShareClaim(x, k)' - ShareClaim(x, k) <= sharesReserved[k] - sharesReserved[k]
    BY <1>1, Zenon
  <2>1. ShareClaim(x, k)' = 0
    BY <1>7, Zenon DEF ShareClaim, ShareOrders
  <2>2. ShareClaim(x, k) \in Nat
    BY <1>2, Zenon DEF ShareClaim, ShareOrders, TypeOK, Exists, Order
  <2>3. sharesReserved[k] \in Nat
    BY <1>2, Zenon DEF TypeOK
  <2> QED
    BY <2>1, <2>2, <2>3
<1>9. \A u \in Users :
         /\ cashAvailable'[u] + cashReserved'[u] = cashAvailable[u] + cashReserved[u]
         /\ CashClaim(x, u)' - CashClaim(x, u) <= cashReserved'[u] - cashReserved[u]
  <2> SUFFICES ASSUME NEW u \in Users
               PROVE  CashClaim(x, u)' - CashClaim(x, u) <= cashReserved[u] - cashReserved[u]
    BY <1>1, Zenon
  <2>1. CashClaim(x, u)' = 0
    BY <1>7, Zenon DEF CashClaim, CashOrders
  <2>2. CashClaim(x, u) \in Nat
    BY <1>2, Zenon DEF CashClaim, CashOrders, TypeOK, Exists, Order
  <2>3. cashReserved[u] \in Nat
    BY <1>2, Zenon DEF TypeOK
  <2> QED
    BY <2>1, <2>2, <2>3
<1>10. BalancesSound'
  BY <1>1, <1>2, <1>4, <1>5, <1>6, <1>8, <1>9, OneOrderStep DEF LedgerInv
<1>11. TradesOfOrders'
  BY <1>1, ConstantsAssumption, Zenon DEF TradesOfOrders
<1>12. LocksCover'
  BY <1>1, <1>4, <1>7, Zenon DEF LedgerInv, LocksCover, Due, Exists
<1> QED
  BY <1>10, <1>11, <1>12, Zenon DEF LedgerInv

\* A fact of arithmetic.
LEMMA NothingMoves ==
  \A n \in Nat : n - 0 + 0 = n /\ n + 0 = n /\ n - 0 = n /\ 0 <= n /\ 0 \in Nat
  OBVIOUS

\* A claim that falls by q takes q off the sum it is part of.
LEMMA ClaimFalls == \A n, l, q \in Nat : n - l + (l - q) = n - q
  OBVIOUS

\* Being within goes along.
LEMMA WithinAll == \A a, b, c, d \in Nat : a <= b /\ b <= c /\ c <= d => a <= d
  OBVIOUS

\* What a settlement of x in and y out does to available plus reserved.
LEMMA UnitsMove ==
  \A a, r, x, y \in Nat : y <= r =>
     /\ a + r \in Nat /\ (a + x) + (r - y) \in Nat /\ y <= a + r
     /\ (a + x) + (r - y) = (a + r) - y + x
  OBVIOUS

\* A locked amount that covers what is due, w more of it or exactly, still
\* does when both fall by c.
LEMMA CoverFalls ==
  \A l, d, w, c \in Nat :
     /\ l >= d => l - c >= d - c
     /\ l >= w + d => l - c >= w + (d - c)
     /\ l = w + d => l - c = w + (d - c)
  OBVIOUS

\* The ledger's clamp does nothing where there is enough.
LEMMA ClampIdle == \A m, n \in Nat : n <= m => AtLeastZero(m - n) = m - n
  BY DEF AtLeastZero

\* Giving back what order x has locked (releaseOrderLocked) moves exactly
\* that from reserved to available: the clamp has nothing to do, since all
\* locked funds are backed.
LEMMA ReleaseBalances ==
  ASSUME TypeOK, TypeOK', BalancesSound, NEW x \in OrderIds, Exists(x), Exists(x)',
         releaseOrderLocked(orders[x]),
         \A y \in OrderIds : y # x => orders'[y] = orders[y],
         orders'[x].user = orders[x].user, orders'[x].side = orders[x].side,
         orders'[x].type = orders[x].type, orders'[x].locked = 0
  PROVE  BalancesSound'
<1> DEFINE o == orders[x]
           k0 == PositionKey(o)
<1>1. o \in Order
  BY Zenon DEF TypeOK, Exists
<1>2. o.locked \in Nat /\ o.user \in Users /\ k0 \in PositionKeys /\ o.side \in Sides
  BY <1>1, Zenon DEF Order, PositionKey, PositionKeys
<1>3. UNCHANGED <<accounts, granted>>
  BY Zenon DEF releaseOrderLocked
<1>4. LocksCounted
  BY LockedType, Zenon
<1>5. /\ \A k : ShareClaim(x, k)' = 0
      /\ \A u : CashClaim(x, u)' = 0
  BY Zenon DEF ShareClaim, CashClaim
<1>6. /\ \A k \in PositionKeys : ShareClaim(x, k) = IF o.side = "SELL" /\ k = k0 THEN o.locked ELSE 0
      /\ \A u \in Users : CashClaim(x, u) = IF o.side = "BUY" /\ u = o.user THEN o.locked ELSE 0
  BY Zenon DEF ShareClaim, CashClaim, ShareOrders, CashOrders
<1>7. BuysLimited'
  BY Zenon DEF BalancesSound, BuysLimited, NoMarketBuys, Exists
<1>8. /\ \A k \in PositionKeys : /\ sharesAvailable[k] \in Nat /\ sharesReserved[k] \in Nat
                                 /\ sharesAvailable'[k] \in Nat /\ sharesReserved'[k] \in Nat
      /\ \A u \in Users : /\ cashAvailable[u] \in Nat /\ cashReserved[u] \in Nat
                          /\ cashAvailable'[u] \in Nat /\ cashReserved'[u] \in Nat
  BY Zenon DEF TypeOK
<1>9. CASE o.side = "BUY"
  <2>1. /\ cashReserved' = [cashReserved EXCEPT ![o.user] = AtLeastZero(@ - o.locked)]
        /\ cashAvailable' = [cashAvailable EXCEPT ![o.user] = @ + o.locked]
        /\ UNCHANGED <<sharesAvailable, sharesReserved>>
    BY <1>9, Zenon DEF releaseOrderLocked
  <2>2. \A u \in Users : /\ u # o.user => /\ cashReserved'[u] = cashReserved[u]
                                          /\ cashAvailable'[u] = cashAvailable[u]
                         /\ u = o.user => /\ cashReserved'[u] = AtLeastZero(cashReserved[u] - o.locked)
                                          /\ cashAvailable'[u] = cashAvailable[u] + o.locked
    BY <2>1, Zenon DEF TypeOK
  <2>3. AccountsOpened'
    <3>1. \A u \in Users \ accounts : u # o.user
      BY <1>9, Zenon DEF BalancesSound, AccountsOpened
    <3>2. \A u \in Users \ accounts : cashReserved'[u] = 0 /\ cashAvailable'[u] = 0
      BY <2>2, <3>1, Zenon DEF BalancesSound, AccountsOpened
    <3> QED
      BY <1>3, <3>2, Zenon DEF BalancesSound, AccountsOpened, Exists
  <2>4. \A k \in PositionKeys :
         /\ sharesAvailable'[k] + sharesReserved'[k] = sharesAvailable[k] + sharesReserved[k]
         /\ ShareClaim(x, k)' - ShareClaim(x, k) <= sharesReserved'[k] - sharesReserved[k]
    BY <1>5, <1>6, <1>8, <1>9, <2>1
  <2>5. ASSUME NoMarketBuys, NEW u \in Users
        PROVE  /\ cashAvailable'[u] + cashReserved'[u] = cashAvailable[u] + cashReserved[u]
               /\ CashClaim(x, u)' - CashClaim(x, u) <= cashReserved'[u] - cashReserved[u]
    <3>1. CASE u # o.user
      BY <1>5, <1>6, <1>8, <2>2, <3>1
    <3>2. CASE u = o.user
      <4>1. x \in CashOrders(u)
        BY <1>9, <3>2, Zenon DEF CashOrders
      <4>2. o.locked <= LockedCash(u) /\ LockedCash(u) \in Nat
        BY <1>4, <4>1, Zenon DEF LocksCounted
      <4>3. LockedCash(u) <= cashReserved[u]
        BY <2>5, Zenon DEF BalancesSound, CashBacked
      <4>4. o.locked <= cashReserved[u]
        BY <1>2, <1>8, <4>2, <4>3
      <4>5. cashReserved'[u] = cashReserved[u] - o.locked
        BY <1>2, <1>8, <2>2, <3>2, <4>4, ClampIdle
      <4>6. cashAvailable'[u] = cashAvailable[u] + o.locked
        BY <2>2, <3>2
      <4> QED
        BY <1>2, <1>5, <1>6, <1>8, <1>9, <3>2, <4>5, <4>6
    <3> QED
      BY <3>1, <3>2, Zenon
  <2> QED
    BY <1>3, <1>7, <2>3, <2>4, <2>5, OneOrderStep
<1>10. CASE o.side # "BUY"
  <2>1. /\ sharesReserved' = [sharesReserved EXCEPT ![k0] = AtLeastZero(@ - o.locked)]
        /\ sharesAvailable' = [sharesAvailable EXCEPT ![k0] = @ + o.locked]
        /\ UNCHANGED <<cashAvailable, cashReserved>>
    BY <1>10, Zenon DEF releaseOrderLocked
  <2>2. \A k \in PositionKeys :
           /\ k # k0 => /\ sharesReserved'[k] = sharesReserved[k]
                        /\ sharesAvailable'[k] = sharesAvailable[k]
           /\ k = k0 => /\ sharesReserved'[k] = AtLeastZero(sharesReserved[k] - o.locked)
                        /\ sharesAvailable'[k] = sharesAvailable[k] + o.locked
    BY <2>1, Zenon DEF TypeOK
  <2>3. AccountsOpened'
    BY <1>3, <2>1, Zenon DEF BalancesSound, AccountsOpened, Exists
  <2>4. \A u \in Users :
         /\ cashAvailable'[u] + cashReserved'[u] = cashAvailable[u] + cashReserved[u]
         /\ CashClaim(x, u)' - CashClaim(x, u) <= cashReserved'[u] - cashReserved[u]
    BY <1>5, <1>6, <1>8, <1>10, <2>1
  <2>5. ASSUME NEW k \in PositionKeys
        PROVE  /\ sharesAvailable'[k] + sharesReserved'[k] = sharesAvailable[k] + sharesReserved[k]
               /\ ShareClaim(x, k)' - ShareClaim(x, k) <= sharesReserved'[k] - sharesReserved[k]
    <3>0. o.side = "SELL"
      BY <1>2, <1>10, Zenon DEF Sides
    <3>1. CASE k # k0
      BY <1>5, <1>6, <1>8, <2>2, <3>1
    <3>2. CASE k = k0
      <4>1. x \in ShareOrders(k)
        BY <3>0, <3>2, Zenon DEF ShareOrders
      <4>2. o.locked <= LockedShares(k) /\ LockedShares(k) \in Nat
        BY <1>4, <4>1, Zenon DEF LocksCounted
      <4>3. LockedShares(k) <= sharesReserved[k]
        BY Zenon DEF BalancesSound, SharesBacked
      <4>4. o.locked <= sharesReserved[k]
        BY <1>2, <1>8, <4>2, <4>3
      <4>5. sharesReserved'[k] = sharesReserved[k] - o.locked
        BY <1>2, <1>8, <2>2, <3>2, <4>4, ClampIdle
      <4>6. sharesAvailable'[k] = sharesAvailable[k] + o.locked
        BY <2>2, <3>2, Zenon
      <4>7. ShareClaim(x, k) = o.locked
        BY <1>6, <3>0, <3>2, Zenon
      <4> HIDE DEF k0, o
      <4> QED
        BY <1>2, <1>5, <1>8, <4>5, <4>6, <4>7
    <3> QED
      BY <3>1, <3>2, Zenon
  <2> QED
    BY <1>3, <1>7, <2>3, <2>4, <2>5, OneOrderStep
<1> QED
  BY <1>9, <1>10, Zenon

\* Storing an order reserves what it has locked (reserveOrderLocked).
LEMMA AcceptOrderLedger ==
  ASSUME Consistent, Consistent', LedgerInv, NEW p \in Partitions,
         NEW x \in OrderIds, NEW r \in Requests, AcceptOrder(p, x, r)
  PROVE  LedgerInv'
<1> DEFINE F == RequiredFunds(r)
<1>1. /\ mu = Unlocked /\ orders[x] = NoOrder /\ HasFunds(r) /\ reserveOrderLocked(r)
      /\ orders' = [orders EXCEPT ![x] = NewOrder(r)]
      /\ UNCHANGED <<mu, granted>>
  BY Zenon DEF AcceptOrder, OrderArrives
<1>2. TypeOK /\ TypeOK'
  BY Zenon DEF Consistent
<1>3. r \in Request
  BY ConstantsAssumption, Zenon
<1>4. /\ r.user \in Users /\ r.quantity \in Nat /\ r.price \in Nat
      /\ PositionKey(r) \in PositionKeys /\ r.side \in Sides
  BY <1>3, Zenon DEF Request, PositionKey, PositionKeys
<1>5. F \in Nat
  <2>1. cashAvailable[r.user] \in Nat
    BY <1>2, <1>4, Zenon DEF TypeOK
  <2>2. r.quantity * r.price \in Nat
    BY <1>4
  <2> QED
    BY <1>4, <2>1, <2>2, Zenon DEF RequiredFunds
<1>6. orders'[x] = NewOrder(r) /\ \A y \in OrderIds : y # x => orders'[y] = orders[y]
  BY <1>1, <1>2, Zenon DEF TypeOK
<1>7. NewOrder(r) # NoOrder
  <2>1. NewOrder(r) \in Order
    BY <1>3, <1>5, Zenon DEF NewOrder, Request, Order, Statuses
  <2> QED
    BY <2>1, ConstantsAssumption, Zenon
<1>8. /\ NewOrder(r).user = r.user /\ NewOrder(r).side = r.side /\ NewOrder(r).type = r.type
      /\ NewOrder(r).locked = F /\ NewOrder(r).remaining = r.quantity
      /\ NewOrder(r).price = r.price /\ NewOrder(r).status = "PENDING"
      /\ PositionKey(NewOrder(r)) = PositionKey(r)
  BY Zenon DEF NewOrder, PositionKey
<1> HIDE DEF F
<1>9. ~Exists(x) /\ Exists(x)'
  BY <1>1, <1>6, <1>7, Zenon DEF Exists
<1>10. /\ \A k : ShareClaim(x, k) = 0
       /\ \A u : CashClaim(x, u) = 0
  BY <1>9, Zenon DEF ShareClaim, CashClaim, ShareOrders, CashOrders
<1>11. /\ \A k \in PositionKeys :
            ShareClaim(x, k)' = IF r.side = "SELL" /\ k = PositionKey(r) THEN F ELSE 0
       /\ \A u \in Users : CashClaim(x, u)' = IF r.side = "BUY" /\ u = r.user THEN F ELSE 0
  BY <1>6, <1>8, <1>9, Zenon
     DEF ShareClaim, CashClaim, ShareOrders, CashOrders
<1>12. BuysLimited'
  BY <1>6, <1>8, Zenon DEF LedgerInv, BalancesSound, BuysLimited, NoMarketBuys, Exists
<1>13. /\ \A k \in PositionKeys : sharesAvailable[k] \in Nat /\ sharesReserved[k] \in Nat
       /\ \A u \in Users : cashAvailable[u] \in Nat /\ cashReserved[u] \in Nat
  BY <1>2, Zenon DEF TypeOK
<1>14. CASE r.side = "BUY"
  <2>1. /\ accounts' = accounts \cup {r.user}
        /\ cashAvailable' = [cashAvailable EXCEPT ![r.user] = @ - F]
        /\ cashReserved' = [cashReserved EXCEPT ![r.user] = @ + F]
        /\ UNCHANGED <<sharesAvailable, sharesReserved>>
    BY <1>1, <1>14, Zenon DEF reserveOrderLocked, F
  <2>2. \A u \in Users : /\ u # r.user => /\ cashReserved'[u] = cashReserved[u]
                                          /\ cashAvailable'[u] = cashAvailable[u]
                         /\ u = r.user => /\ cashReserved'[u] = cashReserved[u] + F
                                          /\ cashAvailable'[u] = cashAvailable[u] - F
    BY <1>2, <2>1, Zenon DEF TypeOK
  <2>3. AccountsOpened'
    <3>1. \A u \in Users \ accounts' : cashReserved'[u] = 0 /\ cashAvailable'[u] = 0
      BY <2>1, <2>2, Zenon DEF LedgerInv, BalancesSound, AccountsOpened
    <3>2. \A y \in OrderIds : Exists(y)' /\ orders'[y].side = "BUY" => orders'[y].user \in accounts'
      BY <1>6, <1>8, <2>1, Zenon DEF LedgerInv, BalancesSound, AccountsOpened, Exists
    <3> QED
      BY <1>1, <2>1, <3>1, <3>2, Zenon DEF LedgerInv, BalancesSound, AccountsOpened
  <2>4. \A k \in PositionKeys :
         /\ sharesAvailable'[k] + sharesReserved'[k] = sharesAvailable[k] + sharesReserved[k]
         /\ ShareClaim(x, k)' - ShareClaim(x, k) <= sharesReserved'[k] - sharesReserved[k]
    BY <1>10, <1>11, <1>13, <1>14, <2>1
  <2>5. \A u \in Users :
         /\ cashAvailable'[u] + cashReserved'[u] = cashAvailable[u] + cashReserved[u]
         /\ CashClaim(x, u)' - CashClaim(x, u) <= cashReserved'[u] - cashReserved[u]
    BY <1>5, <1>10, <1>11, <1>13, <1>14, <2>2
  <2> QED
    <3>1. BalancesSound'
      BY <1>1, <1>2, <1>6, <1>12, <2>3, <2>4, <2>5, OneOrderStep DEF LedgerInv
    <3>2. TradesOfOrders'
      BY <1>1, ConstantsAssumption, Zenon DEF TradesOfOrders
    <3>3. Covers(orders'[x], 0)
      <4>1. r.type = "LIMIT" => F = r.quantity * r.price
        BY <1>3, <1>14 DEF RequiredFunds, F, Request
      <4>2. r.quantity * r.price \in Nat
        BY <1>4
      <4> QED
        BY <1>4, <1>5, <1>6, <1>8, <1>14, <4>1, <4>2 DEF Covers
    <3>4. LocksCover'
      BY <1>1, <1>6, <3>3 DEF LedgerInv, LocksCover, Due, Exists
    <3> QED
      BY <3>1, <3>2, <3>4, Zenon DEF LedgerInv
<1>15. CASE r.side # "BUY"
  <2>0. r.side = "SELL" /\ F = r.quantity
    BY <1>4, <1>15, Zenon DEF Sides, RequiredFunds, F
  <2>1. /\ accounts' = accounts
        /\ sharesAvailable' = [sharesAvailable EXCEPT ![PositionKey(r)] = @ - F]
        /\ sharesReserved' = [sharesReserved EXCEPT ![PositionKey(r)] = @ + F]
        /\ UNCHANGED <<cashAvailable, cashReserved>>
    BY <1>1, <1>15, Zenon DEF reserveOrderLocked, F
  <2>2. \A k \in PositionKeys :
           /\ k # PositionKey(r) => /\ sharesReserved'[k] = sharesReserved[k]
                                    /\ sharesAvailable'[k] = sharesAvailable[k]
           /\ k = PositionKey(r) => /\ sharesReserved'[k] = sharesReserved[k] + F
                                    /\ sharesAvailable'[k] = sharesAvailable[k] - F
    BY <1>2, <2>1, Zenon DEF TypeOK
  <2>3. AccountsOpened'
    <3>2. \A y \in OrderIds : Exists(y)' /\ orders'[y].side = "BUY" => orders'[y].user \in accounts'
      BY <1>6, <1>8, <1>15, <2>1 DEF LedgerInv, BalancesSound, AccountsOpened, Exists
    <3> QED
      BY <1>1, <2>1, <3>2, Zenon DEF LedgerInv, BalancesSound, AccountsOpened
  <2>4. \A k \in PositionKeys :
         /\ sharesAvailable'[k] + sharesReserved'[k] = sharesAvailable[k] + sharesReserved[k]
         /\ ShareClaim(x, k)' - ShareClaim(x, k) <= sharesReserved'[k] - sharesReserved[k]
    <3> SUFFICES ASSUME NEW k \in PositionKeys
                 PROVE  /\ sharesAvailable'[k] + sharesReserved'[k]
                             = sharesAvailable[k] + sharesReserved[k]
                        /\ ShareClaim(x, k)' - ShareClaim(x, k)
                             <= sharesReserved'[k] - sharesReserved[k]
      BY Zenon
    <3>1. ShareClaim(x, k) = 0 /\ sharesAvailable[k] \in Nat /\ sharesReserved[k] \in Nat
      BY <1>10, <1>13, Zenon
    <3>2. CASE k = PositionKey(r)
      <4>1. ShareClaim(x, k)' = F
        BY <1>11, <2>0, <3>2, Zenon
      <4>2. sharesReserved'[k] = sharesReserved[k] + F /\ sharesAvailable'[k] = sharesAvailable[k] - F
        BY <2>2, <3>2, Zenon
      <4> QED
        BY <1>5, <3>1, <4>1, <4>2
    <3>3. CASE k # PositionKey(r)
      <4>1. ShareClaim(x, k)' = 0
        BY <1>11, <3>3, Zenon
      <4>2. sharesReserved'[k] = sharesReserved[k] /\ sharesAvailable'[k] = sharesAvailable[k]
        BY <2>2, <3>3, Zenon
      <4> QED
        BY <3>1, <4>1, <4>2
    <3> QED
      BY <3>2, <3>3, Zenon
  <2>5. \A u \in Users :
         /\ cashAvailable'[u] + cashReserved'[u] = cashAvailable[u] + cashReserved[u]
         /\ CashClaim(x, u)' - CashClaim(x, u) <= cashReserved'[u] - cashReserved[u]
    BY <1>10, <1>11, <1>13, <1>15, <2>1
  <2> QED
    <3>1. BalancesSound'
      BY <1>1, <1>2, <1>6, <1>12, <2>3, <2>4, <2>5, OneOrderStep, Zenon DEF LedgerInv
    <3>2. TradesOfOrders'
      BY <1>1, ConstantsAssumption, Zenon DEF TradesOfOrders
    <3>3. Covers(orders'[x], 0)
      BY <1>4, <1>6, <1>8, <2>0 DEF Covers
    <3>4. LocksCover'
      BY <1>1, <1>6, <3>3, Zenon DEF LedgerInv, LocksCover, Due, Exists
    <3> QED
      BY <3>1, <3>2, <3>4, Zenon DEF LedgerInv
<1> QED
  BY <1>14, <1>15, Zenon

\* Canceling an open order gives back what it has locked, between matches.
LEMMA CancelLedger ==
  ASSUME Consistent, Consistent', LedgerInv, NEW p \in Partitions,
         NEW x \in OrderIds, NEW e \in CancelEvents, handleCancelOrder(p, x, e)
  PROVE  LedgerInv'
<1>1. /\ mu = Unlocked /\ orders[x] # NoOrder
      /\ orders' = [orders EXCEPT ![x].status = "CANCELED", ![x].locked = 0]
      /\ releaseOrderLocked(orders[x])
      /\ UNCHANGED mu
  BY Zenon DEF handleCancelOrder
<1>2. TypeOK /\ TypeOK'
  BY Zenon DEF Consistent
<1>3. orders[x] \in Order
  BY <1>1, <1>2, Zenon DEF TypeOK
<1>4. /\ orders'[x] = [orders[x] EXCEPT !.status = "CANCELED", !.locked = 0]
      /\ \A y \in OrderIds : y # x => orders'[y] = orders[y]
  BY <1>1, <1>2, Zenon DEF TypeOK
<1>5. /\ orders'[x].user = orders[x].user /\ orders'[x].side = orders[x].side
      /\ orders'[x].type = orders[x].type /\ orders'[x].locked = 0
      /\ orders'[x].status = "CANCELED"
  BY <1>3, <1>4, Zenon DEF Order
<1>6. Exists(x) /\ Exists(x)'
  <2>1. [orders[x] EXCEPT !.status = "CANCELED", !.locked = 0] \in Order
    BY <1>3, Zenon DEF Order, Statuses
  <2> QED
    BY <1>1, <1>4, <2>1, ConstantsAssumption DEF Exists
<1>7. BalancesSound'
  BY <1>1, <1>2, <1>4, <1>5, <1>6, ReleaseBalances, Zenon DEF LedgerInv
<1>8. TradesOfOrders'
  BY <1>1, ConstantsAssumption, Zenon DEF TradesOfOrders
<1>9. Covers(orders'[x], 0)
  BY <1>5 DEF Covers
<1>10. LocksCover'
  BY <1>1, <1>4, <1>9, Zenon DEF LedgerInv, LocksCover, Due, Exists
<1> QED
  BY <1>7, <1>8, <1>10, Zenon DEF LedgerInv

\* At the end of a match all its trades are settled; an order that no longer
\* rests gives back what it has locked beyond them.
LEMMA FinishSettleLedger ==
  ASSUME Consistent, Consistent', LedgerInv, NEW p \in Partitions, FinishSettle(p)
  PROVE  LedgerInv'
<1>1. /\ pc[p] = "settling" /\ at[p] = Len(trades[p]) /\ mu' = Unlocked
      /\ \/ /\ orders[cur[p]].status \in {"FILLED", "CANCELED"}
            /\ releaseOrderLocked(orders[cur[p]])
            /\ orders' = [orders EXCEPT ![cur[p]].locked = 0]
         \/ UNCHANGED <<accounts, cashAvailable, cashReserved, sharesAvailable,
                        sharesReserved, granted, orders>>
  BY Zenon DEF FinishSettle, UnlockMu, ledgerVars
<1>2. TypeOK /\ TypeOK'
  BY Zenon DEF Consistent
<1>3. mu = p /\ p # Unlocked
  BY <1>1, ConstantsAssumption, Zenon DEF Consistent, WorkersConsistent
<1>4. PICK x \in OrderIds : x = cur[p] /\ Exists(x)
  BY <1>1, ConstantsAssumption DEF Consistent, WorkersConsistent, TypeOK, Working
<1>5. orders[x] \in Order
  BY <1>2, <1>4, Zenon DEF TypeOK, Exists
<1>6. \A y \in OrderIds : Due(y) = 0 /\ Due(y)' = 0
  <2>1. Len(trades[p]) \in Nat
    BY <1>2 DEF TypeOK
  <2>2. Unsettled(p) = {}
    BY <1>1, <2>1 DEF Unsettled
  <2>3. \A y \in OrderIds : DueIn(p, y) = 0
    BY <2>2, DueOfNone, Zenon
  <2> QED
    BY <1>1, <1>3, <2>3, Zenon DEF Due
<1>7. TradesOfOrders'
  BY <1>1, ConstantsAssumption, Zenon DEF TradesOfOrders
<1>8. CASE UNCHANGED <<accounts, cashAvailable, cashReserved, sharesAvailable,
                       sharesReserved, granted, orders>>
  <2>1. \A y \in OrderIds : SameFunds(y)
    BY <1>8, Zenon DEF SameFunds, Exists
  <2>2. BalancesSound'
    BY <1>2, <1>8, <2>1, BalancesFrame, Zenon DEF LedgerInv
  <2>3. LocksCover'
    BY <1>6, <1>8, Zenon DEF LedgerInv, LocksCover, Exists
  <2> QED
    BY <1>7, <2>2, <2>3, Zenon DEF LedgerInv
<1>9. CASE /\ orders[x].status \in {"FILLED", "CANCELED"}
           /\ releaseOrderLocked(orders[x])
           /\ orders' = [orders EXCEPT ![x].locked = 0]
  <2>1. /\ orders'[x] = [orders[x] EXCEPT !.locked = 0]
        /\ \A y \in OrderIds : y # x => orders'[y] = orders[y]
    BY <1>2, <1>9, Zenon DEF TypeOK
  <2>2. /\ orders'[x].user = orders[x].user /\ orders'[x].side = orders[x].side
        /\ orders'[x].type = orders[x].type /\ orders'[x].locked = 0
        /\ orders'[x].status = orders[x].status /\ orders'[x].remaining = orders[x].remaining
        /\ orders'[x].price = orders[x].price
    BY <1>5, <2>1, Zenon DEF Order
  <2>3. orders'[x] \in Order
    BY <1>5, <2>1 DEF Order
  <2>4. Exists(x)'
    BY <2>3, ConstantsAssumption, Zenon DEF Exists
  <2>5. BalancesSound'
    BY <1>2, <1>4, <1>9, <2>1, <2>2, <2>4, ReleaseBalances, Zenon DEF LedgerInv
  <2>6. orders[x].status = "FILLED" => orders[x].remaining = 0
    BY <1>4, Zenon DEF Consistent, FillsAddUp
  <2>7. Covers(orders'[x], 0)
    <3>1. orders[x].price \in Nat
      BY <1>5, Zenon DEF Order
    <3>2. 0 * orders[x].price = 0
      BY <3>1
    <3> QED
      BY <1>9, <2>2, <2>6, <3>2 DEF Covers
  <2>8. LocksCover'
    BY <1>6, <2>1, <2>7, Zenon DEF LedgerInv, LocksCover, Exists
  <2> QED
    BY <1>7, <2>5, <2>8, Zenon DEF LedgerInv
<1> QED
  BY <1>1, <1>4, <1>8, <1>9, Zenon

(***************************************************************************)
(* Matching: executePair turns what an order may have to deliver into what *)
(* is due.                                                                 *)
(***************************************************************************)

\* What is due is a number, and at least what the next trade takes.
LEMMA DueType ==
  ASSUME TypeOK, NEW p \in Partitions, NEW y
  PROVE  /\ IsFiniteSet(Unsettled(p)) /\ Unsettled(p) \subseteq 1..Len(trades[p])
         /\ \A i \in 1..Len(trades[p]) : Owed(y, trades[p][i]) \in Nat
         /\ DueIn(p, y) \in Nat
<1>1. trades[p] \in Seq(Trade) /\ at[p] \in Nat /\ Len(trades[p]) \in Nat
  BY DEF TypeOK
<1>2. Unsettled(p) \subseteq 1..Len(trades[p])
  BY <1>1 DEF Unsettled
<1>3. IsFiniteSet(Unsettled(p))
  <2>1. at[p] + 1 \in Int /\ Len(trades[p]) \in Int
    BY <1>1
  <2> QED
    BY <2>1, FiniteInterval, Zenon DEF Unsettled
<1>4. \A i \in 1..Len(trades[p]) : trades[p][i] \in Trade
  BY <1>1
<1>5. \A i \in 1..Len(trades[p]) : Owed(y, trades[p][i]) \in Nat
  BY <1>4, OwedType, Zenon
<1> DEFINE f == [i \in 1..Len(trades[p]) |-> Owed(y, trades[p][i])]
<1>6. \A i \in Unsettled(p) : f[i] \in Nat
  BY <1>2, <1>5, Zenon
<1>7. DueIn(p, y) = Total(f, Unsettled(p))
  BY Zenon DEF DueIn
<1> HIDE DEF f
<1> QED
  BY <1>2, <1>3, <1>5, <1>6, <1>7, UnitsFinite, Zenon

\* A new trade adds what it will take.
LEMMA DueAppend ==
  ASSUME TypeOK, NEW p \in Partitions, at[p] <= Len(trades[p]), NEW t \in Trade,
         trades'[p] = Append(trades[p], t), at'[p] = at[p],
         NEW y, orders'[y].side = orders[y].side
  PROVE  DueIn(p, y)' = DueIn(p, y) + Owed(y, t)
<1> DEFINE n == Len(trades[p])
           f == [i \in 1..n |-> Owed(y, trades[p][i])]
           g == [i \in 1..Len(trades'[p]) |-> Owed(y, trades'[p][i])]
           S == Unsettled(p)
<1>1. trades[p] \in Seq(Trade) /\ at[p] \in Nat /\ n \in Nat
  BY DEF TypeOK
<1>2. /\ Len(trades'[p]) = n + 1 /\ trades'[p][n + 1] = t
      /\ \A i \in 1..n : trades'[p][i] = trades[p][i]
  BY <1>1
<1>3. \A u : Owed(y, u)' = Owed(y, u)
  BY Zenon DEF Owed
<1>4. DueIn(p, y)' = Total(g, Unsettled(p)')
  BY <1>3, Zenon DEF DueIn, Owed
<1>5. DueIn(p, y) = Total(f, S)
  BY Zenon DEF DueIn
<1>6. Unsettled(p)' = S \cup {n + 1} /\ n + 1 \notin S /\ S \subseteq 1..n
  BY <1>1, <1>2 DEF Unsettled
<1>7. IsFiniteSet(S) /\ \A i \in 1..n : Owed(y, trades[p][i]) \in Nat
  BY DueType, Zenon
<1>8. Owed(y, t) \in Nat
  BY OwedType, Zenon
<1>9. /\ \A i \in S : f[i] = g[i] /\ g[i] \in Nat
      /\ g[n + 1] = Owed(y, t)
  BY <1>1, <1>2, <1>6, <1>7
<1> HIDE DEF n, f, g, S
<1>10. Total(g, S \cup {n + 1}) = Total(g, S) + g[n + 1]
  <2>1. PICK F, U, z : F = g /\ U = S /\ z = n + 1
    BY Zenon
  <2>2. IsFiniteSet(U) /\ z \notin U /\ \A i \in U \cup {z} : F[i] \in Nat
    BY <1>6, <1>7, <1>8, <1>9, <2>1
  <2>3. PICK W : W = U \cup {z}
    BY Zenon
  <2>4. IsFiniteSet(W)
    BY <2>2, <2>3, CountOneMore, Zenon
  <2>5. W \ {z} = U /\ z \in W /\ \A i \in W : F[i] \in Nat
    BY <2>2, <2>3, Zenon
  <2>6. Total(F, W) = Total(F, W \ {z}) + F[z]
    BY <2>4, <2>5, TotalRemove, Zenon
  <2> QED
    BY <2>1, <2>3, <2>5, <2>6, Zenon
<1>11. Total(f, S) = Total(g, S)
  BY <1>9, TotalSame, Zenon
<1> QED
  BY <1>4, <1>5, <1>6, <1>9, <1>10, <1>11

\* Settling a trade removes what it took.
LEMMA DueSettle ==
  ASSUME TypeOK, NEW p \in Partitions, at[p] < Len(trades[p]),
         trades'[p] = trades[p], at'[p] = at[p] + 1,
         NEW y, orders'[y].side = orders[y].side
  PROVE  /\ DueIn(p, y)' = DueIn(p, y) - Owed(y, trades[p][at[p] + 1])
         /\ Owed(y, trades[p][at[p] + 1]) <= DueIn(p, y)
<1> DEFINE n == Len(trades[p])
           f == [i \in 1..n |-> Owed(y, trades[p][i])]
           S == Unsettled(p)
           a == at[p] + 1
<1>1. trades[p] \in Seq(Trade) /\ at[p] \in Nat /\ n \in Nat
  BY DEF TypeOK
<1>2. \A u : Owed(y, u)' = Owed(y, u)
  BY Zenon DEF Owed
<1>3. DueIn(p, y)' = Total(f, Unsettled(p)')
  BY <1>2, Zenon DEF DueIn, Owed
<1>4. DueIn(p, y) = Total(f, S)
  BY Zenon DEF DueIn
<1>5. Unsettled(p)' = S \ {a} /\ a \in S /\ S \subseteq 1..n
  BY <1>1 DEF Unsettled
<1>6. IsFiniteSet(S) /\ \A i \in 1..n : Owed(y, trades[p][i]) \in Nat
  BY DueType, Zenon
<1>7. (\A i \in S : f[i] \in Nat) /\ f[a] = Owed(y, trades[p][a])
  BY <1>5, <1>6, Zenon
<1> HIDE DEF n, f, S, a
<1>8. /\ Total(f, S \ {a}) \in Nat /\ Total(f, S) = Total(f, S \ {a}) + f[a]
      /\ f[a] <= Total(f, S)
  <2>1. PICK F, U, b : F = f /\ U = S /\ b = a
    BY Zenon
  <2>2. IsFiniteSet(U) /\ b \in U /\ \A i \in U : F[i] \in Nat
    BY <1>5, <1>6, <1>7, <2>1, Zenon
  <2>3. /\ Total(F, U \ {b}) \in Nat /\ Total(F, U) = Total(F, U \ {b}) + F[b]
        /\ F[b] <= Total(F, U)
    BY <2>2, TotalRemove
  <2> QED
    BY <2>1, <2>3, Zenon
<1>9. f[a] \in Nat
  BY <1>5, <1>7
<1>10. a = at[p] + 1
  BY Zenon DEF a
<1> QED
  BY <1>3, <1>4, <1>5, <1>7, <1>8, <1>9, <1>10

\* A trade is still between the orders it was made of.
LEMMA OfOrdersFrame ==
  ASSUME NEW t \in Trade, OfOrders(t),
         \A x \in OrderIds :
            /\ Exists(x)' <=> Exists(x)
            /\ Exists(x) => /\ orders'[x].user = orders[x].user
                            /\ PositionKey(orders[x])' = PositionKey(orders[x])
                            /\ orders'[x].side = orders[x].side
  PROVE  /\ OfOrders(t)'
         /\ BuyOrder(t)' = BuyOrder(t) /\ SellOrder(t)' = SellOrder(t)
<1>1. t.taker \in OrderIds /\ t.maker \in OrderIds
  BY Zenon DEF Trade
<1>2. Exists(t.taker) /\ Exists(t.maker)
  BY Zenon DEF OfOrders
<1>3. BuyOrder(t)' = BuyOrder(t) /\ SellOrder(t)' = SellOrder(t)
  BY <1>1, <1>2, Zenon DEF BuyOrder, SellOrder
<1>4. BuyOrder(t) \in {t.taker, t.maker} /\ SellOrder(t) \in {t.taker, t.maker}
  BY Zenon DEF BuyOrder, SellOrder
<1>5. BuyOrder(t) \in OrderIds /\ SellOrder(t) \in OrderIds
      /\ Exists(BuyOrder(t)) /\ Exists(SellOrder(t))
  BY <1>1, <1>2, <1>4, Zenon
<1>6. PICK b \in OrderIds, s \in OrderIds : b = BuyOrder(t) /\ s = SellOrder(t)
  BY <1>5
<1>7. /\ orders'[b].side = "BUY" /\ orders'[b].user = t.buyer
      /\ orders'[s].side = "SELL"
      /\ PositionKey(orders[s])' = <<t.seller, t.event, t.outcome>>
  BY <1>5, <1>6, Zenon DEF OfOrders
<1>8. t.taker # t.maker /\ Exists(t.taker)' /\ Exists(t.maker)'
  BY <1>1, <1>2, Zenon DEF OfOrders
<1>9. OfOrders(t)'
  BY <1>3, <1>6, <1>7, <1>8, Zenon DEF OfOrders
<1> QED
  BY <1>3, <1>9

\* A fill at a price no worse than the limit needs no more than was set aside.
LEMMA FillArithmetic ==
  ASSUME NEW r \in Nat, NEW q \in Nat, NEW a \in Nat, NEW b \in Nat, q <= r, b <= a
  PROVE  /\ q * b \in Nat /\ r * a \in Nat /\ (r - q) * a \in Nat
         /\ (r - q) * a + q * b <= r * a
<1>1. PICK d \in Nat : a = b + d
  <2>1. a - b \in Nat /\ a = b + (a - b)
    OBVIOUS
  <2> QED
    BY <2>1, Zenon
<1>2. PICK m \in Nat : r = m + q
  <2>1. r - q \in Nat /\ r = (r - q) + q
    OBVIOUS
  <2> QED
    BY <2>1, Zenon
<1>3. r - q = m
  BY <1>2
<1>4. /\ m * a \in Nat /\ q * a \in Nat /\ q * b \in Nat /\ q * d \in Nat
      /\ (m + q) * a = m * a + q * a
      /\ q * (b + d) = q * b + q * d
  OBVIOUS
<1> QED
  BY <1>1, <1>2, <1>3, <1>4

\* One iteration of matchAgainstBook moves what it fills from what an order
\* may still have to deliver to what the trades will take.
LEMMA ExecutePairLedger ==
  ASSUME Consistent, Consistent', LedgerInv, NEW p \in Partitions, executePair(p)
  PROVE  LedgerInv'
<1>0. PICK x \in OrderIds, m \in OrderIds, q \in Nat, i \in Nat : Pairs(p, x, m, q, i)
  BY ExecutePairEffect, Zenon
<1> DEFINE t == buildTrade(x, orders[x], m, orders[m], q)
<1>1. /\ mu = p /\ mu' = mu /\ at' = at /\ x # m
      /\ orders[x] \in Order /\ orders[x].status = "PENDING"
      /\ orders[m] \in Order /\ IsLive(orders[m])
      /\ OwnSide(orders[m]) = OtherSide(orders[x]) /\ canMatch(orders[x], orders[m])
      /\ orders[x].remaining - q \in Nat /\ orders[m].remaining - q \in Nat
      /\ orders'[x] = FillIncoming(orders[x], q)
      /\ orders'[m] = FillResting(orders[m], q)
      /\ \A y \in OrderIds : y # x /\ y # m => orders'[y] = orders[y]
      /\ trades' = [trades EXCEPT ![p] = Append(@, t)]
  BY <1>0, Zenon DEF Pairs
<1>2. UNCHANGED <<accounts, cashAvailable, cashReserved, sharesAvailable, sharesReserved, granted>>
  BY <1>0, Zenon DEF Pairs, ledgerVars
<1>3. TypeOK /\ TypeOK'
  BY Zenon DEF Consistent
<1>4. t \in Trade
  BY <1>1, Zenon DEF buildTrade, Order, Trade
<1>5. /\ t.taker = x /\ t.maker = m /\ t.quantity = q /\ t.price = orders[m].price
      /\ t.event = orders[x].event /\ t.outcome = orders[x].outcome
      /\ t.buyer = IF orders[x].side = "BUY" THEN orders[x].user ELSE orders[m].user
      /\ t.seller = IF orders[x].side = "BUY" THEN orders[m].user ELSE orders[x].user
  BY Zenon DEF buildTrade
<1> HIDE DEF t
<1>6. /\ orders'[x] \in Order /\ orders'[x].remaining = orders[x].remaining - q
      /\ orders'[x].status = "PENDING"
      /\ orders'[m] \in Order /\ orders'[m].remaining = orders[m].remaining - q
  BY <1>1, FillProperty
<1>7. /\ orders'[x].user = orders[x].user /\ orders'[m].user = orders[m].user
      /\ PositionKey(orders'[x]) = PositionKey(orders[x])
      /\ PositionKey(orders'[m]) = PositionKey(orders[m])
      /\ orders'[x].side = orders[x].side /\ orders'[m].side = orders[m].side
      /\ orders'[x].type = orders[x].type /\ orders'[m].type = orders[m].type
      /\ orders'[x].price = orders[x].price /\ orders'[m].price = orders[m].price
      /\ orders'[x].locked = orders[x].locked /\ orders'[m].locked = orders[m].locked
  <2>1. \A o \in Order :
           /\ FillIncoming(o, q).user = o.user /\ FillResting(o, q).user = o.user
           /\ PositionKey(FillIncoming(o, q)) = PositionKey(o)
           /\ PositionKey(FillResting(o, q)) = PositionKey(o)
           /\ FillIncoming(o, q).side = o.side /\ FillResting(o, q).side = o.side
           /\ FillIncoming(o, q).type = o.type /\ FillResting(o, q).type = o.type
           /\ FillIncoming(o, q).price = o.price /\ FillResting(o, q).price = o.price
           /\ FillIncoming(o, q).locked = o.locked /\ FillResting(o, q).locked = o.locked
    BY FillKeeps, Zenon DEF PositionKey
  <2>2. orders[x] \in Order /\ orders'[x] = FillIncoming(orders[x], q)
    BY <1>1, Zenon
  <2>3. orders[m] \in Order /\ orders'[m] = FillResting(orders[m], q)
    BY <1>1, Zenon
  <2> QED
    BY <2>1, <2>2, <2>3, Zenon
<1>8. /\ orders[x] # NoOrder /\ orders'[x] # NoOrder
      /\ orders[m] # NoOrder /\ orders'[m] # NoOrder
  BY <1>1, <1>6, ConstantsAssumption, Zenon
<1>9. ASSUME NEW y \in OrderIds PROVE SameFunds(y)
  <2>1. CASE y = x
    BY <1>7, <1>8, <2>1, Zenon DEF SameFunds, Exists
  <2>2. CASE y = m
    BY <1>7, <1>8, <2>2, Zenon DEF SameFunds, Exists
  <2>3. CASE y # x /\ y # m
    <3>1. orders'[y] = orders[y]
      BY <1>1, <2>3, Zenon
    <3> QED
      BY <3>1, Zenon DEF SameFunds, Exists
  <2> QED
    BY <2>1, <2>2, <2>3
<1>10. BalancesSound'
  BY <1>2, <1>3, <1>9, BalancesFrame, Zenon DEF LedgerInv
<1>11. /\ orders[m].event = orders[x].event /\ orders[m].outcome = orders[x].outcome
       /\ orders[m].side = IF orders[x].side = "BUY" THEN "SELL" ELSE "BUY"
  BY <1>1, Zenon DEF OwnSide, OtherSide
<1>12. orders[x].side \in {"BUY", "SELL"}
  BY <1>1 DEF Order, Sides
<1>13. OfOrders(t)
  BY <1>1, <1>5, <1>8, <1>11, <1>12
     DEF OfOrders, BuyOrder, SellOrder, Exists, PositionKey
<1>14. /\ trades[p] \in Seq(Trade) /\ Len(trades[p]) \in Nat /\ at[p] \in Nat
       /\ at[p] <= Len(trades[p]) /\ trades'[p] = Append(trades[p], t)
  <2>1. trades \in [Partitions -> Seq(Trade)] /\ at[p] \in Nat
    BY <1>3, Zenon DEF TypeOK
  <2>2. trades[p] \in Seq(Trade) /\ trades'[p] = Append(trades[p], t)
    BY <1>1, <2>1, Zenon
  <2>3. Len(trades[p]) \in Nat
    BY <2>2, LenProperties, Zenon
  <2>4. at[p] <= Len(trades[p])
    BY Zenon DEF Consistent, WorkersConsistent
  <2> QED
    BY <2>1, <2>2, <2>3, <2>4, Zenon
<1>15. TradesOfOrders'
  <2> SUFFICES ASSUME NEW j \in Unsettled(p)' PROVE OfOrders(trades[p][j])'
    BY <1>1, Zenon DEF TradesOfOrders
  <2>1. PICK u : u = trades'[p][j]
    BY Zenon
  <2>2. u \in Trade /\ OfOrders(u)
    <3>1. CASE j = Len(trades[p]) + 1
      BY <1>4, <1>13, <1>14, <2>1, <3>1
    <3>2. CASE j # Len(trades[p]) + 1
      <4>1. j \in Unsettled(p) /\ trades'[p][j] = trades[p][j] /\ trades[p][j] \in Trade
        <5>1. j \in (at[p] + 1)..Len(Append(trades[p], t))
          BY <1>1, <1>14, Zenon DEF Unsettled
        <5> QED
          BY <1>4, <1>14, <3>2, <5>1 DEF Unsettled
      <4> QED
        BY <1>1, <2>1, <4>1, Zenon DEF LedgerInv, TradesOfOrders
    <3> QED
      BY <3>1, <3>2, Zenon
  <2>3. OfOrders(u)'
    BY <1>9, <2>2, OfOrdersFrame, Zenon DEF SameFunds
  <2> QED
    BY <2>1, <2>3, Zenon DEF OfOrders, BuyOrder, SellOrder
<1>16. ASSUME NEW y \in OrderIds, Exists(y)
       PROVE  /\ Due(y) = DueIn(p, y) /\ DueIn(p, y) \in Nat
              /\ Due(y)' = DueIn(p, y) + Owed(y, t)
  <2>1. p # Unlocked
    BY ConstantsAssumption, Zenon
  <2>2. Due(y) = DueIn(p, y)
    BY <1>1, <2>1, Zenon DEF Due
  <2>3. Due(y)' = DueIn(p, y)'
    BY <1>1, <2>1, Zenon DEF Due
  <2>4. orders'[y].side = orders[y].side
    BY <1>9, <1>16, Zenon DEF SameFunds
  <2>5. DueIn(p, y)' = DueIn(p, y) + Owed(y, t)
    BY <1>1, <1>3, <1>4, <1>14, <2>4, DueAppend
  <2>6. DueIn(p, y) \in Nat
    BY <1>3, DueType, Zenon
  <2> QED
    BY <2>2, <2>3, <2>5, <2>6, Zenon
<1>17. orders[x].side = "BUY" /\ orders[x].type = "LIMIT" => orders[m].price <= orders[x].price
  BY <1>1, <1>11, Zenon DEF canMatch
<1>18. /\ orders[x].remaining \in Nat /\ orders[x].price \in Nat /\ orders[x].locked \in Nat
       /\ orders[m].remaining \in Nat /\ orders[m].price \in Nat /\ orders[m].locked \in Nat
  BY <1>1, Zenon DEF Order
<1>19. q <= orders[x].remaining /\ q <= orders[m].remaining
  BY <1>1, <1>18
<1>20. ASSUME NEW y \in {x, m}, orders[y].status # "CANCELED",
              orders[y].side = "BUY" /\ orders[y].type = "LIMIT" => orders[m].price <= orders[y].price
       PROVE  Covers(orders'[y], Due(y)')
  <2>0. y \in OrderIds /\ Exists(y)
    BY <1>8, Zenon DEF Exists
  <2>1. PICK o : o = orders[y]
    BY Zenon
  <2>2. PICK n : n = orders'[y]
    BY Zenon
  <2>3. /\ n.side = o.side /\ n.type = o.type /\ n.price = o.price /\ n.locked = o.locked
        /\ n.remaining = o.remaining - q
        /\ o.remaining \in Nat /\ o.price \in Nat /\ o.locked \in Nat /\ q <= o.remaining
        /\ o.side \in {"BUY", "SELL"}
    BY <1>6, <1>7, <1>11, <1>12, <1>18, <1>19, <2>1, <2>2
  <2>4. PICK due \in Nat : due = Due(y)
    BY <1>16, <2>0, Zenon
  <2>5. Covers(o, due) /\ o.status # "CANCELED"
    BY <1>20, <2>0, <2>1, <2>4, Zenon DEF LedgerInv, LocksCover
  <2>6. Due(y)' = due + (IF o.side = "BUY" THEN q * orders[m].price ELSE q)
    BY <1>5, <1>16, <2>0, <2>1, <2>4 DEF Owed
  <2>7. CASE o.side = "SELL"
    BY <2>2, <2>3, <2>5, <2>6, <2>7 DEF Covers
  <2>8. CASE o.side = "BUY" /\ o.type = "LIMIT"
    <3>1. PICK c : c = orders[m].price
      BY Zenon
    <3>2. c \in Nat /\ c <= o.price
      BY <1>18, <1>20, <2>1, <2>8, <3>1
    <3>3. /\ q * c \in Nat /\ o.remaining * o.price \in Nat /\ (o.remaining - q) * o.price \in Nat
          /\ (o.remaining - q) * o.price + q * c <= o.remaining * o.price
      BY <2>3, <3>2, FillArithmetic, Zenon
    <3>4. o.locked >= o.remaining * o.price + due
      BY <2>5, <2>8, Zenon DEF Covers
    <3>5. Due(y)' = due + q * c
      BY <2>6, <2>8, <3>1, Zenon
    <3>6. o.locked >= due + q * c /\ o.locked >= (o.remaining - q) * o.price + (due + q * c)
      BY <2>3, <2>4, <3>3, <3>4
    <3> QED
      BY <2>2, <2>3, <2>8, <3>5, <3>6, Zenon DEF Covers
  <2>9. CASE o.side = "BUY" /\ o.type # "LIMIT"
    BY <2>2, <2>3, <2>9, Zenon DEF Covers
  <2> QED
    BY <2>3, <2>7, <2>8, <2>9, Zenon
<1>21. LocksCover'
  <2> SUFFICES ASSUME NEW y \in OrderIds, Exists(y)' PROVE Covers(orders'[y], Due(y)')
    BY Zenon DEF LocksCover, Covers
  <2>1. Exists(y)
    BY <1>9, Zenon DEF SameFunds
  <2>2. CASE y = x
    BY <1>1, <1>17, <1>20, <2>2, Zenon
  <2>3. CASE y = m
    <3>1. orders[m].status # "CANCELED"
      BY <1>1, Zenon DEF IsLive, IsOpen
    <3>2. orders[m].price <= orders[m].price
      BY <1>18
    <3> QED
      BY <1>20, <2>3, <3>1, <3>2, Zenon
  <2>4. CASE y # x /\ y # m
    <3>1. orders'[y] = orders[y]
      BY <1>1, <2>4, Zenon
    <3>2. Owed(y, t) = 0
      BY <1>5, <2>4, Zenon DEF Owed
    <3>3. Due(y)' = Due(y)
      BY <1>16, <2>1, <3>2
    <3> QED
      BY <2>1, <3>1, <3>3, Zenon DEF LedgerInv, LocksCover
  <2> QED
    BY <2>2, <2>3, <2>4, Zenon
<1> QED
  BY <1>10, <1>15, <1>21 DEF LedgerInv

\* The end of the loop of matchAgainstBook changes the status of a PENDING
\* order only.
LEMMA FinishMatchLedger ==
  ASSUME Consistent, Consistent', LedgerInv, NEW p \in Partitions, FinishMatch(p)
  PROVE  LedgerInv'
<1>1. /\ pc[p] = "matching"
      /\ orders' = [orders EXCEPT ![cur[p]].status = StatusAfterMatch(orders[cur[p]])]
      /\ UNCHANGED <<accounts, cashAvailable, cashReserved, sharesAvailable,
                     sharesReserved, granted, mu, trades, at>>
  BY Zenon DEF FinishMatch, ledgerVars
<1>2. TypeOK /\ TypeOK'
  BY Zenon DEF Consistent
<1>3. PICK x \in OrderIds : x = cur[p] /\ Exists(x) /\ orders[x].status = "PENDING"
  BY <1>1, ConstantsAssumption DEF Consistent, WorkersConsistent, TypeOK, Working
<1>4. mu = p /\ p # Unlocked
  BY <1>1, ConstantsAssumption, Zenon DEF Consistent, WorkersConsistent
<1>5. orders[x] \in Order
  BY <1>2, <1>3, Zenon DEF TypeOK, Exists
<1>6. PICK st : orders'[x] = [orders[x] EXCEPT !.status = st]
  BY <1>1, <1>2, <1>3, Zenon DEF TypeOK
<1>7. \A y \in OrderIds : y # x => orders'[y] = orders[y]
  BY <1>1, <1>2, <1>3, Zenon DEF TypeOK
<1>8. /\ orders'[x].user = orders[x].user /\ PositionKey(orders'[x]) = PositionKey(orders[x])
      /\ orders'[x].side = orders[x].side /\ orders'[x].type = orders[x].type
      /\ orders'[x].price = orders[x].price /\ orders'[x].locked = orders[x].locked
      /\ orders'[x].remaining = orders[x].remaining
  BY <1>5, <1>6, Zenon DEF Order, PositionKey
<1>9. Exists(x)'
  <2>1. StatusAfterMatch(orders[x]) \in Statuses
    BY Zenon DEF StatusAfterMatch, Statuses
  <2>2. [orders[x] EXCEPT !.status = StatusAfterMatch(orders[x])] \in Order
    BY <1>5, <2>1, Zenon DEF Order
  <2>3. orders'[x] = [orders[x] EXCEPT !.status = StatusAfterMatch(orders[x])]
    BY <1>1, <1>2, <1>3, Zenon DEF TypeOK
  <2> QED
    BY <2>2, <2>3, ConstantsAssumption, Zenon DEF Exists
<1>10. ASSUME NEW y \in OrderIds PROVE SameFunds(y)
  <2>1. CASE y = x
    BY <1>3, <1>8, <1>9, <2>1, Zenon DEF SameFunds
  <2>2. CASE y # x
    <3>1. orders'[y] = orders[y]
      BY <1>7, <2>2, Zenon
    <3> QED
      BY <3>1, Zenon DEF SameFunds, Exists
  <2> QED
    BY <2>1, <2>2, Zenon
<1>11. BalancesSound'
  BY <1>1, <1>2, <1>10, BalancesFrame, Zenon DEF LedgerInv
<1>12. TradesOfOrders'
  <2> SUFFICES ASSUME NEW j \in Unsettled(p)' PROVE OfOrders(trades[p][j])'
    BY <1>1, <1>4, Zenon DEF TradesOfOrders
  <2>1. PICK u : u = trades[p][j]
    BY Zenon
  <2>2. j \in Unsettled(p) /\ u \in Trade
    <3>1. j \in Unsettled(p)
      BY <1>1, Zenon DEF Unsettled
    <3>2. j \in 1..Len(trades[p])
      BY <1>2, <3>1, DueType, Zenon
    <3>3. trades[p] \in Seq(Trade)
      BY <1>2, Zenon DEF TypeOK
    <3> QED
      BY <2>1, <3>1, <3>2, <3>3
  <2>3. OfOrders(u)
    BY <1>4, <2>1, <2>2, Zenon DEF LedgerInv, TradesOfOrders
  <2>4. OfOrders(u)'
    BY <1>10, <2>2, <2>3, OfOrdersFrame, Zenon DEF SameFunds
  <2> QED
    BY <1>1, <2>1, <2>4, Zenon DEF OfOrders, BuyOrder, SellOrder
<1>13. ASSUME NEW y \in OrderIds, Exists(y) PROVE Due(y)' = Due(y)
  <2>1. orders'[y].side = orders[y].side
    BY <1>10, <1>13, Zenon DEF SameFunds
  <2>2. DueIn(p, y)' = DueIn(p, y)
    BY <1>1, <2>1, DueSame, Zenon
  <2> QED
    BY <1>1, <1>4, <2>2, Zenon DEF Due
<1>14. LocksCover'
  <2> SUFFICES ASSUME NEW y \in OrderIds, Exists(y)' PROVE Covers(orders'[y], Due(y)')
    BY Zenon DEF LocksCover, Covers
  <2>1. Exists(y)
    BY <1>10, Zenon DEF SameFunds
  <2>2. Covers(orders[y], Due(y)) /\ Due(y)' = Due(y)
    BY <1>13, <2>1, Zenon DEF LedgerInv, LocksCover
  <2>3. CASE y = x
    BY <1>3, <1>8, <2>2, <2>3, Zenon DEF Covers
  <2>4. CASE y # x
    BY <1>7, <2>2, <2>4, Zenon
  <2> QED
    BY <2>3, <2>4, Zenon
<1> QED
  BY <1>11, <1>12, <1>14, Zenon DEF LedgerInv

\* What settleTradeLocked does to the locked funds of an order of the trade.
LEMMA ReduceLockFields ==
  ASSUME NEW o \in Order, NEW t \in Trade
  PROVE  LET n == ReduceLock(o, t)
             w == IF o.side = "BUY" THEN t.quantity * t.price ELSE t.quantity
         IN  /\ n.user = o.user /\ PositionKey(n) = PositionKey(o)
             /\ n.side = o.side /\ n.type = o.type /\ n.price = o.price
             /\ n.status = o.status /\ n.remaining = o.remaining
             /\ w \in Nat /\ n.locked = AtLeastZero(o.locked - w)
             /\ w <= o.locked => n.locked = o.locked - w
<1>1. t.quantity * t.price \in Nat /\ t.quantity \in Nat
  BY DEF Trade
<1>2. PICK w \in Nat : w = IF o.side = "BUY" THEN t.quantity * t.price ELSE t.quantity
  BY <1>1, Zenon
<1>3. o.locked \in Nat
  BY Zenon DEF Order
<1>4. AtLeastZero(o.locked - w) \in Nat /\ (w <= o.locked => AtLeastZero(o.locked - w) = o.locked - w)
  BY <1>2, <1>3 DEF AtLeastZero
<1>5. ReduceLock(o, t) = [o EXCEPT !.locked = AtLeastZero(o.locked - w)]
  BY <1>2, Zenon DEF ReduceLock, Order
<1>6. PICK l \in Nat : l = AtLeastZero(o.locked - w)
  BY <1>4, Zenon
<1>7. ReduceLock(o, t) = [o EXCEPT !.locked = l]
  BY <1>5, <1>6, Zenon
<1>8. /\ ReduceLock(o, t).user = o.user /\ PositionKey(ReduceLock(o, t)) = PositionKey(o)
      /\ ReduceLock(o, t).side = o.side /\ ReduceLock(o, t).type = o.type
      /\ ReduceLock(o, t).price = o.price /\ ReduceLock(o, t).status = o.status
      /\ ReduceLock(o, t).remaining = o.remaining /\ ReduceLock(o, t).locked = l
  BY <1>7, Zenon DEF Order, PositionKey
<1> QED
  BY <1>2, <1>4, <1>6, <1>8, Zenon

(***************************************************************************)
(* Settlement: settleTradeLocked takes what is due from both orders and    *)
(* moves the shares and the cash.                                          *)
(***************************************************************************)

\* The next trade to settle is among those not settled yet.
LEMMA NextUnsettled ==
  ASSUME NEW a \in Nat, NEW n \in Nat, a < n
  PROVE  a + 1 \in (a + 1)..n
  OBVIOUS

\* What settleTradeLocked does to the two orders of the trade it settles:
\* each loses what the trade costs it, and the seller's lock covers that.
Settles(p, t, b, s) ==
    /\ t \in Trade /\ b \in OrderIds /\ s \in OrderIds /\ b # s
    /\ OfOrders(t) /\ b = BuyOrder(t) /\ s = SellOrder(t)
    /\ \A y \in OrderIds : y \in {t.taker, t.maker} <=> y \in {b, s}
    /\ t = trades[p][at[p] + 1] /\ at[p] < Len(trades[p])
    /\ mu = p /\ p # Unlocked
    /\ orders'[b] = ReduceLock(orders[b], t)
    /\ orders'[s] = ReduceLock(orders[s], t)
    /\ \A y \in OrderIds : y \notin {b, s} => orders'[y] = orders[y]
    /\ trades' = trades /\ mu' = mu /\ at'[p] = at[p] + 1

\* Every settleTradeLocked step is of that form.
LEMMA SettlesEffect ==
  ASSUME Consistent, LedgerInv, NEW p \in Partitions, settleTradeLocked(p)
  PROVE  \E t, b, s :
            /\ Settles(p, t, b, s)
            /\ accounts' = accounts \cup {t.buyer, t.seller}
            /\ cashReserved' =
                  [cashReserved EXCEPT ![t.buyer] = AtLeastZero(@ - t.quantity * t.price)]
            /\ sharesAvailable' = [sharesAvailable EXCEPT
                  ![<<t.buyer, t.event, t.outcome>>] = @ + t.quantity]
            /\ cashAvailable' =
                  [cashAvailable EXCEPT ![t.seller] = @ + t.quantity * t.price]
            /\ sharesReserved' = [sharesReserved EXCEPT
                  ![<<t.seller, t.event, t.outcome>>] = AtLeastZero(@ - t.quantity)]
            /\ granted' = granted
<1>1. PICK t : t = trades[p][at[p] + 1]
  BY Zenon
<1>2. /\ pc[p] = "settling" /\ at[p] < Len(trades[p])
      /\ accounts' = accounts \cup {t.buyer, t.seller}
      /\ cashReserved' =
            [cashReserved EXCEPT ![t.buyer] = AtLeastZero(@ - t.quantity * t.price)]
      /\ sharesAvailable' = [sharesAvailable EXCEPT
            ![<<t.buyer, t.event, t.outcome>>] = @ + t.quantity]
      /\ cashAvailable' =
            [cashAvailable EXCEPT ![t.seller] = @ + t.quantity * t.price]
      /\ sharesReserved' = [sharesReserved EXCEPT
            ![<<t.seller, t.event, t.outcome>>] = AtLeastZero(@ - t.quantity)]
      /\ orders' = [x \in OrderIds |->
            IF x \in {t.taker, t.maker} /\ orders[x] # NoOrder
            THEN ReduceLock(orders[x], t) ELSE orders[x]]
      /\ at' = [at EXCEPT ![p] = @ + 1]
      /\ trades' = trades /\ mu' = mu /\ granted' = granted
  BY <1>1, Zenon DEF settleTradeLocked
<1>3. TypeOK
  BY Zenon DEF Consistent
<1>4. mu = p /\ p # Unlocked
  BY <1>2, ConstantsAssumption, Zenon DEF Consistent, WorkersConsistent
<1>5. trades[p] \in Seq(Trade) /\ at[p] \in Nat
  BY <1>3, Zenon DEF TypeOK
<1>6. at[p] + 1 \in Unsettled(p) /\ t \in Trade
  <2>1. t \in Trade
    BY <1>1, <1>3, SettledTradeType, Zenon
  <2>2. at[p] + 1 \in Unsettled(p)
    <3>1. Len(trades[p]) \in Nat
      BY <1>5, LenProperties, Zenon
    <3> QED
      BY <1>2, <1>5, <3>1, NextUnsettled, Zenon DEF Unsettled
  <2> QED
    BY <2>1, <2>2, Zenon
<1>7. OfOrders(t)
  BY <1>1, <1>4, <1>6, Zenon DEF LedgerInv, TradesOfOrders
<1>8. PICK b, s : b = BuyOrder(t) /\ s = SellOrder(t)
  BY Zenon
<1>9. t.taker \in OrderIds /\ t.maker \in OrderIds
  BY <1>6, Zenon DEF Trade
<1>10. /\ b \in OrderIds /\ s \in OrderIds /\ b # s
       /\ \A y \in OrderIds : y \in {t.taker, t.maker} <=> y \in {b, s}
  BY <1>7, <1>8, <1>9, Zenon DEF OfOrders, BuyOrder, SellOrder
<1>11. Exists(b) /\ Exists(s)
  BY <1>7, <1>8, Zenon DEF OfOrders, BuyOrder, SellOrder
<1>12. /\ orders'[b] = ReduceLock(orders[b], t)
       /\ orders'[s] = ReduceLock(orders[s], t)
       /\ \A y \in OrderIds : y \notin {b, s} => orders'[y] = orders[y]
  BY <1>2, <1>10, <1>11, Zenon DEF Exists
<1>13. at'[p] = at[p] + 1
  BY <1>2, <1>3, Zenon DEF TypeOK
<1>14. Settles(p, t, b, s)
  BY <1>1, <1>2, <1>4, <1>6, <1>7, <1>8, <1>10, <1>12, <1>13, Zenon DEF Settles
<1> QED
  BY <1>2, <1>14, Zenon

\* What the step leaves of the orders: all but the locked funds of the two.
SettledOrders(t, b, s) ==
    /\ \A y \in OrderIds :
          /\ Exists(y)' <=> Exists(y)
          /\ Exists(y) =>
                /\ orders'[y].user = orders[y].user
                /\ PositionKey(orders[y])' = PositionKey(orders[y])
                /\ orders'[y].side = orders[y].side
                /\ orders'[y].type = orders[y].type
                /\ orders'[y].price = orders[y].price
                /\ orders'[y].status = orders[y].status
                /\ orders'[y].remaining = orders[y].remaining
          /\ Exists(y) /\ y \notin {b, s} => orders'[y].locked = orders[y].locked
    /\ Exists(b) /\ orders[b].side = "BUY" /\ orders[b].user = t.buyer
    /\ Exists(s) /\ orders[s].side = "SELL"
    /\ PositionKey(orders[s]) = <<t.seller, t.event, t.outcome>>
    /\ t.quantity \in Nat /\ t.quantity * t.price \in Nat
    /\ orders'[s].locked = orders[s].locked - t.quantity
    /\ t.quantity <= orders[s].locked
    /\ orders[b].type = "LIMIT" =>
          /\ orders'[b].locked = orders[b].locked - t.quantity * t.price
          /\ t.quantity * t.price <= orders[b].locked
    /\ Due(b)' = Due(b) - t.quantity * t.price
    /\ Due(s)' = Due(s) - t.quantity
    /\ \A y \in OrderIds : Exists(y) /\ y \notin {b, s} => Due(y)' = Due(y)
    /\ \A y \in OrderIds : Exists(y) => Due(y) \in Nat

\* The orders keep everything but their locked funds.
LEMMA SettlesOrders ==
  ASSUME TypeOK, LedgerInv, NEW p \in Partitions, NEW t, NEW b, NEW s,
         Settles(p, t, b, s)
  PROVE  SettledOrders(t, b, s)
<1>1. /\ t \in Trade /\ b \in OrderIds /\ s \in OrderIds /\ b # s
      /\ OfOrders(t) /\ b = BuyOrder(t) /\ s = SellOrder(t)
      /\ orders'[b] = ReduceLock(orders[b], t)
      /\ orders'[s] = ReduceLock(orders[s], t)
      /\ \A y \in OrderIds : y \notin {b, s} => orders'[y] = orders[y]
  BY Zenon DEF Settles
<1>2. /\ \A y \in OrderIds : y \in {t.taker, t.maker} <=> y \in {b, s}
      /\ t = trades[p][at[p] + 1] /\ at[p] < Len(trades[p])
      /\ mu = p /\ p # Unlocked
      /\ trades' = trades /\ mu' = mu /\ at'[p] = at[p] + 1
  BY Zenon DEF Settles
<1>3. /\ Exists(b) /\ orders[b].side = "BUY" /\ orders[b].user = t.buyer
      /\ Exists(s) /\ orders[s].side = "SELL"
      /\ PositionKey(orders[s]) = <<t.seller, t.event, t.outcome>>
  BY <1>1, Zenon DEF OfOrders, BuyOrder, SellOrder
<1>4. orders[b] \in Order /\ orders[s] \in Order
  BY <1>1, <1>3, Zenon DEF TypeOK, Exists
<1>5. PICK q \in Nat, c \in Nat : q = t.quantity /\ c = t.quantity * t.price
  BY <1>1 DEF Trade
<1>6. /\ orders'[b].user = orders[b].user
      /\ PositionKey(orders'[b]) = PositionKey(orders[b])
      /\ orders'[b].side = orders[b].side /\ orders'[b].type = orders[b].type
      /\ orders'[b].price = orders[b].price /\ orders'[b].status = orders[b].status
      /\ orders'[b].remaining = orders[b].remaining
      /\ c <= orders[b].locked => orders'[b].locked = orders[b].locked - c
  <2>1. t \in Trade /\ orders[b] \in Order /\ orders'[b] = ReduceLock(orders[b], t)
    BY <1>1, <1>4, Zenon
  <2>2. c = IF orders[b].side = "BUY" THEN t.quantity * t.price ELSE t.quantity
    BY <1>3, <1>5, Zenon
  <2> QED
    BY <2>1, <2>2, ReduceLockFields
<1>7. /\ orders'[s].user = orders[s].user
      /\ PositionKey(orders'[s]) = PositionKey(orders[s])
      /\ orders'[s].side = orders[s].side /\ orders'[s].type = orders[s].type
      /\ orders'[s].price = orders[s].price /\ orders'[s].status = orders[s].status
      /\ orders'[s].remaining = orders[s].remaining
      /\ q <= orders[s].locked => orders'[s].locked = orders[s].locked - q
  <2>1. t \in Trade /\ orders[s] \in Order /\ orders'[s] = ReduceLock(orders[s], t)
    BY <1>1, <1>4, Zenon
  <2>2. q = IF orders[s].side = "BUY" THEN t.quantity * t.price ELSE t.quantity
    BY <1>3, <1>5, Zenon
  <2> QED
    BY <2>1, <2>2, ReduceLockFields
<1>8. ASSUME NEW o \in Order PROVE ReduceLock(o, t) # NoOrder
  <2>1. PICK w \in Nat :
          w = AtLeastZero(o.locked - (IF o.side = "BUY" THEN c ELSE q))
    <3>1. o.locked \in Nat
      BY Zenon DEF Order
    <3> QED
      BY <1>5, <3>1 DEF AtLeastZero
  <2>2. ReduceLock(o, t) = [o EXCEPT !.locked = w]
    BY <1>5, <2>1, Zenon DEF ReduceLock
  <2>3. [o EXCEPT !.locked = w] \in Order
    BY <2>1, Zenon DEF Order
  <2> QED
    BY <2>2, <2>3, ConstantsAssumption, Zenon
<1>9. ASSUME NEW y \in OrderIds
      PROVE  /\ Exists(y)' <=> Exists(y)
             /\ Exists(y) =>
                     /\ orders'[y].user = orders[y].user
                     /\ PositionKey(orders[y])' = PositionKey(orders[y])
                     /\ orders'[y].side = orders[y].side
                     /\ orders'[y].type = orders[y].type
                     /\ orders'[y].price = orders[y].price
                     /\ orders'[y].status = orders[y].status
                     /\ orders'[y].remaining = orders[y].remaining
             /\ Exists(y) /\ y \notin {b, s} => orders'[y].locked = orders[y].locked
  <2>1. CASE y = b
    BY <1>1, <1>3, <1>4, <1>6, <1>8, <2>1, Zenon DEF Exists
  <2>2. CASE y = s
    BY <1>1, <1>3, <1>4, <1>7, <1>8, <2>2, Zenon DEF Exists
  <2>3. CASE y \notin {b, s}
    <3>1. orders'[y] = orders[y]
      BY <1>1, <2>3, Zenon
    <3> QED
      BY <3>1, Zenon DEF Exists
  <2> QED
    BY <2>1, <2>2, <2>3, Zenon
<1>10. ASSUME NEW y \in OrderIds, Exists(y)
       PROVE  /\ Due(y) \in Nat /\ Owed(y, t) <= Due(y)
              /\ Due(y)' = Due(y) - Owed(y, t)
  <2>1. orders'[y].side = orders[y].side
    BY <1>9, <1>10, Zenon
  <2>2. /\ DueIn(p, y)' = DueIn(p, y) - Owed(y, trades[p][at[p] + 1])
        /\ Owed(y, trades[p][at[p] + 1]) <= DueIn(p, y)
    BY <1>2, <2>1, DueSettle, Zenon
  <2>3. DueIn(p, y) \in Nat
    BY DueType, Zenon
  <2>4. Due(y) = DueIn(p, y) /\ Due(y)' = DueIn(p, y)'
    BY <1>2, Zenon DEF Due
  <2> QED
    BY <1>2, <2>2, <2>3, <2>4, Zenon
<1>11. /\ Owed(b, t) = c /\ Owed(s, t) = q
       /\ \A y \in OrderIds : y \notin {b, s} => Owed(y, t) = 0
  BY <1>1, <1>2, <1>3, <1>5, Zenon DEF Owed
<1>12. /\ Due(b) \in Nat /\ c <= Due(b) /\ Due(b)' = Due(b) - c
       /\ Due(s) \in Nat /\ q <= Due(s) /\ Due(s)' = Due(s) - q
  BY <1>1, <1>3, <1>10, <1>11, Zenon
<1>13. \A y \in OrderIds : Exists(y) /\ y \notin {b, s} => Due(y)' = Due(y)
  BY <1>10, <1>11
<1>14. q <= orders[s].locked /\ (orders[b].type = "LIMIT" => c <= orders[b].locked)
  <2>1. Covers(orders[b], Due(b)) /\ Covers(orders[s], Due(s))
    BY <1>1, <1>3, Zenon DEF LedgerInv, LocksCover
  <2>2. orders[b].locked \in Nat /\ orders[s].locked \in Nat
    BY <1>4, Zenon DEF Order
  <2>3. orders[s].locked >= Due(s)
    BY <1>3, <2>1, Zenon DEF Covers
  <2>4. orders[b].type = "LIMIT" => orders[b].locked >= Due(b)
    BY <1>3, <2>1, Zenon DEF Covers
  <2> QED
    BY <1>12, <2>2, <2>3, <2>4
<1> QED
  BY <1>3, <1>5, <1>6, <1>7, <1>9, <1>10, <1>12, <1>13, <1>14, Zenon
     DEF SettledOrders

\* Settlement keeps the locks covering what is due.
LEMMA SettleCover ==
  ASSUME TypeOK, LedgerInv, NEW p \in Partitions, NEW t, NEW b, NEW s,
         Settles(p, t, b, s)
  PROVE  TradesOfOrders' /\ LocksCover'
<1>0. SettledOrders(t, b, s)
  BY SettlesOrders, Zenon
<1>1. /\ t \in Trade /\ b \in OrderIds /\ s \in OrderIds /\ b # s
      /\ mu = p /\ p # Unlocked /\ t = trades[p][at[p] + 1] /\ at[p] < Len(trades[p])
      /\ trades' = trades /\ mu' = mu /\ at'[p] = at[p] + 1
  BY Zenon DEF Settles
<1>2. \A y \in OrderIds :
         /\ Exists(y)' <=> Exists(y)
         /\ Exists(y) =>
               /\ orders'[y].user = orders[y].user
               /\ PositionKey(orders[y])' = PositionKey(orders[y])
               /\ orders'[y].side = orders[y].side
               /\ orders'[y].type = orders[y].type
               /\ orders'[y].price = orders[y].price
               /\ orders'[y].status = orders[y].status
               /\ orders'[y].remaining = orders[y].remaining
         /\ Exists(y) /\ y \notin {b, s} =>
               orders'[y].locked = orders[y].locked /\ Due(y)' = Due(y)
         /\ Exists(y) => Due(y) \in Nat
  BY <1>0, Zenon DEF SettledOrders
<1>3. TradesOfOrders'
  <2> SUFFICES ASSUME NEW j \in Unsettled(p)' PROVE OfOrders(trades[p][j])'
    BY <1>1, Zenon DEF TradesOfOrders
  <2>1. PICK u : u = trades[p][j]
    BY Zenon
  <2>2. trades[p] \in Seq(Trade) /\ at[p] \in Nat /\ Len(trades[p]) \in Nat
    BY DEF TypeOK
  <2>3. j \in ((at[p] + 2)..Len(trades[p]))
    BY <1>1, <2>2 DEF Unsettled
  <2>4. j \in Unsettled(p) /\ u \in Trade
    BY <2>1, <2>2, <2>3 DEF Unsettled
  <2>5. OfOrders(u)
    BY <1>1, <2>1, <2>4, Zenon DEF LedgerInv, TradesOfOrders
  <2>6. OfOrders(u)'
    BY <1>2, <2>4, <2>5, OfOrdersFrame, Zenon
  <2> QED
    BY <1>1, <2>1, <2>6, Zenon DEF OfOrders, BuyOrder, SellOrder
<1>4. LocksCover'
  <2> SUFFICES ASSUME NEW y \in OrderIds, Exists(y)' PROVE Covers(orders'[y], Due(y)')
    BY Zenon DEF LocksCover, Covers
  <2>1. /\ Exists(y) /\ Covers(orders[y], Due(y))
        /\ orders'[y].side = orders[y].side /\ orders'[y].type = orders[y].type
        /\ orders'[y].price = orders[y].price /\ orders'[y].status = orders[y].status
        /\ orders'[y].remaining = orders[y].remaining
    BY <1>2, Zenon DEF LedgerInv, LocksCover
  <2>2. orders[y] \in Order
    BY <2>1, Zenon DEF TypeOK, Exists
  <2>3. PICK l \in Nat, w \in Nat, r \in Nat, d \in Nat :
          /\ l = orders[y].locked /\ r = orders[y].remaining
          /\ w = orders[y].remaining * orders[y].price /\ d = Due(y)
    <3>1. orders[y].remaining \in Nat /\ orders[y].price \in Nat /\ orders[y].locked \in Nat
      BY <2>2, Zenon DEF Order
    <3>2. orders[y].remaining * orders[y].price \in Nat
      BY <3>1
    <3> QED
      BY <1>2, <2>1, <3>1, <3>2, Zenon
  <2>4. orders'[y].remaining * orders'[y].price = w
    BY <2>1, <2>3, Zenon
  <2>5. CASE y = b
    <3>1. PICK c \in Nat : c = t.quantity * t.price
      BY <1>0, Zenon DEF SettledOrders
    <3>2. /\ orders[y].side = "BUY" /\ Due(y)' = d - c
          /\ orders[y].type = "LIMIT" => orders'[y].locked = l - c /\ c <= l
      BY <2>3, <2>5, <3>1, <1>0, Zenon DEF SettledOrders
    <3>3. orders[y].type = "LIMIT" => l >= d /\ (orders[y].status # "CANCELED" => l >= w + d)
      BY <2>1, <2>3, <3>2, Zenon DEF Covers
    <3> QED
      <4>1. /\ l >= d => l - c >= d - c
            /\ l >= w + d => l - c >= w + (d - c)
        BY <2>3, <3>1, CoverFalls, Zenon
      <4> QED
        BY <2>1, <2>4, <3>2, <3>3, <4>1, Zenon DEF Covers
  <2>6. CASE y = s
    <3>1. PICK c \in Nat : c = t.quantity
      BY <1>0, Zenon DEF SettledOrders
    <3>2. orders[y].side = "SELL" /\ Due(y)' = d - c /\ orders'[y].locked = l - c /\ c <= l
      BY <2>3, <2>6, <3>1, <1>0, Zenon DEF SettledOrders
    <3>3. l >= d /\ (orders[y].status # "CANCELED" => l = r + d)
      BY <2>1, <2>3, <3>2, Zenon DEF Covers
    <3> QED
      <4>1. /\ l >= d => l - c >= d - c
            /\ l = r + d => l - c = r + (d - c)
        BY <2>3, <3>1, CoverFalls
      <4>2. orders'[y].remaining = r
        BY <2>1, <2>3, Zenon
      <4> QED
        BY <2>1, <3>2, <3>3, <4>1, <4>2, Zenon DEF Covers
  <2>7. CASE y \notin {b, s}
    <3>1. orders'[y].locked = orders[y].locked /\ Due(y)' = Due(y)
      BY <1>2, <2>1, <2>7, Zenon
    <3> QED
      BY <2>1, <3>1, Zenon DEF Covers
  <2> QED
    BY <2>5, <2>6, <2>7, Zenon
<1> QED
  BY <1>3, <1>4, Zenon

\* Settlement moves shares from the seller's reserve to the buyer.
LEMMA SettleShares ==
  ASSUME TypeOK, TypeOK', LedgerInv, NEW p \in Partitions, NEW t, NEW b, NEW s,
         Settles(p, t, b, s),
         sharesAvailable' = [sharesAvailable EXCEPT
            ![<<t.buyer, t.event, t.outcome>>] = @ + t.quantity],
         sharesReserved' = [sharesReserved EXCEPT
            ![<<t.seller, t.event, t.outcome>>] = AtLeastZero(@ - t.quantity)]
  PROVE  SharesBacked' /\ SharesConserved'
<1>0. SettledOrders(t, b, s)
  BY SettlesOrders, Zenon
<1>1. PICK q \in Nat : q = t.quantity
  BY <1>0, Zenon DEF SettledOrders
<1>2. /\ b \in OrderIds /\ s \in OrderIds /\ t \in Trade
      /\ Exists(s) /\ orders[s].side = "SELL"
      /\ orders[b].side = "BUY"
      /\ orders'[s].locked = orders[s].locked - q /\ q <= orders[s].locked
  BY <1>0, <1>1, Zenon DEF Settles, SettledOrders
<1>3. PICK K, B : /\ K = <<t.seller, t.event, t.outcome>> /\ B = <<t.buyer, t.event, t.outcome>>
                  /\ K \in PositionKeys /\ B \in PositionKeys
                  /\ PositionKey(orders[s]) = K
  <2>1. t.seller \in Users /\ t.buyer \in Users /\ t.event \in Events /\ t.outcome \in Outcomes
    BY <1>2, Zenon DEF Trade
  <2>2. PositionKey(orders[s]) = <<t.seller, t.event, t.outcome>>
    BY <1>0, Zenon DEF SettledOrders
  <2>3. /\ <<t.seller, t.event, t.outcome>> \in PositionKeys
        /\ <<t.buyer, t.event, t.outcome>> \in PositionKeys
    BY <2>1, Zenon DEF PositionKeys
  <2> QED
    BY <2>2, <2>3, Zenon
<1>4. \A y \in OrderIds :
         /\ Exists(y)' <=> Exists(y)
         /\ Exists(y) =>
               /\ PositionKey(orders'[y]) = PositionKey(orders[y])
               /\ orders'[y].side = orders[y].side
         /\ Exists(y) /\ y \notin {b, s} => orders'[y].locked = orders[y].locked
  BY <1>0, Zenon DEF SettledOrders, PositionKey
<1>5. ASSUME NEW k PROVE LockedShares(k)' = LockedShares(k) - (IF k = K THEN q ELSE 0)
  <2>1. ASSUME NEW y \in OrderIds
        PROVE /\ y \in ShareOrders(k)' <=> y \in ShareOrders(k)
              /\ y \in ShareOrders(k) => Exists(y) /\ y # b
    BY <1>2, <1>4, Zenon DEF ShareOrders
  <2>2. \A y \in OrderIds \ {s} :
            /\ y \in ShareOrders(k)' <=> y \in ShareOrders(k)
            /\ y \in ShareOrders(k) => orders'[y].locked = orders[y].locked
    BY <1>4, <2>1, Zenon
  <2>3. LockedShares(k)' = LockedShares(k) - ShareClaim(s, k) + ShareClaim(s, k)'
    BY <1>2, <2>2, LockedSharesChange, Zenon
  <2>4. s \in ShareOrders(k) <=> k = K
    BY <1>2, <1>3, Zenon DEF ShareOrders
  <2>5. LockedShares(k) \in Nat
    BY LockedType, Zenon DEF LocksCounted
  <2>6. orders[s].locked \in Nat
    BY <1>2, Zenon DEF TypeOK, Exists, Order
  <2>7. CASE k = K
    <3>1. ShareClaim(s, k) = orders[s].locked /\ ShareClaim(s, k)' = orders'[s].locked
      BY <1>2, <2>1, <2>4, <2>7, Zenon DEF ShareClaim
    <3> QED
      <4>1. LockedShares(k) - orders[s].locked + (orders[s].locked - q) = LockedShares(k) - q
        BY <1>1, <2>5, <2>6, ClaimFalls, Zenon
      <4> QED
        BY <1>2, <2>3, <2>7, <3>1, <4>1, Zenon
  <2>8. CASE k # K
    <3>1. ShareClaim(s, k) = 0 /\ ShareClaim(s, k)' = 0
      BY <1>2, <2>1, <2>4, <2>8, Zenon DEF ShareClaim
    <3> QED
      BY <2>3, <2>5, <2>8, <3>1, NothingMoves, Zenon
  <2> QED
    BY <2>7, <2>8, Zenon
<1>6. \A k \in PositionKeys : /\ sharesAvailable[k] \in Nat /\ sharesReserved[k] \in Nat
                              /\ sharesAvailable'[k] \in Nat /\ sharesReserved'[k] \in Nat
  BY Zenon DEF TypeOK
<1>7. \A k \in PositionKeys : LockedShares(k) \in Nat /\ LockedShares(k) <= sharesReserved[k]
  BY LockedType, Zenon DEF LocksCounted, LedgerInv, BalancesSound, SharesBacked
<1>8. q <= sharesReserved[K]
  <2>1. s \in ShareOrders(K)
    BY <1>2, <1>3, Zenon DEF ShareOrders
  <2>2. orders[s].locked <= LockedShares(K)
    BY <2>1, LockedType, Zenon DEF LocksCounted
  <2>3. orders[s].locked \in Nat
    BY <1>2, Zenon DEF TypeOK, Exists, Order
  <2> QED
    BY <1>1, <1>2, <1>3, <1>6, <1>7, <2>2, <2>3, WithinAll, Zenon
<1>9. /\ sharesAvailable' = [sharesAvailable EXCEPT ![B] = @ + q]
      /\ sharesReserved' = [sharesReserved EXCEPT ![K] = AtLeastZero(@ - q)]
  BY <1>1, <1>3, Zenon
<1>10. ASSUME NEW k \in PositionKeys
       PROVE  /\ sharesAvailable'[k] = sharesAvailable[k] + (IF k = B THEN q ELSE 0)
              /\ sharesReserved'[k] = sharesReserved[k] - (IF k = K THEN q ELSE 0)
  <2>1. sharesAvailable'[k] = IF k = B THEN sharesAvailable[k] + q ELSE sharesAvailable[k]
    BY <1>3, <1>9, Zenon DEF TypeOK
  <2>2. sharesReserved'[k] = IF k = K THEN AtLeastZero(sharesReserved[k] - q) ELSE sharesReserved[k]
    BY <1>3, <1>9, Zenon DEF TypeOK
  <2>3. sharesAvailable[k] \in Nat /\ sharesReserved[k] \in Nat
    BY <1>6, Zenon
  <2>4. k = K => AtLeastZero(sharesReserved[k] - q) = sharesReserved[k] - q
    BY <1>1, <1>8, <2>3, ClampIdle, Zenon
  <2> QED
    BY <2>1, <2>2, <2>3, <2>4, NothingMoves, Zenon
<1>11. SharesBacked'
  <2> SUFFICES ASSUME NEW k \in PositionKeys PROVE LockedShares(k)' <= sharesReserved'[k]
    BY Zenon DEF SharesBacked
  <2>1. /\ sharesReserved'[k] = sharesReserved[k] - (IF k = K THEN q ELSE 0)
        /\ LockedShares(k)' = LockedShares(k) - (IF k = K THEN q ELSE 0)
        /\ LockedShares(k) \in Nat /\ LockedShares(k) <= sharesReserved[k]
        /\ sharesReserved[k] \in Nat
    BY <1>5, <1>6, <1>7, <1>10, Zenon
  <2> QED
    BY <1>1, <2>1
<1>12. SharesConserved'
  <2> SUFFICES ASSUME NEW e \in Events, NEW out \in Outcomes
               PROVE  Total([u \in Users |-> sharesAvailable'[<<u, e, out>>]
                                               + sharesReserved'[<<u, e, out>>]], Users)
                        = Total([u \in Users |-> SeedShares[<<u, e, out>>]], Users)
    BY Zenon DEF SharesConserved
  <2> DEFINE F0 == [u \in Users |-> sharesAvailable[<<u, e, out>>] + sharesReserved[<<u, e, out>>]]
             G0 == [u \in Users |-> sharesAvailable'[<<u, e, out>>] + sharesReserved'[<<u, e, out>>]]
  <2>1. Total(F0, Users) = Total([u \in Users |-> SeedShares[<<u, e, out>>]], Users)
    BY Zenon DEF LedgerInv, BalancesSound, SharesConserved
  <2>2. ASSUME NEW u \in Users
        PROVE  /\ <<u, e, out>> \in PositionKeys
               /\ F0[u] \in Nat /\ G0[u] \in Nat
               /\ <<u, e, out>> = K => q <= F0[u]
               /\ G0[u] = F0[u] - (IF <<u, e, out>> = K THEN q ELSE 0)
                                + (IF <<u, e, out>> = B THEN q ELSE 0)
    <3>1. PICK k \in PositionKeys : k = <<u, e, out>>
      BY Zenon DEF PositionKeys
    <3>2. F0[u] = sharesAvailable[k] + sharesReserved[k] /\ G0[u] = sharesAvailable'[k] + sharesReserved'[k]
      BY <3>1, Zenon
    <3>3. /\ sharesAvailable[k] \in Nat /\ sharesReserved[k] \in Nat
          /\ sharesAvailable'[k] \in Nat /\ sharesReserved'[k] \in Nat
          /\ sharesAvailable'[k] = sharesAvailable[k] + (IF k = B THEN q ELSE 0)
          /\ sharesReserved'[k] = sharesReserved[k] - (IF k = K THEN q ELSE 0)
          /\ k = K => q <= sharesReserved[k]
      BY <1>6, <1>8, <1>10, Zenon
    <3>4. /\ F0[u] \in Nat /\ G0[u] \in Nat /\ (k = K => q <= F0[u])
          /\ G0[u] = F0[u] - (IF k = K THEN q ELSE 0) + (IF k = B THEN q ELSE 0)
      <4>1. PICK x \in Nat, y \in Nat : x = (IF k = B THEN q ELSE 0) /\ y = (IF k = K THEN q ELSE 0)
        BY <1>1, NothingMoves, Zenon
      <4>2. y <= sharesReserved[k]
        BY <3>3, <4>1, NothingMoves, Zenon
      <4>3. F0[u] = sharesAvailable[k] + sharesReserved[k]
            /\ G0[u] = (sharesAvailable[k] + x) + (sharesReserved[k] - y)
        BY <3>2, <3>3, <4>1, Zenon
      <4> HIDE DEF F0, G0
      <4>4. PICK a \in Nat, r \in Nat : a = sharesAvailable[k] /\ r = sharesReserved[k]
        BY <3>3, Zenon
      <4>5. /\ a + r \in Nat /\ (a + x) + (r - y) \in Nat /\ y <= a + r
            /\ (a + x) + (r - y) = (a + r) - y + x
        BY <4>1, <4>2, <4>4, UnitsMove
      <4> QED
        BY <4>1, <4>3, <4>4, <4>5, Zenon
    <3> QED
      BY <3>1, <3>4, Zenon
  <2>3. PICK F, G : F = F0 /\ G = G0
    BY Zenon
  <2>4. F \in [Users -> Nat] /\ G \in [Users -> Nat]
    BY <2>2, <2>3, Zenon
  <2>5. ASSUME NEW u \in Users
        PROVE  G[u] = F[u] - (IF <<u, e, out>> = K THEN q ELSE 0)
                           + (IF <<u, e, out>> = B THEN q ELSE 0)
    BY <2>2, <2>3, Zenon
  <2>6. CASE e = t.event /\ out = t.outcome
    <3>1. t.seller \in Users /\ t.buyer \in Users
      BY <1>2, Zenon DEF Trade
    <3>2. q <= F[t.seller]
      BY <1>3, <2>2, <2>3, <2>6, <3>1, Zenon
    <3>3. \A u \in Users : G[u] = F[u] - (IF u = t.seller THEN q ELSE 0)
                                       + (IF u = t.buyer THEN q ELSE 0)
      <4>1. \A u \in Users : /\ <<u, e, out>> = K <=> u = t.seller
                             /\ <<u, e, out>> = B <=> u = t.buyer
        <5>1. ASSUME NEW u \in Users
              PROVE  /\ <<u, e, out>> = <<t.seller, t.event, t.outcome>> <=> u = t.seller
                     /\ <<u, e, out>> = <<t.buyer, t.event, t.outcome>> <=> u = t.buyer
          BY <2>6
        <5> QED
          BY <1>3, <5>1, Zenon
      <4> QED
        BY <2>5, <4>1, Zenon
    <3>4. IsFiniteSet(Users)
      BY FiniteAssumption, Zenon
    <3>5. PICK from \in Users, to \in Users : from = t.seller /\ to = t.buyer
      BY <3>1, Zenon
    <3>6. /\ q <= F[from]
          /\ \A u \in Users : G[u] = F[u] - (IF u = from THEN q ELSE 0)
                                         + (IF u = to THEN q ELSE 0)
      BY <3>2, <3>3, <3>5, Zenon
    <3>7. MovesUnits(F, G, Users, from, to, q)
      BY <1>1, <2>4, <3>5, <3>6, Zenon DEF MovesUnits
    <3>8. Total(G, Users) = Total(F, Users)
      BY <3>4, <3>7, TotalMove
    <3> QED
      BY <2>1, <2>3, <3>8, Zenon
  <2>7. CASE ~(e = t.event /\ out = t.outcome)
    <3>1. \A u \in Users : F[u] = G[u]
      <4>1. \A u \in Users : <<u, e, out>> # K /\ <<u, e, out>> # B
        BY <1>3, <2>7
      <4>2. \A u \in Users : F[u] \in Nat /\ G[u] = F[u] - 0 + 0
        BY <2>4, <2>5, <4>1, Zenon
      <4> QED
        BY <4>2, NothingMoves, Zenon
    <3>2. Total(F, Users) = Total(G, Users)
      BY <3>1, TotalSame, Zenon
    <3> QED
      BY <2>1, <2>3, <3>2, Zenon
  <2> QED
    BY <2>6, <2>7, Zenon
<1> QED
  BY <1>11, <1>12, Zenon

\* Settlement of a limit buy moves cash from the buyer's reserve to the
\* seller.
LEMMA SettleCash ==
  ASSUME TypeOK, TypeOK', LedgerInv, NoMarketBuys,
         NEW p \in Partitions, NEW t, NEW b, NEW s, Settles(p, t, b, s),
         granted' = granted,
         cashReserved' =
            [cashReserved EXCEPT ![t.buyer] = AtLeastZero(@ - t.quantity * t.price)],
         cashAvailable' =
            [cashAvailable EXCEPT ![t.seller] = @ + t.quantity * t.price]
  PROVE  CashBacked' /\ CashConserved'
<1>0. SettledOrders(t, b, s)
  BY SettlesOrders, Zenon
<1>1. PICK c \in Nat : c = t.quantity * t.price
  BY <1>0, Zenon DEF SettledOrders
<1>2. /\ b \in OrderIds /\ s \in OrderIds /\ t \in Trade
      /\ Exists(b) /\ orders[b].side = "BUY" /\ orders[s].side = "SELL"
  BY <1>0, Zenon DEF Settles, SettledOrders
<1>3. orders[b].type = "LIMIT"
  BY <1>2, Zenon DEF LedgerInv, BalancesSound, BuysLimited
<1>4. orders'[b].locked = orders[b].locked - c /\ c <= orders[b].locked
  BY <1>0, <1>1, <1>3, Zenon DEF SettledOrders
<1>5. PICK B \in Users, S \in Users :
         B = t.buyer /\ S = t.seller /\ orders[b].user = B
  <2>1. t.seller \in Users /\ t.buyer \in Users
    BY <1>2, Zenon DEF Trade
  <2> QED
    BY <1>0, <2>1, Zenon DEF SettledOrders
<1>6. \A y \in OrderIds :
         /\ Exists(y)' <=> Exists(y)
         /\ Exists(y) =>
               /\ orders'[y].user = orders[y].user
               /\ orders'[y].side = orders[y].side
         /\ Exists(y) /\ y \notin {b, s} => orders'[y].locked = orders[y].locked
  BY <1>0, Zenon DEF SettledOrders
<1>7. ASSUME NEW u PROVE LockedCash(u)' = LockedCash(u) - (IF u = B THEN c ELSE 0)
  <2>1. ASSUME NEW y \in OrderIds
        PROVE /\ y \in CashOrders(u)' <=> y \in CashOrders(u)
              /\ y \in CashOrders(u) => Exists(y) /\ y # s
    BY <1>2, <1>6, Zenon DEF CashOrders
  <2>2. \A y \in OrderIds \ {b} :
            /\ y \in CashOrders(u)' <=> y \in CashOrders(u)
            /\ y \in CashOrders(u) => orders'[y].locked = orders[y].locked
    BY <1>6, <2>1, Zenon
  <2>3. LockedCash(u)' = LockedCash(u) - CashClaim(b, u) + CashClaim(b, u)'
    BY <1>2, <2>2, LockedCashChange, Zenon
  <2>4. b \in CashOrders(u) <=> u = B
    BY <1>2, <1>5, Zenon DEF CashOrders
  <2>5. LockedCash(u) \in Nat
    BY LockedType, Zenon DEF LocksCounted
  <2>6. orders[b].locked \in Nat
    BY <1>2, Zenon DEF TypeOK, Exists, Order
  <2>7. CASE u = B
    <3>1. CashClaim(b, u) = orders[b].locked /\ CashClaim(b, u)' = orders'[b].locked
      BY <1>2, <2>1, <2>4, <2>7, Zenon DEF CashClaim
    <3> QED
      <4>1. LockedCash(u) - orders[b].locked + (orders[b].locked - c) = LockedCash(u) - c
        BY <1>1, <2>5, <2>6, ClaimFalls, Zenon
      <4> QED
        BY <1>4, <2>3, <2>7, <3>1, <4>1, Zenon
  <2>8. CASE u # B
    <3>1. CashClaim(b, u) = 0 /\ CashClaim(b, u)' = 0
      BY <1>2, <2>1, <2>4, <2>8, Zenon DEF CashClaim
    <3> QED
      BY <2>3, <2>5, <2>8, <3>1, NothingMoves, Zenon
  <2> QED
    BY <2>7, <2>8, Zenon
<1>8. \A u \in Users : /\ cashAvailable[u] \in Nat /\ cashReserved[u] \in Nat
                       /\ cashAvailable'[u] \in Nat /\ cashReserved'[u] \in Nat
  BY Zenon DEF TypeOK
<1>9. \A u \in Users : LockedCash(u) \in Nat /\ LockedCash(u) <= cashReserved[u]
  BY LockedType, Zenon DEF LocksCounted, LedgerInv, BalancesSound, CashBacked
<1>10. c <= cashReserved[B]
  <2>1. b \in CashOrders(B)
    BY <1>2, <1>5, Zenon DEF CashOrders
  <2>2. orders[b].locked <= LockedCash(B)
    BY <2>1, LockedType, Zenon DEF LocksCounted
  <2>3. orders[b].locked \in Nat
    BY <1>2, Zenon DEF TypeOK, Exists, Order
  <2> QED
    BY <1>1, <1>4, <1>5, <1>8, <1>9, <2>2, <2>3, WithinAll, Zenon
<1>11. /\ cashAvailable' = [cashAvailable EXCEPT ![S] = @ + c]
       /\ cashReserved' = [cashReserved EXCEPT ![B] = AtLeastZero(@ - c)]
  BY <1>1, <1>5, Zenon
<1>12. ASSUME NEW u \in Users
       PROVE  /\ cashAvailable'[u] = cashAvailable[u] + (IF u = S THEN c ELSE 0)
              /\ cashReserved'[u] = cashReserved[u] - (IF u = B THEN c ELSE 0)
  <2>0. cashAvailable \in [Users -> Nat] /\ cashReserved \in [Users -> Nat]
    BY Zenon DEF TypeOK
  <2>1. cashAvailable'[u] = IF u = S THEN cashAvailable[u] + c ELSE cashAvailable[u]
    BY <1>5, <1>11, <2>0, Zenon
  <2>2. cashReserved'[u] = IF u = B THEN AtLeastZero(cashReserved[u] - c) ELSE cashReserved[u]
    BY <1>5, <1>11, <2>0, Zenon
  <2>3. cashAvailable[u] \in Nat /\ cashReserved[u] \in Nat
    BY <1>8, Zenon
  <2>4. u = B => AtLeastZero(cashReserved[u] - c) = cashReserved[u] - c
    BY <1>1, <1>10, <2>3, ClampIdle, Zenon
  <2> QED
    BY <2>1, <2>2, <2>3, <2>4, NothingMoves, Zenon
<1>13. CashBacked'
  <2> SUFFICES ASSUME NEW u \in Users PROVE LockedCash(u)' <= cashReserved'[u]
    BY Zenon DEF CashBacked
  <2>1. /\ cashReserved'[u] = cashReserved[u] - (IF u = B THEN c ELSE 0)
        /\ LockedCash(u)' = LockedCash(u) - (IF u = B THEN c ELSE 0)
        /\ LockedCash(u) \in Nat /\ LockedCash(u) <= cashReserved[u]
        /\ cashReserved[u] \in Nat
    BY <1>7, <1>8, <1>9, <1>12, Zenon
  <2> QED
    BY <1>1, <2>1
<1>14. CashConserved'
  <2> DEFINE F0 == [u \in Users |-> cashAvailable[u] + cashReserved[u]]
             G0 == [u \in Users |-> cashAvailable'[u] + cashReserved'[u]]
  <2>1. Total(F0, Users) = StartingBalance * Cardinality(granted)
    BY Zenon DEF LedgerInv, BalancesSound, CashConserved
  <2>2. ASSUME NEW u \in Users
        PROVE  /\ F0[u] \in Nat /\ G0[u] \in Nat /\ (u = B => c <= F0[u])
               /\ G0[u] = F0[u] - (IF u = B THEN c ELSE 0) + (IF u = S THEN c ELSE 0)
    <3>1. /\ cashAvailable[u] \in Nat /\ cashReserved[u] \in Nat
          /\ cashAvailable'[u] \in Nat /\ cashReserved'[u] \in Nat
          /\ cashAvailable'[u] = cashAvailable[u] + (IF u = S THEN c ELSE 0)
          /\ cashReserved'[u] = cashReserved[u] - (IF u = B THEN c ELSE 0)
          /\ u = B => c <= cashReserved[u]
      BY <1>8, <1>10, <1>12, Zenon
    <3>2. PICK x \in Nat, y \in Nat : x = (IF u = S THEN c ELSE 0) /\ y = (IF u = B THEN c ELSE 0)
      BY <1>1, NothingMoves, Zenon
    <3>3. y <= cashReserved[u]
      BY <3>1, <3>2, NothingMoves, Zenon
    <3>4. F0[u] = cashAvailable[u] + cashReserved[u]
          /\ G0[u] = (cashAvailable[u] + x) + (cashReserved[u] - y)
      BY <3>1, <3>2, Zenon
    <3> HIDE DEF F0, G0
    <3>5. PICK a \in Nat, r \in Nat : a = cashAvailable[u] /\ r = cashReserved[u]
      BY <3>1, Zenon
    <3>6. /\ a + r \in Nat /\ (a + x) + (r - y) \in Nat /\ y <= a + r
          /\ (a + x) + (r - y) = (a + r) - y + x
      BY <3>2, <3>3, <3>5, UnitsMove
    <3> QED
      BY <3>2, <3>4, <3>5, <3>6, Zenon
  <2>3. PICK F, G : F = F0 /\ G = G0
    BY Zenon
  <2>4. F \in [Users -> Nat] /\ G \in [Users -> Nat]
    BY <2>2, <2>3, Zenon
  <2>5. \A u \in Users : /\ u = B => c <= F[u]
                         /\ G[u] = F[u] - (IF u = B THEN c ELSE 0) + (IF u = S THEN c ELSE 0)
    BY <2>2, <2>3, Zenon
  <2>6. MovesUnits(F, G, Users, B, S, c)
    BY <1>1, <1>5, <2>4, <2>5, Zenon DEF MovesUnits
  <2>7. Total(G, Users) = Total(F, Users)
    BY <2>6, FiniteAssumption, TotalMove, Zenon
  <2> QED
    BY <2>1, <2>3, <2>7, Zenon DEF CashConserved
<1> QED
  BY <1>13, <1>14, Zenon

\* Settling a trade pays for it out of what its orders have locked.
LEMMA SettleTradeLedger ==
  ASSUME Consistent, Consistent', LedgerInv, NEW p \in Partitions,
         settleTradeLocked(p)
  PROVE  LedgerInv'
<1>1. TypeOK /\ TypeOK'
  BY Zenon DEF Consistent
<1>2. PICK t, b, s :
            /\ Settles(p, t, b, s)
            /\ accounts' = accounts \cup {t.buyer, t.seller}
            /\ cashReserved' =
                  [cashReserved EXCEPT ![t.buyer] = AtLeastZero(@ - t.quantity * t.price)]
            /\ sharesAvailable' = [sharesAvailable EXCEPT
                  ![<<t.buyer, t.event, t.outcome>>] = @ + t.quantity]
            /\ cashAvailable' =
                  [cashAvailable EXCEPT ![t.seller] = @ + t.quantity * t.price]
            /\ sharesReserved' = [sharesReserved EXCEPT
                  ![<<t.seller, t.event, t.outcome>>] = AtLeastZero(@ - t.quantity)]
            /\ granted' = granted
  BY SettlesEffect, Zenon
<1>3. TradesOfOrders' /\ LocksCover'
  BY <1>1, <1>2, SettleCover, Zenon
<1>4. SharesBacked' /\ SharesConserved'
  BY <1>1, <1>2, SettleShares, Zenon
<1>5. NoMarketBuys => CashBacked' /\ CashConserved'
  BY <1>1, <1>2, SettleCash, Zenon
<1>6. SettledOrders(t, b, s)
  BY <1>1, <1>2, SettlesOrders, Zenon
<1>7. \A y \in OrderIds :
         /\ Exists(y)' <=> Exists(y)
         /\ Exists(y) =>
               /\ orders'[y].user = orders[y].user
               /\ orders'[y].side = orders[y].side
               /\ orders'[y].type = orders[y].type
  BY <1>6, Zenon DEF SettledOrders
<1>8. AccountsOpened'
  <2>1. /\ granted \subseteq accounts
        /\ \A u \in Users \ accounts : cashAvailable[u] = 0 /\ cashReserved[u] = 0
        /\ \A id \in OrderIds :
              Exists(id) /\ orders[id].side = "BUY" => orders[id].user \in accounts
    BY Zenon DEF LedgerInv, BalancesSound, AccountsOpened
  <2>2. \A id \in OrderIds :
              Exists(id)' /\ orders'[id].side = "BUY" => orders'[id].user \in accounts'
    BY <1>2, <1>7, <2>1, Zenon
  <2>3. \A u \in Users \ accounts' : cashAvailable'[u] = 0 /\ cashReserved'[u] = 0
    <3>1. \A u \in Users \ accounts' : u \in Users \ accounts /\ u # t.buyer /\ u # t.seller
      BY <1>2, Zenon
    <3>2. \A u \in Users \ accounts' :
             cashAvailable'[u] = cashAvailable[u] /\ cashReserved'[u] = cashReserved[u]
      BY <1>1, <1>2, <3>1 DEF TypeOK
    <3> QED
      BY <2>1, <3>1, <3>2, Zenon
  <2> QED
    BY <1>2, <2>1, <2>2, <2>3, Zenon DEF AccountsOpened
<1>9. BuysLimited'
  BY <1>7, Zenon DEF LedgerInv, BalancesSound, BuysLimited, NoMarketBuys
<1> QED
  BY <1>3, <1>4, <1>5, <1>8, <1>9, Zenon DEF LedgerInv, BalancesSound, NoMarketBuys

(***************************************************************************)
(* The theorems.                                                           *)
(***************************************************************************)

\* Every step keeps the ledger invariant.
LEMMA NextLedger == Consistent /\ Consistent' /\ LedgerInv /\ [Next]_vars => LedgerInv'
<1> SUFFICES ASSUME Consistent, Consistent', LedgerInv, [Next]_vars PROVE LedgerInv'
  BY Zenon
<1>1. CASE UNCHANGED vars
  <2>1. /\ UNCHANGED <<orders, cashAvailable, cashReserved, sharesAvailable,
                       sharesReserved, granted, mu>>
        /\ accounts \subseteq accounts'
        /\ \A q \in Partitions : mu = q => trades'[q] = trades[q] /\ at'[q] = at[q]
    BY <1>1, Zenon DEF vars, ledgerVars, workerVars
  <2>2. TypeOK /\ TypeOK'
    BY Zenon DEF Consistent
  <2> QED
    BY <2>1, <2>2, QuietStep, Zenon
<1>2. ASSUME NEW p \in Partitions, Command(p) PROVE LedgerInv'
  <2>1. ASSUME NEW u \in Users, handleUserCreated(p, u) PROVE LedgerInv'
    BY <2>1, UserCreatedLedger, Zenon
  <2>2. ASSUME NEW e \in Events, handleCreateEvent(p, e) PROVE LedgerInv'
    BY <2>2, QuietSteps, Zenon
  <2>3. ASSUME NEW id \in OrderIds, NEW r \in Requests, AcceptOrder(p, id, r)
        PROVE  LedgerInv'
    BY <2>3, AcceptOrderLedger, Zenon
  <2>4. ASSUME NEW id \in OrderIds, NEW r \in Requests, RejectUnfundedBuy(p, id, r)
        PROVE  LedgerInv'
    BY <2>4, QuietSteps, Zenon
  <2>5. ASSUME NEW id \in OrderIds, NEW e \in CancelEvents, handleCancelOrder(p, id, e)
        PROVE  LedgerInv'
    BY <2>5, CancelLedger, Zenon
  <2> QED
    BY <1>2, <2>1, <2>2, <2>3, <2>4, <2>5, Zenon DEF Command
<1>3. ASSUME NEW p \in Partitions, Continue(p) PROVE LedgerInv'
  <2>1. ASSUME \/ EmitOrderCreated(p) \/ SkipCanceled(p) \/ publishTrade(p)
               \/ FinishOrder(p) \/ EmitOrderCanceled(p)
        PROVE  LedgerInv'
    BY <2>1, QuietSteps, Zenon
  <2>2. CASE EmitOrderCreatedFails(p)
    BY <2>2, EmitOrderCreatedFailsLedger, Zenon
  <2>3. CASE StartMatch(p)
    BY <2>3, StartMatchLedger, Zenon
  <2>4. CASE executePair(p)
    BY <2>4, ExecutePairLedger, Zenon
  <2>5. CASE FinishMatch(p)
    BY <2>5, FinishMatchLedger, Zenon
  <2>6. CASE settleTradeLocked(p)
    BY <2>6, SettleTradeLedger, Zenon
  <2>7. CASE FinishSettle(p)
    BY <2>7, FinishSettleLedger, Zenon
  <2> QED
    BY <1>3, <2>1, <2>2, <2>3, <2>4, <2>5, <2>6, <2>7, Zenon DEF Continue
<1> QED
  BY <1>1, <1>2, <1>3, Zenon DEF Next

\* In every reachable state accounts, balances, locked funds and the trades
\* still to be settled agree with each other.
THEOREM LedgerSound == Spec => []LedgerInv
  BY InitLedger, NextLedger, EngineConsistent, PTL DEF Spec

\* Settlement and release only move shares: per event and outcome their
\* number stays what the positions were seeded with, whatever the requests.
THEOREM SharesAreConserved == Spec => []SharesConserved
<1>1. LedgerInv => SharesConserved
  BY Zenon DEF LedgerInv, BalancesSound
<1> QED
  BY <1>1, LedgerSound, PTL

\* While no match is under way, an open order has locked what it may still
\* have to deliver.
THEOREM OpenOrdersAreCovered == Spec => []OpenOrdersCovered
<1>1. LedgerInv /\ TypeOK => OpenOrdersCovered
  <2> SUFFICES ASSUME LedgerInv, TypeOK, mu = Unlocked,
                      NEW id \in OrderIds, Exists(id), IsOpen(orders[id])
               PROVE  IF orders[id].side = "SELL" THEN orders[id].locked = orders[id].remaining
                      ELSE orders[id].type = "LIMIT" =>
                             orders[id].locked >= orders[id].remaining * orders[id].price
    BY Zenon DEF OpenOrdersCovered
  <2>1. Covers(orders[id], 0)
    BY Zenon DEF LedgerInv, LocksCover, Due
  <2>2. orders[id].status # "CANCELED"
    BY Zenon DEF IsOpen
  <2>3. PICK l \in Nat, r \in Nat, w \in Nat :
           /\ l = orders[id].locked /\ r = orders[id].remaining
           /\ w = orders[id].remaining * orders[id].price
    <3>1. /\ orders[id].locked \in Nat /\ orders[id].remaining \in Nat
          /\ orders[id].price \in Nat
      BY Zenon DEF TypeOK, Exists, Order
    <3> QED
      BY <3>1
  <2>4. IF orders[id].side = "SELL" THEN l = r + 0
        ELSE orders[id].type = "LIMIT" => l >= w + 0
    BY <2>1, <2>2, <2>3, Zenon DEF Covers
  <2> QED
    BY <2>3, <2>4
<1> QED
  BY <1>1, LedgerSound, TypeCorrect, PTL

\* As long as nobody buys at the market, cash is created by the starting
\* grant only: settlement takes from the buyer's reserve what it pays the
\* seller.  (A market BUY freezes all the cash the user has, and fills that
\* cost more are paid with money that nobody reserved: run overspend.)
THEOREM CashIsConserved == NoMarketBuys => (Spec => []CashConserved)
<1> SUFFICES ASSUME NoMarketBuys PROVE Spec => []CashConserved
  BY Zenon
<1>1. LedgerInv => CashConserved
  BY Zenon DEF LedgerInv, BalancesSound
<1> QED
  BY <1>1, LedgerSound, PTL

\* As long as nobody buys at the market, what a user's orders have locked is
\* covered by the user's reserve: no unit backs two orders.
THEOREM LocksAreBacked == NoMarketBuys => (Spec => []LocksBacked)
<1> SUFFICES ASSUME NoMarketBuys PROVE Spec => []LocksBacked
  BY Zenon
<1>1. LedgerInv => LocksBacked
  BY Zenon DEF LedgerInv, BalancesSound, LocksBacked, CashBacked, SharesBacked
<1> QED
  BY <1>1, LedgerSound, PTL

\* Whatever the requests, the shares that SELL orders have locked are in their
\* users' reserves: no share is offered twice.
THEOREM SharesAreBacked == Spec => []SharesBacked
<1>1. LedgerInv => SharesBacked
  BY Zenon DEF LedgerInv, BalancesSound
<1> QED
  BY <1>1, LedgerSound, PTL
=============================================================================
