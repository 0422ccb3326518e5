-------------------------- MODULE DBWorkerTheorems --------------------------
(***************************************************************************)
(* The tables of DBWorker agree with its trades, and what is acknowledged  *)
(* has been applied, for any workers, events, redeliveries and failures.   *)
(*                                                                         *)
(* A settlement is several steps, between which other replicas commit      *)
(* theirs.  So what a transaction has found out must still be true when it *)
(* commits: that its trade is not in the table, that its orders are, and   *)
(* that its buyer can pay.  It is, by the locks of PostgreSQL (Sound and   *)
(* Isolated).                                                              *)
(*                                                                         *)
(* A single writer implements Projection, for any script in which the      *)
(* engine trades and cancels its orders while they are open.               *)
(***************************************************************************)
EXTENDS DBWorker, FiniteSetTheorems, TLAPS

(***************************************************************************)
(* The inductive invariant.                                                *)
(***************************************************************************)

InTx(w) == pc[w] \in {"taker", "maker", "buyer", "seller"}

Computed == {"PARTIAL", "FILLED"}

WellTyped ==
    /\ TypeOK
    /\ fencing \in Nat /\ fencing # 0
    /\ status \in [Workers -> [taker : Computed \cup {""}, maker : Computed \cup {""}]]
    /\ IsFiniteSet(trades)

\* A settled trade has the rows of its orders.
RowsKept == \A t \in trades : orders[TradeOf[t].taker] # NoRow /\ orders[TradeOf[t].maker] # NoRow

\* What a worker has found out about the entry it is processing.
Sound(w) ==
    /\ pc[w] = "ack" => IsApplied(HeadOf(w))
    /\ InTx(w) =>
         /\ EventOf(w).type = "TRADE_EXECUTED" /\ EventOf(w).id \in TradeIds \ trades
         /\ HasOrders(w)
         /\ status[w].taker \in Computed
    /\ InTx(w) /\ pc[w] # "taker" => status[w].maker \in Computed
    /\ pc[w] = "seller" => CanPay(w)

\* No two open transactions insert the same trade, or have debited the same
\* user.
Apart(v, w) ==
    /\ InTx(v) /\ InTx(w) => EventOf(v).id # EventOf(w).id
    /\ pc[v] = "seller" /\ pc[w] = "seller" => TradeAt(v).buyer # TradeAt(w).buyer

Isolated == \A v, w \in Workers : v # w => Apart(v, w)

IInv ==
    /\ WellTyped /\ RowsKept
    /\ \A w \in Workers : Sound(w)
    /\ Isolated
    /\ TablesAgree /\ AckedIsApplied

(***************************************************************************)
(* Sums over the trades.                                                   *)
(***************************************************************************)

\* A nonempty set of naturals has a least element.
LEMMA LeastElement ==
  ASSUME NEW S \in SUBSET Nat, S # {}
  PROVE  Min(S) \in S /\ \A y \in S : Min(S) <= y
<1>1. PICK x \in S : \A y \in S : ~(<<y, x>> \in OpToRel(<, Nat))
  BY NatLessThanWellFounded, WFMin, Zenon
<1>2. \A y \in S : x <= y
  <2>1. ASSUME NEW y \in S, y < x PROVE FALSE
    <3>1. <<y, x>> \in OpToRel(<, Nat)
      BY <2>1 DEF OpToRel
    <3> QED
      BY <1>1, <3>1, Zenon
  <2> QED
    BY <2>1
<1> QED
  BY <1>2, Zenon DEF Min

LEMMA IntervalCount == \A n \in Nat : IsFiniteSet(1..n) /\ Cardinality(1..n) = n
  BY FS_Interval

\* Every unit of a finite sum can be counted.
LEMMA UnitsFinite ==
  ASSUME NEW S, IsFiniteSet(S), NEW f, \A x \in S : f[x] \in Nat
  PROVE  IsFiniteSet(Units(f, S)) /\ Total(f, S) \in Nat
<1> DEFINE T == {{x} \X (1..f[x]) : x \in S}
           g == [x \in S |-> {x} \X (1..f[x])]
<1>1. g \in Surjection(S, T)
  BY Zenon DEF Surjection
<1>2. IsFiniteSet(T)
  BY <1>1, FS_Surjection, Zenon
<1>3. ASSUME NEW x \in S PROVE IsFiniteSet({x} \X (1..f[x]))
  <2>1. IsFiniteSet(1..f[x])
    BY IntervalCount, Zenon
  <2>2. IsFiniteSet({x})
    BY FS_Singleton, Zenon
  <2> QED
    BY <2>1, <2>2, FS_Product, Zenon
<1>4. \A U \in T : IsFiniteSet(U)
  BY <1>3, Zenon
<1> HIDE DEF T
<1>5. IsFiniteSet(UNION T)
  BY <1>2, <1>4, FS_UNION, Zenon
<1> QED
  BY <1>5, FS_CardinalityType, Zenon DEF Units, Total, T

\* A new member of the set adds its value to the sum.
LEMMA TotalAdd ==
  ASSUME NEW S, IsFiniteSet(S), NEW f, NEW y, y \notin S,
         \A x \in S \cup {y} : f[x] \in Nat
  PROVE  Total(f, S \cup {y}) = Total(f, S) + f[y]
<1> DEFINE U == {y} \X (1..f[y])
<1>1. IsFiniteSet(Units(f, S)) /\ Total(f, S) \in Nat
  BY UnitsFinite, Zenon
<1>2. f[y] \in Nat
  BY Zenon
<1>3. IsFiniteSet(U) /\ Cardinality(U) = f[y]
  <2>1. IsFiniteSet(1..f[y]) /\ Cardinality(1..f[y]) = f[y]
    BY <1>2, IntervalCount, Zenon
  <2>2. IsFiniteSet({y}) /\ Cardinality({y}) = 1
    BY FS_Singleton, Zenon
  <2>3. IsFiniteSet(U) /\ Cardinality(U) = Cardinality({y}) * Cardinality(1..f[y])
    BY <2>1, <2>2, FS_Product, Zenon
  <2> QED
    BY <1>2, <2>1, <2>2, <2>3
<1>4. Units(f, S \cup {y}) = Units(f, S) \cup U
  BY Zenon DEF Units
<1>5. Units(f, S) \cap U = {}
  BY DEF Units
<1> HIDE DEF U
<1>6. Cardinality(Units(f, S) \cup U) = Cardinality(Units(f, S)) + Cardinality(U) - Cardinality({})
  BY <1>1, <1>3, <1>5, FS_Union
<1>7. Cardinality({}) = 0
  BY FS_EmptySet, Zenon
<1>8. Cardinality(Units(f, S)) = Total(f, S)
  BY Zenon DEF Total
<1>9. Cardinality(Units(f, S) \cup U) = Total(f, S) + f[y]
  BY <1>1, <1>2, <1>3, <1>6, <1>7, <1>8
<1> QED
  BY <1>4, <1>9, Zenon DEF Total

(***************************************************************************)
(* What a worker sees.                                                     *)
(***************************************************************************)

\* An entry that has been delivered holds an event of the engine.
LEMMA EntryType ==
  ASSUME WellTyped, NEW i \in 1..delivered
  PROVE  /\ i \in 1..Len(out) /\ out[i].token \in 1..fencing
         /\ EventAt(i) \in Event
<1> DEFINE Entries == [n : 1..emitted, token : 1..fencing]
<1>1. /\ out \in Seq(Entries) /\ delivered \in 0..Len(out)
      /\ emitted \in 0..Len(script) /\ script \in Seq(Event)
  BY DBWorkerAssumption, Zenon DEF WellTyped, TypeOK, script
<1> HIDE DEF Entries
<1>2. i \in 1..Len(out) /\ out[i] \in Entries
  BY <1>1
<1>3. out[i].n \in 1..emitted /\ out[i].token \in 1..fencing
  BY <1>2 DEF Entries
<1>4. out[i].n \in 1..Len(script)
  BY <1>1, <1>3
<1>5. script[out[i].n] \in Event
  BY <1>1, <1>4
<1> QED
  BY <1>2, <1>3, <1>5, Zenon DEF EventAt

\* A worker with entries is processing the first of them.
LEMMA HeadType ==
  ASSUME WellTyped, NEW w \in Workers, pc[w] \notin Idle
  PROVE  HeadOf(w) \in queue[w] /\ HeadOf(w) \in 1..delivered /\ EventOf(w) \in Event
<1>1. queue[w] # {} /\ queue[w] \subseteq 1..delivered
  BY Zenon DEF WellTyped, TypeOK
<1>2. queue[w] \in SUBSET Nat
  BY <1>1
<1>3. HeadOf(w) \in queue[w]
  BY <1>1, <1>2, LeastElement, Zenon DEF HeadOf
<1> QED
  BY <1>1, <1>3, EntryType, Zenon DEF EventOf

\* What nothing in the system ever takes back.
Grows ==
    /\ scenario' = scenario
    /\ \A i \in 1..delivered : out'[i] = out[i]
    /\ fencing' \in Nat /\ fencing <= fencing'
    /\ trades \subseteq trades'
    /\ \A o \in OrderIds : orders[o] # NoRow => orders'[o] # NoRow

\* An event that has been applied, or was stale, remains so.
LEMMA AppliedStays ==
  ASSUME WellTyped, Grows, NEW i \in 1..delivered, IsApplied(i)
  PROVE  IsApplied(i)' /\ EventAt(i)' = EventAt(i)
<1>1. out'[i] = out[i] /\ EventAt(i)' = EventAt(i)
  BY Zenon DEF Grows, EventAt, script
<1>2. EventAt(i) \in Event /\ out[i].token \in 1..fencing
  BY EntryType, Zenon
<1>3. IsStale(out[i]) => IsStale(out[i])'
  <2>1. fencing \in Nat /\ fencing' \in Nat /\ fencing <= fencing'
    BY Zenon DEF WellTyped, Grows
  <2>2. out[i].token < fencing => out[i].token < fencing'
    BY <1>2, <2>1
  <2> QED
    BY <1>1, <2>2, Zenon DEF IsStale
<1>4. EventAt(i).type = "ORDER_CREATED" => EventAt(i).id \in OrderIds
  BY <1>2 DEF Event
<1> QED
  BY <1>1, <1>3, <1>4, Zenon DEF IsApplied, Grows

\* The same entries are the same work.
LEMMA SameWork ==
  ASSUME WellTyped, Grows, NEW w \in Workers, pc[w] \notin Idle, queue'[w] = queue[w]
  PROVE  /\ HeadOf(w)' = HeadOf(w) /\ EventOf(w)' = EventOf(w)
         /\ TradeAt(w)' = TradeAt(w)
<1>1. HeadOf(w)' = HeadOf(w)
  BY Zenon DEF HeadOf
<1>2. HeadOf(w) \in 1..delivered
  BY HeadType, Zenon
<1>3. EventOf(w)' = EventOf(w)
  BY <1>1, <1>2, Zenon DEF EventOf, EventAt, Grows, script
<1> QED
  BY <1>1, <1>3, Zenon DEF TradeAt

\* A trade in the making is one of the engine's.
LEMMA TradeType ==
  ASSUME NEW t \in TradeIds
  PROVE  /\ TradeOf[t] \in Trade /\ TradeOf[t].taker # TradeOf[t].maker
         /\ TradeOf[t].taker \in OrderIds /\ TradeOf[t].maker \in OrderIds
         /\ TradeOf[t].buyer \in Users /\ TradeOf[t].seller \in Users
         /\ TradeOf[t].buyer # TradeOf[t].seller
         /\ TradeOf[t].outcome \in Outcomes
         /\ TradeOf[t].quantity \in Nat /\ Cost(t) \in Nat
<1>1. /\ TradeOf[t] \in Trade
      /\ TradeOf[t].taker # TradeOf[t].maker /\ TradeOf[t].buyer # TradeOf[t].seller
  BY DBWorkerAssumption, Zenon
<1>2. TradeOf[t].quantity \in Nat /\ TradeOf[t].price \in Nat
  BY <1>1 DEF Trade
<1>3. Cost(t) \in Nat
  BY <1>2 DEF Cost
<1> QED
  BY <1>1, <1>2, <1>3, Zenon DEF Trade

\* What others do leaves a worker's knowledge true, as long as they do not
\* settle its trade or debit its buyer.
LEMMA SoundStays ==
  ASSUME WellTyped, Grows, NEW w \in Workers, Sound(w),
         pc'[w] = pc[w], queue'[w] = queue[w], status'[w] = status[w],
         InTx(w) => EventOf(w).id \notin trades',
         pc[w] = "seller" => /\ balance'[TradeAt(w).buyer] \in Nat
                             /\ balance[TradeAt(w).buyer] \in Nat
                             /\ balance[TradeAt(w).buyer] <= balance'[TradeAt(w).buyer]
  PROVE  Sound(w)'
<1>1. CASE pc[w] \in Idle \cup {"fence", "apply"}
  <2>1. pc'[w] # "ack" /\ ~InTx(w)' /\ pc'[w] # "seller"
    BY <1>1 DEF InTx, Idle
  <2> QED
    BY <2>1, Zenon DEF Sound
<1>2. CASE pc[w] = "ack"
  <2>1. pc[w] \notin Idle /\ ~InTx(w)' /\ pc'[w] # "seller"
    BY <1>2 DEF InTx, Idle
  <2>2. HeadOf(w)' = HeadOf(w) /\ HeadOf(w) \in 1..delivered
    BY <2>1, SameWork, HeadType, Zenon
  <2>3. IsApplied(HeadOf(w))
    BY <1>2, Zenon DEF Sound
  <2>4. IsApplied(HeadOf(w))'
    <3> DEFINE h == HeadOf(w)
    <3>1. h \in 1..delivered /\ IsApplied(h) /\ h' = h
      BY <2>2, <2>3, Zenon
    <3>2. \A i \in 1..delivered : IsApplied(i) => IsApplied(i)'
      BY AppliedStays, Zenon
    <3> QED
      BY <3>1, <3>2, Zenon DEF IsApplied, EventAt
  <2> QED
    BY <2>1, <2>4, Zenon DEF Sound
<1>3. CASE InTx(w)
  <2>1. pc[w] \notin Idle /\ InTx(w)' /\ pc'[w] # "ack"
    BY <1>3 DEF InTx, Idle
  <2>2. EventOf(w)' = EventOf(w) /\ TradeAt(w)' = TradeAt(w)
    BY <2>1, SameWork, Zenon
  <2>3. /\ EventOf(w).type = "TRADE_EXECUTED" /\ EventOf(w).id \in TradeIds
        /\ HasOrders(w) /\ status[w].taker \in Computed
    BY <1>3, Zenon DEF Sound
  <2>4. HasOrders(w)'
    <3>1. TradeAt(w).taker \in OrderIds /\ TradeAt(w).maker \in OrderIds
      BY <2>3, TradeType, Zenon DEF TradeAt
    <3> QED
      BY <2>2, <2>3, <3>1, Zenon DEF HasOrders, Grows
  <2>5. pc[w] = "seller" => CanPay(w)'
    <3> SUFFICES ASSUME pc[w] = "seller" PROVE CanPay(w)'
      BY Zenon
    <3>1. CanPay(w) /\ Cost(EventOf(w).id) \in Nat
      BY <2>3, TradeType, Zenon DEF Sound
    <3> HIDE DEF Cost
    <3>2. Cost(EventOf(w).id) <= balance'[TradeAt(w).buyer]
      BY <3>1 DEF CanPay
    <3> QED
      BY <2>2, <3>2, Zenon DEF CanPay, Cost
  <2> QED
    BY <2>1, <2>2, <2>3, <2>4, <2>5, Zenon DEF Sound, InTx
<1> QED
  BY <1>1, <1>2, <1>3, Zenon DEF WellTyped, TypeOK, Labels, InTx, Idle

\* Two workers that go on with what they were doing stay apart.
LEMMA ApartStays ==
  ASSUME WellTyped, Grows, NEW v \in Workers, NEW w \in Workers, Apart(v, w),
         pc'[v] = pc[v], pc'[w] = pc[w], queue'[v] = queue[v], queue'[w] = queue[w]
  PROVE  Apart(v, w)'
<1>1. \A u \in {v, w} : InTx(u)' \/ pc'[u] = "seller" =>
        EventOf(u)' = EventOf(u) /\ TradeAt(u)' = TradeAt(u) /\ InTx(u)
  <2> SUFFICES ASSUME NEW u \in {v, w}, InTx(u)' \/ pc'[u] = "seller"
               PROVE  EventOf(u)' = EventOf(u) /\ TradeAt(u)' = TradeAt(u) /\ InTx(u)
    BY Zenon
  <2>1. u \in Workers /\ pc'[u] = pc[u] /\ queue'[u] = queue[u]
    BY Zenon
  <2>2. InTx(u) /\ pc[u] \notin Idle
    BY <2>1 DEF InTx, Idle
  <2> QED
    BY <2>1, <2>2, SameWork, Zenon
<1> QED
  BY <1>1, Zenon DEF Apart

(***************************************************************************)
(* IInv is inductive.                                                      *)
(***************************************************************************)

\* Facts of arithmetic.
LEMMA NoLess == \A n \in Nat : n <= n
  OBVIOUS

LEMMA Reaches ==
  ASSUME NEW n \in Nat, NEW d \in 0..n, NEW e \in d..n
  PROVE  d \in Nat /\ e \in 0..n /\ 1..d \subseteq 1..e
  OBVIOUS

LEMMA InReach == \A n \in Nat : \A d \in 0..n : d \in d..n
  OBVIOUS

LEMMA OneMore == \A n \in Nat : \A d \in 0..n : d < n => d + 1 \in 0..n
  OBVIOUS

LEMMA Pays == \A m, n, c \in Nat : c <= m => m - c \in Nat /\ n + c \in Nat
  OBVIOUS

LEMMA Shifts == \A i, j \in Int : \A n \in Nat : i + n \in Int /\ j + (-n) \in Int
  OBVIOUS

LEMMA NothingMore == \A n \in Nat : n + 0 = n
  OBVIOUS

LEMMA LongerHolds == \A m, n \in Nat : \A d \in 0..m : m <= n => d \in 0..n
  OBVIOUS

LEMMA Within == \A n \in Nat : \A d \in 0..n : 1..d \subseteq 1..n
  OBVIOUS

LEMMA NoMore == \A n, c \in Nat : n <= n + c
  OBVIOUS

\* The length of a sequence.
LEMMA LenType == ASSUME NEW S, NEW s \in Seq(S) PROVE Len(s) \in Nat
  OBVIOUS

\* Where the tables do not change, they go on agreeing.
LEMMA SameTables ==
  ASSUME UNCHANGED tables
  PROVE  /\ TablesAgree' <=> TablesAgree
         /\ RowsKept' <=> RowsKept
<1>1. UNCHANGED <<orders, trades, balance, shares, transactions, volume>>
  BY Zenon DEF tables
<1>2. RowsKept' <=> RowsKept
  BY <1>1, Zenon DEF RowsKept
<1>3. /\ \A o : FillsOf(o)' = FillsOf(o)
      /\ \A u : SoldBy(u)' = SoldBy(u) /\ BoughtBy(u)' = BoughtBy(u)
  BY <1>1, Zenon DEF FillsOf, SoldBy, BoughtBy
<1> QED
  BY <1>1, <1>2, <1>3, Zenon DEF TablesAgree, Quantity, Amount, Of

\* A step of one worker that does not touch the tables, and after which it
\* knows what it should.
LEMMA QuietStep ==
  ASSUME IInv, NEW w \in Workers,
         UNCHANGED <<streamVars, tables>>, faults' \in 0..MaxFaults,
         NEW l \in Labels, pc' = [pc EXCEPT ![w] = l],
         NEW q, queue' = [queue EXCEPT ![w] = q],
         q \subseteq 1..delivered', q = {} <=> l \in Idle,
         status' \in [Workers -> [taker : Computed \cup {""}, maker : Computed \cup {""}]],
         \A v \in Workers \ {w} : status'[v] = status[v],
         delivered' \in delivered..Len(out), pending' \subseteq 1..delivered',
         \A i \in (1..delivered') \ pending' :
            i \in (1..delivered) \ pending \/ (i \in 1..delivered /\ IsApplied(i)),
         Sound(w)', \A v \in Workers \ {w} : Apart(v, w)'
  PROVE  IInv'
<1>1. /\ UNCHANGED <<scenario, emitted, fencing, out>>
      /\ UNCHANGED <<orders, trades, balance, shares, transactions, volume>>
  BY Zenon DEF streamVars, tables
<1>2. /\ \A v \in Workers \ {w} : pc'[v] = pc[v] /\ queue'[v] = queue[v]
      /\ pc'[w] = l /\ queue'[w] = q /\ pc' \in [Workers -> Labels]
  BY Zenon DEF IInv, WellTyped, TypeOK
<1>3. /\ delivered \in Nat /\ delivered' \in 0..Len(out)
      /\ 1..delivered \subseteq 1..delivered'
  <2>1. delivered \in 0..Len(out)
    BY Zenon DEF IInv, WellTyped, TypeOK
  <2>2. out \in Seq([n : 1..emitted, token : 1..fencing])
    BY Zenon DEF IInv, WellTyped, TypeOK
  <2>3. Len(out) \in Nat
    BY <2>2, LenType, Zenon
  <2> QED
    BY <2>1, <2>3, Reaches, Zenon
<1>4. WellTyped'
  <2>1. queue' \in [Workers -> SUBSET (1..delivered')]
    BY <1>2, <1>3, Zenon DEF IInv, WellTyped, TypeOK
  <2>2. \A v \in Workers : queue'[v] = {} <=> pc'[v] \in Idle
    BY <1>2, Zenon DEF IInv, WellTyped, TypeOK
  <2>3. TypeOK'
    BY <1>1, <1>2, <1>3, <2>1, <2>2, Zenon DEF IInv, WellTyped, TypeOK, script
  <2> QED
    BY <1>1, <2>3, Zenon DEF IInv, WellTyped
<1>5. Grows
  <2>1. fencing \in Nat /\ fencing <= fencing
    BY NoLess, Zenon DEF IInv, WellTyped
  <2> QED
    BY <1>1, <2>1, Zenon DEF Grows
<1>6. RowsKept' /\ TablesAgree'
  BY SameTables, Zenon DEF IInv
<1>7. ASSUME NEW v \in Workers PROVE Sound(v)'
  <2>1. CASE v = w
    BY <2>1, Zenon
  <2>2. CASE v # w
    <3>1. pc'[v] = pc[v] /\ queue'[v] = queue[v] /\ status'[v] = status[v]
      BY <1>2, <2>2, Zenon
    <3>2. WellTyped /\ Sound(v)
      BY Zenon DEF IInv
    <3>3. InTx(v) => EventOf(v).id \in TradeIds /\ EventOf(v).id \notin trades'
      BY <1>1, <3>2, Zenon DEF Sound
    <3>4. pc[v] = "seller" => balance'[TradeAt(v).buyer] = balance[TradeAt(v).buyer]
                              /\ balance[TradeAt(v).buyer] \in Nat
      <4>1. pc[v] = "seller" => InTx(v)
        BY DEF InTx
      <4>2. pc[v] = "seller" => TradeAt(v).buyer \in Users
        BY <3>3, <4>1, TradeType, Zenon DEF TradeAt
      <4> QED
        BY <1>1, <4>2, Zenon DEF IInv, WellTyped, TypeOK
    <3>5. pc[v] = "seller" => balance[TradeAt(v).buyer] <= balance'[TradeAt(v).buyer]
      BY <3>4, NoLess, Zenon
    <3> QED
      BY <1>5, <3>1, <3>2, <3>3, <3>4, <3>5, SoundStays, Zenon
  <2> QED
    BY <2>1, <2>2, Zenon
<1>8. Isolated'
  <2>1. ASSUME NEW u \in Workers, NEW v \in Workers, u # v PROVE Apart(u, v)'
    <3>1. CASE u # w /\ v # w
      <4>1. pc'[u] = pc[u] /\ queue'[u] = queue[u] /\ pc'[v] = pc[v] /\ queue'[v] = queue[v]
        BY <1>2, <3>1, Zenon
      <4>2. WellTyped /\ Apart(u, v)
        BY <2>1, Zenon DEF IInv, Isolated
      <4> QED
        BY <1>5, <4>1, <4>2, ApartStays, Zenon
    <3>2. CASE v = w
      BY <2>1, <3>2, Zenon
    <3>3. CASE u = w
      BY <2>1, <3>3, Zenon DEF Apart
    <3> QED
      BY <3>1, <3>2, <3>3, Zenon
  <2> QED
    BY <2>1, Zenon DEF Isolated
<1>9. AckedIsApplied'
  <2>1. ASSUME NEW i \in (1..delivered') \ pending' PROVE IsApplied(i)'
    <3>1. i \in 1..delivered /\ IsApplied(i)
      BY Zenon DEF IInv, AckedIsApplied
    <3> QED
      BY <1>5, <3>1, AppliedStays, Zenon DEF IInv
  <2> QED
    BY <2>1, Zenon DEF AckedIsApplied
<1> QED
  BY <1>4, <1>6, <1>7, <1>8, <1>9, Zenon DEF IInv

\* A step of a worker within its entry, stated by what it knows before.
LEMMA WorkStep ==
  ASSUME IInv, NEW w \in Workers, pc[w] \notin Idle,
         UNCHANGED <<streamVars, groupVars, queue, tables, faults>>,
         NEW l \in Labels \ Idle, pc' = [pc EXCEPT ![w] = l],
         status' \in [Workers -> [taker : Computed \cup {""}, maker : Computed \cup {""}]],
         \A v \in Workers \ {w} : status'[v] = status[v],
         l = "ack" => IsApplied(HeadOf(w)),
         l \in {"taker", "maker", "buyer", "seller"} =>
           /\ EventOf(w).type = "TRADE_EXECUTED" /\ EventOf(w).id \in TradeIds \ trades
           /\ HasOrders(w) /\ status'[w].taker \in Computed
           /\ l = "taker" \/ status'[w].maker \in Computed
           /\ \A v \in Workers \ {w} : InTx(v) => EventOf(v).id # EventOf(w).id,
         l = "seller" =>
           /\ CanPay(w)
           /\ \A v \in Workers \ {w} :
                pc[v] = "seller" => TradeAt(v).buyer # TradeAt(w).buyer
  PROVE  IInv'
<1>1. /\ UNCHANGED <<scenario, emitted, fencing, out, delivered, pending, queue, faults>>
      /\ UNCHANGED <<orders, trades, balance, shares, transactions, volume>>
      /\ UNCHANGED <<streamVars, tables>>
  BY Zenon DEF streamVars, groupVars, tables
<1>2. WellTyped /\ Grows
  <2>1. WellTyped /\ fencing \in Nat /\ fencing <= fencing
    BY NoLess, Zenon DEF IInv, WellTyped
  <2> QED
    BY <1>1, <2>1, Zenon DEF Grows
<1>3. pc'[w] = l /\ queue'[w] = queue[w] /\ \A v \in Workers \ {w} : pc'[v] = pc[v]
  BY <1>1, Zenon DEF IInv, WellTyped, TypeOK
<1>4. \A v \in Workers : pc[v] \notin Idle =>
        EventOf(v)' = EventOf(v) /\ TradeAt(v)' = TradeAt(v) /\ HeadOf(v)' = HeadOf(v)
  BY <1>1, <1>2, SameWork, Zenon
<1>5. Sound(w)'
  <2>1. l = "ack" => IsApplied(HeadOf(w))'
    BY <1>1, <1>4, Zenon DEF IsApplied, IsStale, EventAt, script
  <2>2. HasOrders(w) => HasOrders(w)'
    BY <1>1, <1>4, Zenon DEF HasOrders
  <2>3. CanPay(w) => CanPay(w)'
    BY <1>1, <1>4, Zenon DEF CanPay, Cost
  <2>4. EventOf(w)' = EventOf(w)
    BY <1>4, Zenon
  <2> QED
    BY <1>1, <1>3, <2>1, <2>2, <2>3, <2>4, Zenon DEF Sound, InTx
<1>6. ASSUME NEW v \in Workers \ {w} PROVE Apart(v, w)'
  <2>1. pc[v] \in {"taker", "maker", "buyer", "seller"} => pc[v] \notin Idle
    BY DEF Idle
  <2>2. InTx(v)' => InTx(v) /\ EventOf(v)' = EventOf(v) /\ TradeAt(v)' = TradeAt(v)
    BY <1>3, <1>4, <2>1, Zenon DEF InTx
  <2>3. InTx(w)' => l \in {"taker", "maker", "buyer", "seller"}
    BY <1>3, Zenon DEF InTx
  <2>4. EventOf(w)' = EventOf(w) /\ TradeAt(w)' = TradeAt(w)
    BY <1>4, Zenon
  <2>5. pc'[v] = "seller" => InTx(v)' /\ pc[v] = "seller"
    BY <1>3, Zenon DEF InTx
  <2> QED
    BY <1>3, <2>2, <2>3, <2>4, <2>5, Zenon DEF Apart
<1>7. /\ queue' = [queue EXCEPT ![w] = queue[w]]
      /\ queue[w] \subseteq 1..delivered' /\ pending' \subseteq 1..delivered'
      /\ queue[w] = {} <=> l \in Idle
      /\ faults' \in 0..MaxFaults
      /\ \A i \in (1..delivered') \ pending' : i \in (1..delivered) \ pending
  BY <1>1, Zenon DEF IInv, WellTyped, TypeOK
<1>8. delivered' \in delivered..Len(out)
  <2>1. delivered \in 0..Len(out) /\ out \in Seq([n : 1..emitted, token : 1..fencing])
    BY Zenon DEF IInv, WellTyped, TypeOK
  <2>2. Len(out) \in Nat
    BY <2>1, LenType, Zenon
  <2> QED
    BY <1>1, <2>1, <2>2, InReach, Zenon
<1> QED
  BY <1>1, <1>5, <1>6, <1>7, <1>8, QuietStep, Zenon

\* A worker that is between entries, or begins one, knows nothing yet.
LEMMA KnowsNothing ==
  ASSUME NEW w, pc'[w] \in Idle \cup {"fence", "apply"}
  PROVE  Sound(w)' /\ \A v : Apart(v, w)'
<1>1. pc'[w] # "ack" /\ ~InTx(w)' /\ pc'[w] # "seller"
  BY DEF InTx, Idle
<1> QED
  BY <1>1, Zenon DEF Sound, Apart

\* A step to where a worker knows nothing.
LEMMA RestStep ==
  ASSUME IInv, NEW w \in Workers,
         UNCHANGED <<streamVars, tables>>, faults' \in 0..MaxFaults,
         NEW l \in Idle \cup {"fence"}, pc' = [pc EXCEPT ![w] = l],
         NEW q, queue' = [queue EXCEPT ![w] = q],
         q \subseteq 1..delivered', q = {} <=> l \in Idle,
         UNCHANGED status \/ status' = [status EXCEPT ![w] = Unread],
         delivered' \in delivered..Len(out), pending' \subseteq 1..delivered',
         \A i \in (1..delivered') \ pending' :
            i \in (1..delivered) \ pending \/ (i \in 1..delivered /\ IsApplied(i))
  PROVE  IInv'
<1>1. l \in Labels /\ pc'[w] \in Idle \cup {"fence", "apply"}
  BY Zenon DEF IInv, WellTyped, TypeOK, Labels
<1>2. Sound(w)' /\ \A v : Apart(v, w)'
  BY <1>1, KnowsNothing, Zenon
<1>3. Unread \in [taker : Computed \cup {""}, maker : Computed \cup {""}]
  BY DEF Unread
<1>4. status \in [Workers -> [taker : Computed \cup {""}, maker : Computed \cup {""}]]
  BY Zenon DEF IInv, WellTyped
<1>5. /\ status' \in [Workers -> [taker : Computed \cup {""}, maker : Computed \cup {""}]]
      /\ \A v \in Workers \ {w} : status'[v] = status[v]
  BY <1>3, <1>4, Zenon
<1> QED
  BY <1>1, <1>2, <1>5, QuietStep, Zenon

\* Where the group has not moved, RestStep's conditions on it hold.
LEMMA GroupType ==
  ASSUME IInv
  PROVE  /\ pending \subseteq 1..delivered /\ delivered \in delivered..Len(out)
         /\ delivered \in 0..Len(out) /\ Len(out) \in Nat
         /\ faults \in 0..MaxFaults
<1>1. /\ pending \subseteq 1..delivered /\ delivered \in 0..Len(out)
      /\ out \in Seq([n : 1..emitted, token : 1..fencing]) /\ faults \in 0..MaxFaults
  BY Zenon DEF IInv, WellTyped, TypeOK
<1>2. Len(out) \in Nat
  BY <1>1, LenType, Zenon
<1> QED
  BY <1>1, <1>2, InReach, Zenon

\* A fault counts.
LEMMA FaultCounts ==
  ASSUME IInv, NEW kind, Fault(kind)
  PROVE  faults' \in 0..MaxFaults
<1>1. faults \in 0..MaxFaults /\ faults < MaxFaults /\ faults' = faults + 1
  BY Zenon DEF IInv, WellTyped, TypeOK, Fault
<1>2. MaxFaults \in Nat
  BY DBWorkerAssumption, Zenon
<1> QED
  BY <1>1, <1>2, OneMore, Zenon

LEMMA StartKeeps ==
  ASSUME IInv, NEW w \in Workers, Start(w) PROVE IInv'
<1>1. /\ UNCHANGED <<streamVars, tables>> /\ UNCHANGED <<delivered, pending, queue, status, faults>>
      /\ pc[w] = "stopped" /\ pc' = [pc EXCEPT ![w] = "claim"]
  BY Zenon DEF Start, Goto, groupVars
<1>2. queue' = [queue EXCEPT ![w] = {}]
  BY <1>1, Zenon DEF IInv, WellTyped, TypeOK, Idle
<1>3. "claim" \in Idle \cup {"fence"} /\ "claim" \in Idle
  BY DEF Idle
<1> QED
  BY <1>1, <1>2, <1>3, GroupType, RestStep, Zenon

\* XAUTOCLAIM gives out pending entries.
LEMMA ClaimKeeps ==
  ASSUME IInv, NEW w \in Workers, Claim(w) PROVE IInv'
<1>1. PICK S \in Claimable : ClaimEntries(w, S)
  BY Zenon DEF Claim
<1>2. S \subseteq pending
  BY Zenon DEF Claimable
<1> DEFINE l == IF S = {} THEN "read" ELSE "fence"
<1>3. /\ UNCHANGED <<streamVars, tables>> /\ UNCHANGED <<delivered, pending, status, faults>>
      /\ pc' = [pc EXCEPT ![w] = l] /\ queue' = [queue EXCEPT ![w] = S]
  BY <1>1, Zenon DEF ClaimEntries, Goto, groupVars
<1>4. l \in Idle \cup {"fence"} /\ (S = {} <=> l \in Idle)
  BY DEF Idle
<1> HIDE DEF l
<1>5. S \subseteq 1..delivered'
  BY <1>2, <1>3, GroupType, Zenon
<1> QED
  BY <1>3, <1>4, <1>5, GroupType, RestStep, Zenon

\* XREADGROUP delivers entries that are on the stream, at least one.
LEMMA DeliverReaches ==
  ASSUME IInv, NEW w, Deliver(w)
  PROVE  /\ NewEntries # {} /\ NewEntries \subseteq 1..delivered'
         /\ delivered' \in delivered..Len(out) /\ pending' \subseteq 1..delivered'
         /\ \A i \in (1..delivered') \ pending' : i \in (1..delivered) \ pending
<1>1. /\ delivered < Len(out) /\ delivered' = LastRead
      /\ pending' = pending \cup ((delivered + 1)..LastRead)
  BY Zenon DEF Deliver, NewEntries
<1>2. delivered \in 0..Len(out) /\ Len(out) \in Nat /\ Batch \in Nat \ {0} /\ pending \subseteq 1..delivered
  BY GroupType, DBWorkerAssumption, Zenon
<1>3. LastRead \in (delivered + 1)..Len(out)
  <2> DEFINE S == {delivered + Batch, Len(out)}
  <2>1. S \in SUBSET Nat /\ S # {}
    BY <1>2
  <2>2. Min(S) \in S /\ \A y \in S : Min(S) <= y
    BY <2>1, LeastElement, Zenon
  <2>3. LastRead = Min(S)
    BY Zenon DEF LastRead
  <2> QED
    BY <1>1, <1>2, <2>2, <2>3
<1> QED
  BY <1>1, <1>2, <1>3 DEF NewEntries

LEMMA ReadGroupKeeps ==
  ASSUME IInv, NEW w \in Workers, ReadGroup(w) PROVE IInv'
<1>1. /\ UNCHANGED <<streamVars, tables>> /\ UNCHANGED <<status, faults>> /\ Deliver(w)
      /\ pc' = [pc EXCEPT ![w] = "fence"] /\ queue' = [queue EXCEPT ![w] = NewEntries]
  BY Zenon DEF ReadGroup, Goto
<1>2. "fence" \in Idle \cup {"fence"} /\ "fence" \notin Idle
  BY DEF Idle
<1> HIDE DEF NewEntries
<1> QED
  BY <1>1, <1>2, GroupType, DeliverReaches, RestStep, Zenon

LEMMA ReadFailsKeeps ==
  ASSUME IInv, NEW w \in Workers, ReadFails(w) PROVE IInv'
<1>1. /\ UNCHANGED <<streamVars, tables>> /\ UNCHANGED <<pc, queue, status>> /\ Deliver(w)
      /\ Fault("skip") /\ pc[w] = "read"
  BY Zenon DEF ReadFails, Deliver, workerVars
<1>2. "read" \in Idle \cup {"fence"} /\ "read" \in Idle
  BY DEF Idle
<1>3. pc' = [pc EXCEPT ![w] = "read"] /\ queue' = [queue EXCEPT ![w] = {}]
  BY <1>1, <1>2, Zenon DEF IInv, WellTyped, TypeOK
<1>4. faults' \in 0..MaxFaults
  BY <1>1, FaultCounts, Zenon
<1> QED
  BY <1>1, <1>2, <1>3, <1>4, DeliverReaches, RestStep, Zenon

\* Whatever ends Run takes back the open transaction only.
LEMMA StopKeeps ==
  ASSUME IInv, NEW w \in Workers, Stop(w), UNCHANGED groupVars, faults' \in 0..MaxFaults
  PROVE  IInv'
<1>1. /\ UNCHANGED <<streamVars, tables>> /\ UNCHANGED <<delivered, pending>>
      /\ pc' = [pc EXCEPT ![w] = "stopped"] /\ queue' = [queue EXCEPT ![w] = {}]
      /\ status' = [status EXCEPT ![w] = Unread]
  BY Zenon DEF Stop, Goto, groupVars
<1>2. "stopped" \in Idle \cup {"fence"} /\ "stopped" \in Idle
  BY DEF Idle
<1> QED
  BY <1>1, <1>2, GroupType, RestStep, Zenon

LEMMA StopsKeep ==
  ASSUME IInv, NEW w \in Workers, Fail(w) \/ Refuse(w) \/ DeadlockAbort(w)
  PROVE  IInv'
<1>1. CASE Fail(w)
  BY <1>1, FaultCounts, StopKeeps, Zenon DEF Fail
<1>2. CASE Refuse(w)
  BY <1>2, GroupType, StopKeeps, Zenon DEF Refuse
<1>3. CASE DeadlockAbort(w)
  BY <1>3, GroupType, StopKeeps, Zenon DEF DeadlockAbort
<1> QED
  BY <1>1, <1>2, <1>3, Zenon

\* XACK comes after the event has been applied or dropped.
LEMMA AckKeeps ==
  ASSUME IInv, NEW w \in Workers, Ack(w) PROVE IInv'
<1> DEFINE q == queue[w] \ {HeadOf(w)}
           l == IF q = {} THEN "read" ELSE "fence"
<1>1. /\ UNCHANGED <<streamVars, tables>> /\ UNCHANGED <<delivered, status, faults>>
      /\ pc[w] = "ack" /\ pending' = pending \ {HeadOf(w)}
      /\ queue' = [queue EXCEPT ![w] = q]
      /\ pc' = [pc EXCEPT ![w] = IF queue'[w] = {} THEN "read" ELSE "fence"]
  BY Zenon DEF Ack, Goto
<1>2. pc' = [pc EXCEPT ![w] = l]
  BY <1>1, Zenon DEF IInv, WellTyped, TypeOK
<1>3. l \in Idle \cup {"fence"} /\ (q = {} <=> l \in Idle)
  BY DEF Idle
<1>4. q \subseteq 1..delivered'
  BY <1>1, Zenon DEF IInv, WellTyped, TypeOK
<1>5. HeadOf(w) \in 1..delivered /\ IsApplied(HeadOf(w))
  <2>1. pc[w] \notin Idle
    BY <1>1 DEF Idle
  <2> QED
    BY <1>1, <2>1, HeadType, Zenon DEF IInv, Sound
<1>6. /\ pending' \subseteq 1..delivered'
      /\ \A i \in (1..delivered') \ pending' :
           i \in (1..delivered) \ pending \/ (i \in 1..delivered /\ IsApplied(i))
  BY <1>1, <1>5, GroupType, Zenon
<1> HIDE DEF l, q
<1> QED
  BY <1>1, <1>2, <1>3, <1>4, <1>6, GroupType, RestStep, Zenon

\* A stale event is dropped; the others are to be applied.
LEMMA FencingDecisionKeeps ==
  ASSUME IInv, NEW w \in Workers, FencingDecision(w) PROVE IInv'
<1> DEFINE l == IF IsStale(Entry(w)) THEN "ack" ELSE "apply"
<1>1. /\ UNCHANGED <<streamVars, groupVars, queue, tables, faults>> /\ UNCHANGED status
      /\ pc[w] = "fence" /\ pc' = [pc EXCEPT ![w] = l]
  BY Zenon DEF FencingDecision, Goto
<1>2. /\ pc[w] \notin Idle /\ l \in Labels \ Idle /\ l # "seller"
      /\ l \notin {"taker", "maker", "buyer", "seller"}
  BY <1>1 DEF Labels, Idle
<1>3. l = "ack" => IsApplied(HeadOf(w))
  <2>1. l = "ack" => IsStale(Entry(w))
    OBVIOUS
  <2> QED
    BY <2>1, Zenon DEF IsApplied, Entry
<1> HIDE DEF l
<1>4. status' \in [Workers -> [taker : Computed \cup {""}, maker : Computed \cup {""}]]
  BY <1>1, Zenon DEF IInv, WellTyped
<1> QED
  BY <1>1, <1>2, <1>3, <1>4, WorkStep, Zenon

\* What a worker knows of the trade it settles.
LEMMA TxKnows ==
  ASSUME IInv, NEW w \in Workers, InTx(w)
  PROVE  /\ pc[w] \notin Idle
         /\ EventOf(w).type = "TRADE_EXECUTED" /\ EventOf(w).id \in TradeIds \ trades
         /\ HasOrders(w) /\ status[w].taker \in Computed
         /\ pc[w] # "taker" => status[w].maker \in Computed
         /\ \A v \in Workers \ {w} : InTx(v) => EventOf(v).id # EventOf(w).id
<1>1. Sound(w) /\ \A v \in Workers \ {w} : Apart(v, w)
  BY Zenon DEF IInv, Isolated
<1>2. pc[w] \notin Idle
  BY DEF InTx, Idle
<1> QED
  BY <1>1, <1>2, Zenon DEF Sound, Apart

\* The primary key: a trade that is in the table, or in an open transaction,
\* is not inserted.
LEMMA InsertTradeKeeps ==
  ASSUME IInv, NEW w \in Workers, InsertTrade(w) PROVE IInv'
<1>1. /\ UNCHANGED <<streamVars, groupVars, queue, tables, faults>>
      /\ pc[w] = "apply" /\ EventOf(w).type = "TRADE_EXECUTED"
      /\ \A v \in Workers \ {w} : EventOf(w).id \notin Inserted(v)
  BY Zenon DEF InsertTrade, Applying
<1>2. pc[w] \notin Idle
  BY <1>1 DEF Idle
<1>3. EventOf(w) \in Event
  BY <1>2, HeadType, Zenon DEF IInv
<1>4. EventOf(w).id \in TradeIds
  BY <1>1, <1>3 DEF Event
<1>5. status \in [Workers -> [taker : Computed \cup {""}, maker : Computed \cup {""}]]
  BY Zenon DEF IInv, WellTyped
<1>6. CASE AlreadySettled(w)
  <2>1. pc' = [pc EXCEPT ![w] = "ack"] /\ UNCHANGED status
    BY <1>6, Zenon DEF InsertTrade, Goto
  <2>2. "ack" \in Labels \ Idle
    BY DEF Labels, Idle
  <2>3. IsApplied(HeadOf(w))
    BY <1>1, <1>6, Zenon DEF IsApplied, AlreadySettled, EventOf
  <2> QED
    BY <1>1, <1>2, <1>5, <2>1, <2>2, <2>3, WorkStep, Zenon
<1>7. CASE ~AlreadySettled(w)
  <2> DEFINE st == StatusAfter(TradeAt(w).taker, TradeAt(w).quantity)
  <2>1. /\ pc' = [pc EXCEPT ![w] = "taker"] /\ HasOrders(w)
        /\ status' = [status EXCEPT ![w].taker = st]
    BY <1>7, Zenon DEF InsertTrade, Goto
  <2>2. st \in Computed
    BY Zenon DEF StatusAfter, Computed
  <2>3. "taker" \in Labels \ Idle
    BY DEF Labels, Idle
  <2> HIDE DEF st
  <2>4. /\ status' \in [Workers -> [taker : Computed \cup {""}, maker : Computed \cup {""}]]
        /\ status'[w].taker \in Computed
        /\ \A v \in Workers \ {w} : status'[v] = status[v]
    BY <1>5, <2>1, <2>2
  <2>5. EventOf(w).id \notin trades
    BY <1>7, Zenon DEF AlreadySettled
  <2>6. \A v \in Workers \ {w} : InTx(v) => EventOf(v).id # EventOf(w).id
    BY <1>1, Zenon DEF Inserted, InTx
  <2> QED
    BY <1>1, <1>2, <1>4, <2>1, <2>3, <2>4, <2>5, <2>6, WorkStep, Zenon
<1> QED
  BY <1>6, <1>7, Zenon

LEMMA UpdateTakerKeeps ==
  ASSUME IInv, NEW w \in Workers, UpdateTaker(w) PROVE IInv'
<1> DEFINE st == StatusAfter(TradeAt(w).maker, TradeAt(w).quantity)
<1>1. /\ UNCHANGED <<streamVars, groupVars, queue, tables, faults>>
      /\ pc[w] = "taker" /\ pc' = [pc EXCEPT ![w] = "maker"]
      /\ status' = [status EXCEPT ![w].maker = st]
  BY Zenon DEF UpdateTaker, Goto
<1>2. st \in Computed
  BY Zenon DEF StatusAfter, Computed
<1>3. InTx(w) /\ "maker" \in Labels \ Idle
  BY <1>1 DEF InTx, Labels, Idle
<1> HIDE DEF st
<1>4. status \in [Workers -> [taker : Computed \cup {""}, maker : Computed \cup {""}]]
  BY Zenon DEF IInv, WellTyped
<1>5. /\ status' \in [Workers -> [taker : Computed \cup {""}, maker : Computed \cup {""}]]
      /\ status'[w].taker = status[w].taker /\ status'[w].maker \in Computed
      /\ \A v \in Workers \ {w} : status'[v] = status[v]
  BY <1>1, <1>2, <1>4
<1> QED
  BY <1>1, <1>3, <1>5, TxKnows, WorkStep, Zenon

LEMMA UpdateMakerKeeps ==
  ASSUME IInv, NEW w \in Workers, UpdateMaker(w) PROVE IInv'
<1>1. /\ UNCHANGED <<streamVars, groupVars, queue, tables, faults>> /\ UNCHANGED status
      /\ pc[w] = "maker" /\ pc' = [pc EXCEPT ![w] = "buyer"]
  BY Zenon DEF UpdateMaker, Goto
<1>2. InTx(w) /\ "buyer" \in Labels \ Idle /\ pc[w] # "taker"
  BY <1>1 DEF InTx, Labels, Idle
<1>3. status' \in [Workers -> [taker : Computed \cup {""}, maker : Computed \cup {""}]]
  BY <1>1, Zenon DEF IInv, WellTyped
<1> QED
  BY <1>1, <1>2, <1>3, TxKnows, WorkStep, Zenon

\* DeductBalance waits for the transaction that has debited the same user.
LEMMA DeductBalanceKeeps ==
  ASSUME IInv, NEW w \in Workers, DeductBalance(w) PROVE IInv'
<1>1. /\ UNCHANGED <<streamVars, groupVars, queue, tables, faults>> /\ UNCHANGED status
      /\ pc[w] = "buyer" /\ pc' = [pc EXCEPT ![w] = "seller"] /\ CanPay(w)
      /\ UserFree(w, TradeAt(w).buyer)
  BY Zenon DEF DeductBalance, Goto
<1>2. InTx(w) /\ "seller" \in Labels \ Idle /\ pc[w] # "taker"
  BY <1>1 DEF InTx, Labels, Idle
<1>3. status' \in [Workers -> [taker : Computed \cup {""}, maker : Computed \cup {""}]]
  BY <1>1, Zenon DEF IInv, WellTyped
<1>4. \A v \in Workers \ {w} : pc[v] = "seller" => TradeAt(v).buyer # TradeAt(w).buyer
  BY <1>1, Zenon DEF UserFree, LockedUsers
<1> QED
  BY <1>1, <1>2, <1>3, <1>4, TxKnows, WorkStep, Zenon

\* A worker has applied its event to the tables.
LEMMA AppliedStep ==
  ASSUME IInv, NEW w \in Workers, pc[w] \notin Idle, Grows,
         UNCHANGED <<streamVars, groupVars, queue, faults>>,
         pc' = [pc EXCEPT ![w] = "ack"],
         status' \in [Workers -> [taker : Computed \cup {""}, maker : Computed \cup {""}]],
         \A v \in Workers \ {w} : status'[v] = status[v],
         orders' \in [OrderIds -> Row \cup {NoRow}], trades' \subseteq TradeIds,
         IsFiniteSet(trades'), balance' \in [Users -> Nat],
         shares' \in [Users \X Outcomes -> Int],
         RowsKept', TablesAgree', IsApplied(HeadOf(w))',
         \A v \in Workers \ {w} :
            /\ InTx(v) => EventOf(v).id \notin trades'
            /\ pc[v] = "seller" => balance[TradeAt(v).buyer] <= balance'[TradeAt(v).buyer]
  PROVE  IInv'
<1>1. /\ UNCHANGED <<scenario, emitted, fencing, out, delivered, pending, queue, faults>>
      /\ WellTyped
  BY Zenon DEF streamVars, groupVars, IInv
<1>2. "ack" \in Labels \ Idle
  BY DEF Labels, Idle
<1>3. /\ pc' \in [Workers -> Labels] /\ pc'[w] = "ack"
      /\ \A v \in Workers \ {w} : pc'[v] = pc[v]
  BY <1>2, Zenon DEF IInv, WellTyped, TypeOK
<1>4. WellTyped'
  <2>1. \A v \in Workers : queue'[v] = {} <=> pc'[v] \in Idle
    BY <1>1, <1>2, <1>3, Zenon DEF WellTyped, TypeOK
  <2>2. TypeOK'
    BY <1>1, <1>3, <2>1, Zenon DEF WellTyped, TypeOK, script
  <2> QED
    BY <1>1, <2>2, Zenon DEF WellTyped
<1>5. ~InTx(w)' /\ pc'[w] # "seller"
  BY <1>3 DEF InTx
<1>6. ASSUME NEW v \in Workers PROVE Sound(v)'
  <2>1. CASE v = w
    BY <1>5, <2>1, Zenon DEF Sound
  <2>2. CASE v # w
    <3>1. pc'[v] = pc[v] /\ queue'[v] = queue[v] /\ status'[v] = status[v] /\ Sound(v)
      BY <1>1, <1>3, <2>2, Zenon DEF IInv
    <3>2. pc[v] = "seller" => InTx(v)
      BY DEF InTx
    <3>3. pc[v] = "seller" => TradeAt(v).buyer \in Users
      BY <3>1, <3>2, TradeType, Zenon DEF TradeAt, Sound
    <3>4. pc[v] = "seller" => /\ balance'[TradeAt(v).buyer] \in Nat
                              /\ balance[TradeAt(v).buyer] \in Nat
      BY <3>3, Zenon DEF IInv, WellTyped, TypeOK
    <3> QED
      BY <1>1, <2>2, <3>1, <3>4, SoundStays, Zenon
  <2> QED
    BY <2>1, <2>2, Zenon
<1>7. ASSUME NEW u \in Workers, NEW v \in Workers, u # v PROVE Apart(u, v)'
  <2>1. CASE u = w \/ v = w
    BY <1>5, <2>1, Zenon DEF Apart
  <2>2. CASE u # w /\ v # w
    <3>1. /\ pc'[u] = pc[u] /\ queue'[u] = queue[u] /\ pc'[v] = pc[v] /\ queue'[v] = queue[v]
          /\ Apart(u, v)
      BY <1>1, <1>3, <1>7, <2>2, Zenon DEF IInv, Isolated
    <3> QED
      BY <1>1, <3>1, ApartStays, Zenon
  <2> QED
    BY <2>1, <2>2, Zenon
<1>8. AckedIsApplied'
  <2>1. ASSUME NEW i \in (1..delivered) \ pending PROVE IsApplied(i)'
    <3>1. IsApplied(i)
      BY Zenon DEF IInv, AckedIsApplied
    <3> QED
      BY <1>1, <3>1, AppliedStays, Zenon
  <2> QED
    BY <1>1, <2>1, Zenon DEF AckedIsApplied
<1> QED
  BY <1>4, <1>6, <1>7, <1>8, Zenon DEF IInv, Isolated

\* Only trades in the table count.
LEMMA NothingSold == Quantity({}) = 0 /\ Amount({}) = 0
<1>1. \A f : Units(f, {}) = {}
  BY Zenon DEF Units
<1> QED
  BY <1>1, FS_EmptySet, Zenon DEF Quantity, Amount, Total

LEMMA OneMoreTrade ==
  ASSUME NEW S \in SUBSET TradeIds, IsFiniteSet(S), NEW t \in TradeIds \ S
  PROVE  /\ Quantity(S) \in Nat /\ Amount(S) \in Nat
         /\ Quantity(S \cup {t}) = Quantity(S) + TradeOf[t].quantity
         /\ Amount(S \cup {t}) = Amount(S) + Cost(t)
<1> DEFINE f == [x \in TradeIds |-> TradeOf[x].quantity]
           g == [x \in TradeIds |-> Cost(x)]
<1>1. \A x \in TradeIds : TradeOf[x].quantity \in Nat /\ Cost(x) \in Nat
  BY TradeType, Zenon
<1>2. \A x \in TradeIds : f[x] = TradeOf[x].quantity /\ g[x] = Cost(x)
  BY Zenon
<1>3. \A x \in S \cup {t} : f[x] \in Nat /\ g[x] \in Nat
  BY <1>1, <1>2, Zenon
<1>4. Quantity(S) = Total(f, S) /\ Quantity(S \cup {t}) = Total(f, S \cup {t})
  BY Zenon DEF Quantity
<1>5. Amount(S) = Total(g, S) /\ Amount(S \cup {t}) = Total(g, S \cup {t})
  BY Zenon DEF Amount
<1> HIDE DEF f, g
<1>6. Total(f, S) \in Nat /\ Total(f, S \cup {t}) = Total(f, S) + f[t]
  BY <1>3, UnitsFinite, TotalAdd, Zenon
<1>7. Total(g, S) \in Nat /\ Total(g, S \cup {t}) = Total(g, S) + g[t]
  BY <1>3, UnitsFinite, TotalAdd, Zenon
<1> QED
  BY <1>2, <1>4, <1>5, <1>6, <1>7, Zenon

\* A worker has written the row of an order, and not its fills.
LEMMA OrderStep ==
  ASSUME IInv, NEW w \in Workers, pc[w] \notin Idle,
         UNCHANGED <<streamVars, groupVars, queue, status, faults>>,
         UNCHANGED <<trades, balance, shares, transactions, volume>>,
         pc' = [pc EXCEPT ![w] = "ack"],
         orders' \in [OrderIds -> Row \cup {NoRow}],
         \A p \in OrderIds : /\ orders[p] # NoRow => orders'[p] # NoRow
                             /\ orders'[p] # NoRow => orders'[p].filled = Quantity(FillsOf(p)),
         \/ EventOf(w).type = "ORDER_CREATED" /\ orders'[EventOf(w).id] # NoRow
         \/ EventOf(w).type = "ORDER_CANCELED"
  PROVE  IInv'
<1>1. WellTyped /\ UNCHANGED status /\ UNCHANGED queue
  BY Zenon DEF IInv
<1>2. Grows
  <2>1. fencing \in Nat /\ fencing <= fencing
    BY <1>1, NoLess, Zenon DEF WellTyped
  <2> QED
    BY <2>1, Zenon DEF Grows, streamVars
<1>3. RowsKept'
  <2>1. \A t \in trades : TradeOf[t].taker \in OrderIds /\ TradeOf[t].maker \in OrderIds
    BY TradeType, Zenon DEF IInv, WellTyped, TypeOK
  <2> QED
    BY <2>1, Zenon DEF IInv, RowsKept
<1>4. TablesAgree'
  <2>1. /\ \A p : FillsOf(p)' = FillsOf(p)
        /\ \A u : SoldBy(u)' = SoldBy(u) /\ BoughtBy(u)' = BoughtBy(u)
    BY Zenon DEF FillsOf, SoldBy, BoughtBy
  <2> QED
    BY <2>1, Zenon DEF IInv, TablesAgree, Quantity, Amount, Of
<1>5. IsApplied(HeadOf(w))'
  <2>1. EventAt(HeadOf(w))' = EventOf(w)
    BY <1>1, <1>2, SameWork, Zenon DEF EventOf
  <2> QED
    BY <2>1, Zenon DEF IsApplied
<1>6. ASSUME NEW v \in Workers \ {w}
      PROVE  /\ InTx(v) => EventOf(v).id \notin trades'
             /\ pc[v] = "seller" => balance[TradeAt(v).buyer] <= balance'[TradeAt(v).buyer]
  <2>1. Sound(v) /\ (pc[v] = "seller" => InTx(v))
    BY Zenon DEF IInv, InTx
  <2>2. pc[v] = "seller" => TradeAt(v).buyer \in Users
    BY <2>1, TradeType, Zenon DEF TradeAt, Sound
  <2>3. pc[v] = "seller" => balance[TradeAt(v).buyer] <= balance[TradeAt(v).buyer]
    BY <2>2, NoLess, Zenon DEF IInv, WellTyped, TypeOK
  <2> QED
    BY <2>1, <2>3, Zenon DEF Sound
<1>7. /\ status' \in [Workers -> [taker : Computed \cup {""}, maker : Computed \cup {""}]]
      /\ trades' \subseteq TradeIds /\ IsFiniteSet(trades')
      /\ balance' \in [Users -> Nat] /\ shares' \in [Users \X Outcomes -> Int]
  BY <1>1, Zenon DEF WellTyped, TypeOK
<1> QED
  BY <1>1, <1>2, <1>3, <1>4, <1>5, <1>6, <1>7, AppliedStep, Zenon

\* The row of an order comes before its trades; INSERT of a row that is there
\* already changes nothing.
LEMMA HandleOrderCreatedKeeps ==
  ASSUME IInv, NEW w \in Workers, HandleOrderCreated(w) PROVE IInv'
<1> DEFINE o == EventOf(w).id
<1>1. /\ UNCHANGED <<streamVars, groupVars, queue, status, faults>>
      /\ UNCHANGED <<trades, balance, shares, transactions, volume>>
      /\ pc[w] = "apply" /\ EventOf(w).type = "ORDER_CREATED"
      /\ orders' = IF orders[o] # NoRow THEN orders ELSE [orders EXCEPT ![o] = InsertOrder]
      /\ pc' = [pc EXCEPT ![w] = "ack"]
  BY Zenon DEF HandleOrderCreated, Applying, Goto
<1>2. pc[w] \notin Idle
  BY <1>1 DEF Idle
<1>3. EventOf(w) \in Event
  BY <1>2, HeadType, Zenon DEF IInv
<1>4. o \in OrderIds
  BY <1>1, <1>3 DEF Event
<1>5. InsertOrder \in Row /\ InsertOrder # NoRow /\ InsertOrder.filled = 0
  <2>1. InsertOrder \in Row /\ InsertOrder.filled = 0
    BY DEF InsertOrder, Row
  <2> QED
    BY <2>1, DBWorkerAssumption, Zenon
<1> HIDE DEF o
<1>6. /\ orders' \in [OrderIds -> Row \cup {NoRow}] /\ orders'[o] # NoRow
      /\ \A p \in OrderIds : p # o \/ orders[o] # NoRow => orders'[p] = orders[p]
      /\ orders[o] = NoRow => orders'[o] = InsertOrder
  BY <1>1, <1>4, <1>5, Zenon DEF IInv, WellTyped, TypeOK
<1>7. ASSUME NEW p \in OrderIds
      PROVE  /\ orders[p] # NoRow => orders'[p] # NoRow
             /\ orders'[p] # NoRow => orders'[p].filled = Quantity(FillsOf(p))
  <2>1. CASE orders'[p] = orders[p]
    BY <2>1, Zenon DEF IInv, TablesAgree
  <2>2. CASE p = o /\ orders[o] = NoRow
    <3>1. FillsOf(p) = {}
      BY <2>2, Zenon DEF IInv, RowsKept, FillsOf
    <3> QED
      BY <1>5, <1>6, <2>2, <3>1, NothingSold, Zenon
  <2> QED
    BY <1>6, <2>1, <2>2, Zenon
<1>8. orders'[EventOf(w).id] # NoRow
  BY <1>6, Zenon DEF o
<1> QED
  BY <1>1, <1>2, <1>6, <1>7, <1>8, OrderStep, Zenon

\* UPDATE of the status leaves the fills alone.
LEMMA HandleOrderCanceledKeeps ==
  ASSUME IInv, NEW w \in Workers, HandleOrderCanceled(w) PROVE IInv'
<1> DEFINE o == EventOf(w).id
           row == UpdateOrderStatus(orders[o])
<1>1. /\ UNCHANGED <<streamVars, groupVars, queue, status, faults>>
      /\ UNCHANGED <<trades, balance, shares, transactions, volume>>
      /\ pc[w] = "apply" /\ EventOf(w).type = "ORDER_CANCELED"
      /\ orders' = IF orders[o] = NoRow THEN orders
                   ELSE [orders EXCEPT ![o] = UpdateOrderStatus(@)]
      /\ pc' = [pc EXCEPT ![w] = "ack"]
  BY Zenon DEF HandleOrderCanceled, Applying, Goto
<1>2. pc[w] \notin Idle
  BY <1>1 DEF Idle
<1>3. EventOf(w) \in Event
  BY <1>2, HeadType, Zenon DEF IInv
<1>4. o \in OrderIds
  BY <1>1, <1>3 DEF Event
<1> HIDE DEF o
<1>5. orders \in [OrderIds -> Row \cup {NoRow}]
  BY Zenon DEF IInv, WellTyped, TypeOK
<1>6. orders[o] # NoRow => row \in Row /\ row # NoRow /\ row.filled = orders[o].filled
  <2>1. ASSUME NEW r \in Row PROVE UpdateOrderStatus(r) \in Row /\ UpdateOrderStatus(r).filled = r.filled
    BY DEF UpdateOrderStatus, Row
  <2>2. orders[o] # NoRow => orders[o] \in Row
    BY <1>4, <1>5, Zenon
  <2> QED
    BY <2>1, <2>2, DBWorkerAssumption, Zenon
<1>7. orders' = IF orders[o] = NoRow THEN orders ELSE [orders EXCEPT ![o] = row]
  BY <1>1, Zenon
<1> HIDE DEF row
<1>8. /\ orders' \in [OrderIds -> Row \cup {NoRow}]
      /\ \A p \in OrderIds : \/ orders'[p] = orders[p]
                             \/ p = o /\ orders'[p] = row /\ orders[o] # NoRow
  BY <1>4, <1>5, <1>6, <1>7, Zenon
<1>9. ASSUME NEW p \in OrderIds
      PROVE  /\ orders[p] # NoRow => orders'[p] # NoRow
             /\ orders'[p] # NoRow => orders'[p].filled = Quantity(FillsOf(p))
  <2>1. orders[p] # NoRow => orders[p].filled = Quantity(FillsOf(p))
    BY Zenon DEF IInv, TablesAgree
  <2> QED
    BY <1>6, <1>8, <2>1, Zenon
<1> QED
  BY <1>1, <1>2, <1>8, <1>9, OrderStep, Zenon

\* A set of trades that a new one may or may not belong to.
LEMMA SumsGrow ==
  ASSUME NEW S \in SUBSET TradeIds, IsFiniteSet(S), NEW t \in TradeIds \ S,
         NEW T, NEW b \in BOOLEAN, T = IF b THEN S \cup {t} ELSE S
  PROVE  /\ Quantity(S) \in Nat /\ Amount(S) \in Nat
         /\ Quantity(T) = Quantity(S) + (IF b THEN TradeOf[t].quantity ELSE 0)
         /\ Amount(T) = Amount(S) + (IF b THEN Cost(t) ELSE 0)
<1>1. /\ Quantity(S) \in Nat /\ Amount(S) \in Nat
      /\ Quantity(S \cup {t}) = Quantity(S) + TradeOf[t].quantity
      /\ Amount(S \cup {t}) = Amount(S) + Cost(t)
  BY OneMoreTrade, Zenon
<1>2. CASE b = TRUE
  BY <1>1, <1>2, Zenon
<1>3. CASE b = FALSE
  <2>1. T = S
    BY <1>3, Zenon
  <2>2. Quantity(S) = Quantity(S) + 0 /\ Amount(S) = Amount(S) + 0
    BY <1>1
  <2> QED
    BY <1>1, <1>3, <2>1, <2>2, Zenon
<1> QED
  BY <1>2, <1>3, Zenon

\* COMMIT: everything that the trade changes, at once.
LEMMA CommitKeeps ==
  ASSUME IInv, NEW w \in Workers, Commit(w) PROVE IInv'
<1> DEFINE t == EventOf(w).id
           taker == TradeOf[t].taker
           maker == TradeOf[t].maker
           buyer == TradeOf[t].buyer
           seller == TradeOf[t].seller
           c == TradeOf[t].outcome
           n == TradeOf[t].quantity
           takerRow == UpdateOrderFill(orders[taker], n, status[w].taker)
           makerRow == UpdateOrderFill(orders[maker], n, status[w].maker)
<1>1. /\ UNCHANGED <<streamVars, groupVars, queue, faults>>
      /\ pc[w] = "seller" /\ pc' = [pc EXCEPT ![w] = "ack"]
      /\ trades' = trades \cup {t}
      /\ orders' = [orders EXCEPT ![taker] = UpdateOrderFill(@, n, status[w].taker),
                                  ![maker] = UpdateOrderFill(@, n, status[w].maker)]
      /\ balance' = [balance EXCEPT ![buyer] = @ - Cost(t), ![seller] = AddBalance(@, Cost(t))]
      /\ shares' = [shares EXCEPT ![<<buyer, c>>] = UpsertPosition(@, n),
                                  ![<<seller, c>>] = UpsertPosition(@, -n)]
      /\ transactions' = transactions \cup TransactionsOf(t)
      /\ IncrementEventVolume(Cost(t))
      /\ status' = [status EXCEPT ![w] = Unread]
  BY Zenon DEF Commit, Goto
<1>2. InTx(w) /\ pc[w] # "taker"
  BY <1>1 DEF InTx
<1>3. /\ pc[w] \notin Idle /\ EventOf(w).type = "TRADE_EXECUTED"
      /\ t \in TradeIds \ trades /\ HasOrders(w)
      /\ status[w].taker \in Computed /\ status[w].maker \in Computed
      /\ \A v \in Workers \ {w} : InTx(v) => EventOf(v).id # t
  BY <1>2, TxKnows, Zenon
<1>4. /\ taker \in OrderIds /\ maker \in OrderIds /\ taker # maker
      /\ buyer \in Users /\ seller \in Users /\ buyer # seller /\ c \in Outcomes
      /\ n \in Nat /\ Cost(t) \in Nat
  BY <1>3, TradeType, Zenon
<1>5. /\ orders[taker] # NoRow /\ orders[maker] # NoRow
      /\ Cost(t) <= balance[buyer]
      /\ \A v \in Workers \ {w} : pc[v] = "seller" => TradeAt(v).buyer # buyer
  BY <1>1, <1>3, Zenon DEF HasOrders, TradeAt, IInv, Sound, CanPay, Isolated, Apart
<1>6. /\ WellTyped /\ orders \in [OrderIds -> Row \cup {NoRow}] /\ balance \in [Users -> Nat]
      /\ shares \in [Users \X Outcomes -> Int] /\ trades \subseteq TradeIds
      /\ IsFiniteSet(trades)
      /\ status \in [Workers -> [taker : Computed \cup {""}, maker : Computed \cup {""}]]
  BY Zenon DEF IInv, WellTyped, TypeOK
<1> HIDE DEF t, taker, maker, buyer, seller, c, n
<1>7. ASSUME NEW r \in Row, NEW st \in Computed
      PROVE  UpdateOrderFill(r, n, st) \in Row /\ UpdateOrderFill(r, n, st).filled = r.filled + n
  BY <1>4 DEF UpdateOrderFill, Row, Computed
<1>8. /\ takerRow \in Row /\ takerRow.filled = orders[taker].filled + n
      /\ makerRow \in Row /\ makerRow.filled = orders[maker].filled + n
  BY <1>3, <1>4, <1>5, <1>6, <1>7, Zenon
<1>9. /\ orders' \in [OrderIds -> Row \cup {NoRow}]
      /\ orders'[taker] = takerRow /\ orders'[maker] = makerRow
      /\ \A o \in OrderIds \ {taker, maker} : orders'[o] = orders[o]
  <2>1. orders' = [[orders EXCEPT ![taker] = takerRow] EXCEPT ![maker] = makerRow]
    BY <1>1, <1>4, <1>6, Zenon
  <2> HIDE DEF takerRow, makerRow
  <2> QED
    BY <1>4, <1>6, <1>8, <2>1, Zenon
<1> HIDE DEF takerRow, makerRow
<1>10. \A o \in OrderIds : orders[o] # NoRow => orders'[o] # NoRow
  BY <1>8, <1>9, DBWorkerAssumption, Zenon
<1>11. Grows
  <2>1. fencing \in Nat /\ fencing <= fencing
    BY <1>6, NoLess, Zenon DEF WellTyped
  <2> QED
    BY <1>1, <1>10, <2>1, Zenon DEF Grows, streamVars
<1>12. /\ balance' \in [Users -> Nat]
       /\ balance'[buyer] = balance[buyer] - Cost(t)
       /\ balance'[seller] = balance[seller] + Cost(t)
       /\ \A u \in Users \ {buyer, seller} : balance'[u] = balance[u]
  <2>1. balance[buyer] - Cost(t) \in Nat /\ balance[seller] + Cost(t) \in Nat
    <3>1. balance[buyer] \in Nat /\ balance[seller] \in Nat
      BY <1>4, <1>6, Zenon
    <3> QED
      BY <1>4, <1>5, <3>1, Pays, Zenon
  <2>2. balance' = [[balance EXCEPT ![buyer] = balance[buyer] - Cost(t)]
                       EXCEPT ![seller] = balance[seller] + Cost(t)]
    BY <1>1, <1>4, <1>6, Zenon DEF AddBalance
  <2> QED
    BY <1>4, <1>6, <2>1, <2>2, Zenon
<1>13. /\ shares' \in [Users \X Outcomes -> Int]
       /\ shares'[<<buyer, c>>] = shares[<<buyer, c>>] + n
       /\ shares'[<<seller, c>>] = shares[<<seller, c>>] + (-n)
       /\ \A k \in (Users \X Outcomes) \ {<<buyer, c>>, <<seller, c>>} : shares'[k] = shares[k]
  <2>1. /\ <<buyer, c>> \in Users \X Outcomes /\ <<seller, c>> \in Users \X Outcomes
        /\ <<buyer, c>> # <<seller, c>>
    BY <1>4
  <2>2. shares[<<buyer, c>>] + n \in Int /\ shares[<<seller, c>>] + (-n) \in Int
    <3>1. shares[<<buyer, c>>] \in Int /\ shares[<<seller, c>>] \in Int
      BY <1>6, <2>1, Zenon
    <3> QED
      BY <1>4, <3>1, Shifts, Zenon
  <2>3. shares' = [[shares EXCEPT ![<<buyer, c>>] = shares[<<buyer, c>>] + n]
                      EXCEPT ![<<seller, c>>] = shares[<<seller, c>>] + (-n)]
    BY <1>1, <1>6, <2>1, Zenon DEF UpsertPosition
  <2> QED
    BY <1>6, <2>1, <2>2, <2>3, Zenon
<1>14. /\ trades' \subseteq TradeIds /\ IsFiniteSet(trades')
       /\ status' \in [Workers -> [taker : Computed \cup {""}, maker : Computed \cup {""}]]
       /\ \A v \in Workers \ {w} : status'[v] = status[v]
  <2>1. Unread \in [taker : Computed \cup {""}, maker : Computed \cup {""}]
    BY DEF Unread
  <2> QED
    BY <1>1, <1>3, <1>6, <2>1, FS_AddElement, Zenon
<1>15. RowsKept'
  <2>1. \A x \in trades : TradeOf[x].taker \in OrderIds /\ TradeOf[x].maker \in OrderIds
    BY <1>6, TradeType, Zenon
  <2>2. orders'[TradeOf[t].taker] # NoRow /\ orders'[TradeOf[t].maker] # NoRow
    BY <1>4, <1>5, <1>10, Zenon DEF taker, maker
  <2> QED
    BY <1>1, <1>10, <2>1, <2>2, Zenon DEF IInv, RowsKept
<1>16. TablesAgree'
  <2>1. /\ \A o \in OrderIds : orders[o] # NoRow => orders[o].filled = Quantity(FillsOf(o))
        /\ \A u \in Users :
             /\ balance[u] = Balance0[u] + Amount(SoldBy(u)) - Amount(BoughtBy(u))
             /\ \A d \in Outcomes :
                  shares[<<u, d>>] = Quantity(Of(d, BoughtBy(u))) - Quantity(Of(d, SoldBy(u)))
        /\ transactions = UNION {TransactionsOf(x) : x \in trades}
        /\ volume = Amount(trades)
    BY Zenon DEF IInv, TablesAgree
  <2>2. \A S \in SUBSET trades : S \in SUBSET TradeIds /\ IsFiniteSet(S) /\ t \in TradeIds \ S
    BY <1>3, <1>6, FS_Subset, Zenon
  <2>3. ASSUME NEW o \in OrderIds, orders'[o] # NoRow
        PROVE  orders'[o].filled = Quantity(FillsOf(o)')
    <3>1. FillsOf(o) \in SUBSET trades
          /\ FillsOf(o)' = IF o \in {taker, maker} THEN FillsOf(o) \cup {t} ELSE FillsOf(o)
      BY <1>1, Zenon DEF FillsOf, taker, maker
    <3>2. /\ Quantity(FillsOf(o)) \in Nat
          /\ Quantity(FillsOf(o)') =
               Quantity(FillsOf(o)) + (IF o \in {taker, maker} THEN n ELSE 0)
      BY <2>2, <3>1, SumsGrow, Zenon DEF n
    <3>3. CASE o \in {taker, maker}
      BY <1>4, <1>5, <1>8, <1>9, <2>1, <3>2, <3>3, Zenon
    <3>4. CASE o \notin {taker, maker}
      <4>1. orders'[o] = orders[o]
        BY <1>9, <3>4, Zenon
      <4>2. Quantity(FillsOf(o)') = Quantity(FillsOf(o))
        BY <3>2, <3>4, NothingMore, Zenon
      <4> QED
        BY <2>1, <2>3, <4>1, <4>2, Zenon
    <3> QED
      BY <3>3, <3>4, Zenon
  <2>4. ASSUME NEW u \in Users
        PROVE  balance'[u] = Balance0[u] + Amount(SoldBy(u)') - Amount(BoughtBy(u)')
    <3>1. /\ SoldBy(u) \in SUBSET trades /\ BoughtBy(u) \in SUBSET trades
          /\ SoldBy(u)' = IF u = seller THEN SoldBy(u) \cup {t} ELSE SoldBy(u)
          /\ BoughtBy(u)' = IF u = buyer THEN BoughtBy(u) \cup {t} ELSE BoughtBy(u)
      BY <1>1, Zenon DEF SoldBy, BoughtBy, seller, buyer
    <3>2. /\ Amount(SoldBy(u)) \in Nat /\ Amount(BoughtBy(u)) \in Nat
          /\ Amount(SoldBy(u)') = Amount(SoldBy(u)) + (IF u = seller THEN Cost(t) ELSE 0)
          /\ Amount(BoughtBy(u)') = Amount(BoughtBy(u)) + (IF u = buyer THEN Cost(t) ELSE 0)
      <4> DEFINE S == SoldBy(u)
                 SS == SoldBy(u)'
                 B == BoughtBy(u)
                 BB == BoughtBy(u)'
                 sells == u = seller
                 buys == u = buyer
      <4>1. /\ S \in SUBSET trades /\ sells \in BOOLEAN /\ SS = IF sells THEN S \cup {t} ELSE S
            /\ B \in SUBSET trades /\ buys \in BOOLEAN /\ BB = IF buys THEN B \cup {t} ELSE B
        BY <3>1, Zenon
      <4> HIDE DEF sells, buys, S, SS, B, BB
      <4>2. Amount(S) \in Nat /\ Amount(SS) = Amount(S) + (IF sells THEN Cost(t) ELSE 0)
        <5>1. S \in SUBSET TradeIds /\ IsFiniteSet(S) /\ t \in TradeIds \ S
          BY <2>2, <4>1, Zenon
        <5>2. sells \in BOOLEAN /\ SS = IF sells THEN S \cup {t} ELSE S
          BY <4>1, Zenon
        <5> QED
          BY <5>1, <5>2, SumsGrow, Zenon
      <4>3. Amount(B) \in Nat /\ Amount(BB) = Amount(B) + (IF buys THEN Cost(t) ELSE 0)
        <5>1. B \in SUBSET TradeIds /\ IsFiniteSet(B) /\ t \in TradeIds \ B
          BY <2>2, <4>1, Zenon
        <5>2. buys \in BOOLEAN /\ BB = IF buys THEN B \cup {t} ELSE B
          BY <4>1, Zenon
        <5> QED
          BY <5>1, <5>2, SumsGrow, Zenon
      <4> QED
        BY <4>2, <4>3, Zenon DEF sells, buys, S, SS, B, BB
    <3>3. /\ balance[u] = Balance0[u] + Amount(SoldBy(u)) - Amount(BoughtBy(u))
          /\ Balance0[u] \in Nat
      BY <2>1, DBWorkerAssumption, Zenon
    <3>4. \/ u = buyer /\ u # seller /\ balance'[u] = balance[u] - Cost(t)
          \/ u = seller /\ u # buyer /\ balance'[u] = balance[u] + Cost(t)
          \/ u # buyer /\ u # seller /\ balance'[u] = balance[u]
      BY <1>4, <1>12
    <3> QED
      BY <1>4, <3>2, <3>3, <3>4
  <2>5. ASSUME NEW u \in Users, NEW d \in Outcomes
        PROVE  shares'[<<u, d>>] = Quantity(Of(d, BoughtBy(u)')) - Quantity(Of(d, SoldBy(u)'))
    <3> DEFINE B == Of(d, BoughtBy(u))
               S == Of(d, SoldBy(u))
               BB == Of(d, BoughtBy(u)')
               SS == Of(d, SoldBy(u)')
    <3>1. /\ S \in SUBSET trades /\ B \in SUBSET trades
          /\ SS = IF u = seller /\ d = c THEN S \cup {t} ELSE S
          /\ BB = IF u = buyer /\ d = c THEN B \cup {t} ELSE B
      BY <1>1, Zenon DEF SoldBy, BoughtBy, Of, seller, buyer, c
    <3>2. shares[<<u, d>>] = Quantity(B) - Quantity(S)
      BY <2>1, Zenon
    <3> HIDE DEF B, S, BB, SS
    <3>3. /\ Quantity(S) \in Nat /\ Quantity(B) \in Nat
          /\ Quantity(SS) = Quantity(S) + (IF u = seller /\ d = c THEN n ELSE 0)
          /\ Quantity(BB) = Quantity(B) + (IF u = buyer /\ d = c THEN n ELSE 0)
      <4> DEFINE sells == u = seller /\ d = c
                 buys == u = buyer /\ d = c
      <4>1. /\ sells \in BOOLEAN /\ SS = IF sells THEN S \cup {t} ELSE S
            /\ buys \in BOOLEAN /\ BB = IF buys THEN B \cup {t} ELSE B
        BY <3>1, Zenon
      <4> HIDE DEF sells, buys
      <4>2. Quantity(S) \in Nat /\ Quantity(SS) = Quantity(S) + (IF sells THEN n ELSE 0)
        <5>1. S \in SUBSET TradeIds /\ IsFiniteSet(S) /\ t \in TradeIds \ S
          BY <2>2, <3>1, Zenon
        <5>2. sells \in BOOLEAN /\ SS = IF sells THEN S \cup {t} ELSE S
          BY <4>1, Zenon
        <5> QED
          BY <5>1, <5>2, SumsGrow, Zenon DEF n
      <4>3. Quantity(B) \in Nat /\ Quantity(BB) = Quantity(B) + (IF buys THEN n ELSE 0)
        <5>1. B \in SUBSET TradeIds /\ IsFiniteSet(B) /\ t \in TradeIds \ B
          BY <2>2, <3>1, Zenon
        <5>2. buys \in BOOLEAN /\ BB = IF buys THEN B \cup {t} ELSE B
          BY <4>1, Zenon
        <5> QED
          BY <5>1, <5>2, SumsGrow, Zenon DEF n
      <4> QED
        BY <4>2, <4>3, Zenon DEF sells, buys
    <3>4. \/ u = buyer /\ u # seller /\ d = c /\ shares'[<<u, d>>] = shares[<<u, d>>] + n
          \/ u = seller /\ u # buyer /\ d = c /\ shares'[<<u, d>>] = shares[<<u, d>>] + (-n)
          \/ ~(u = buyer /\ d = c) /\ ~(u = seller /\ d = c) /\ shares'[<<u, d>>] = shares[<<u, d>>]
      <4>1. CASE u \in {buyer, seller} /\ d = c
        BY <1>4, <1>13, <4>1
      <4>2. CASE ~(u \in {buyer, seller} /\ d = c)
        <5>1. <<u, d>> \in (Users \X Outcomes) \ {<<buyer, c>>, <<seller, c>>}
          BY <4>2
        <5> QED
          BY <1>13, <4>2, <5>1, Zenon
      <4> QED
        BY <4>1, <4>2, Zenon
    <3>5. shares'[<<u, d>>] = Quantity(BB) - Quantity(SS)
      BY <1>4, <3>2, <3>3, <3>4
    <3> QED
      BY <3>5, Zenon DEF BB, SS
  <2>6. transactions' = UNION {TransactionsOf(x) : x \in trades'}
    BY <1>1, <2>1, Zenon
  <2>7. volume' = Amount(trades')
    BY <1>1, <1>3, <1>6, <2>1, OneMoreTrade, Zenon DEF IncrementEventVolume
  <2> QED
    BY <2>3, <2>4, <2>5, <2>6, <2>7, Zenon DEF TablesAgree
<1>17. IsApplied(HeadOf(w))'
  <2>1. EventAt(HeadOf(w))' = EventOf(w)
    BY <1>1, <1>3, <1>6, <1>11, SameWork, Zenon DEF EventOf
  <2> QED
    BY <1>1, <1>3, <2>1, Zenon DEF IsApplied, t
<1>18. ASSUME NEW v \in Workers \ {w}
       PROVE  /\ InTx(v) => EventOf(v).id \notin trades'
              /\ pc[v] = "seller" => balance[TradeAt(v).buyer] <= balance'[TradeAt(v).buyer]
  <2>1. Sound(v) /\ (pc[v] = "seller" => InTx(v))
    BY Zenon DEF IInv, InTx
  <2>2. InTx(v) => EventOf(v).id \notin trades'
    BY <1>1, <1>3, <2>1, Zenon DEF Sound
  <2>3. pc[v] = "seller" => TradeAt(v).buyer \in Users \ {buyer}
    BY <1>5, <2>1, TradeType, Zenon DEF TradeAt, Sound
  <2>4. \A u \in Users \ {buyer} : balance[u] <= balance'[u]
    <3>1. \A u \in Users : balance[u] \in Nat
      BY <1>6, Zenon
    <3>2. \A u \in Users \ {buyer, seller} : balance[u] <= balance'[u]
      BY <1>12, <3>1, NoLess, Zenon
    <3>3. balance[seller] <= balance'[seller]
      BY <1>4, <1>12, <3>1, NoMore, Zenon
    <3> QED
      BY <3>2, <3>3, Zenon
  <2> QED
    BY <2>2, <2>3, <2>4, Zenon
<1> QED
  BY <1>1, <1>3, <1>9, <1>11, <1>12, <1>13, <1>14, <1>15, <1>16, <1>17, <1>18, AppliedStep, Zenon

(***************************************************************************)
(* The engine's side, and the theorems.                                    *)
(***************************************************************************)

\* The stream grows, or the partition changes hands: the entries of every
\* worker stay what they were.
LEMMA StreamStep ==
  ASSUME IInv, UNCHANGED <<scenario, groupVars, workerVars, tables>>,
         emitted' \in 0..Len(script), fencing' \in Nat, fencing' # 0, fencing <= fencing',
         out' \in Seq([n : 1..emitted', token : 1..fencing']), Len(out) <= Len(out'),
         \A i \in 1..Len(out) : out'[i] = out[i],
         faults' \in 0..MaxFaults
  PROVE  IInv'
<1>1. /\ UNCHANGED <<scenario, delivered, pending, pc, queue, status>>
      /\ UNCHANGED <<orders, trades, balance, shares, transactions, volume>>
      /\ UNCHANGED tables /\ script' = script
  BY Zenon DEF groupVars, workerVars, tables, script
<1>2. WellTyped /\ Len(out) \in Nat /\ Len(out') \in Nat /\ delivered \in 0..Len(out)
  BY GroupType, LenType, Zenon DEF IInv
<1>3. delivered' \in 0..Len(out')
  BY <1>1, <1>2, LongerHolds, Zenon
<1>4. WellTyped'
  <2>1. TypeOK'
    BY <1>1, <1>2, <1>3, Zenon DEF WellTyped, TypeOK
  <2> QED
    BY <1>1, <1>2, <2>1, Zenon DEF WellTyped
<1>5. Grows
  <2>1. 1..delivered \subseteq 1..Len(out)
    BY <1>2, Within, Zenon
  <2> QED
    BY <1>1, <2>1, Zenon DEF Grows
<1>6. RowsKept' /\ TablesAgree'
  BY <1>1, SameTables, Zenon DEF IInv
<1>7. ASSUME NEW v \in Workers PROVE Sound(v)'
  <2>1. Sound(v) /\ pc'[v] = pc[v] /\ queue'[v] = queue[v] /\ status'[v] = status[v]
    BY <1>1, Zenon DEF IInv
  <2>2. InTx(v) => EventOf(v).id \in TradeIds /\ EventOf(v).id \notin trades'
    BY <1>1, <2>1, Zenon DEF Sound
  <2>3. pc[v] = "seller" => TradeAt(v).buyer \in Users
    <3>1. pc[v] = "seller" => InTx(v)
      BY DEF InTx
    <3> QED
      BY <2>2, <3>1, TradeType, Zenon DEF TradeAt
  <2>4. \A u \in Users : balance'[u] = balance[u] /\ balance[u] \in Nat /\ balance[u] <= balance[u]
    BY <1>1, <1>2, NoLess, Zenon DEF WellTyped, TypeOK
  <2> QED
    BY <1>2, <1>5, <2>1, <2>2, <2>3, <2>4, SoundStays, Zenon
<1>8. Isolated'
  <2>1. ASSUME NEW u \in Workers, NEW v \in Workers, u # v PROVE Apart(u, v)'
    <3>1. /\ Apart(u, v) /\ pc'[u] = pc[u] /\ pc'[v] = pc[v]
          /\ queue'[u] = queue[u] /\ queue'[v] = queue[v]
      BY <1>1, <2>1, Zenon DEF IInv, Isolated
    <3> QED
      BY <1>2, <1>5, <3>1, ApartStays, Zenon
  <2> QED
    BY <2>1, Zenon DEF Isolated
<1>9. AckedIsApplied'
  <2>1. \A i \in 1..delivered : IsApplied(i) => IsApplied(i)'
    BY <1>2, <1>5, AppliedStays, Zenon
  <2> QED
    BY <1>1, <2>1, Zenon DEF IInv, AckedIsApplied
<1> QED
  BY <1>4, <1>6, <1>7, <1>8, <1>9, Zenon DEF IInv

\* The stream in numbers.
LEMMA StreamType ==
  ASSUME IInv
  PROVE  /\ emitted \in 0..Len(script) /\ emitted \in Nat /\ fencing \in Nat /\ fencing # 0
         /\ out \in Seq([n : 1..emitted, token : 1..fencing])
         /\ Len(script) \in Nat /\ Len(out) \in Nat /\ MaxFaults \in Nat
<1>1. /\ emitted \in 0..Len(script) /\ fencing \in Nat /\ fencing # 0 /\ scenario \in Scenarios
      /\ out \in Seq([n : 1..emitted, token : 1..fencing])
  BY Zenon DEF IInv, WellTyped, TypeOK
<1>2. script \in Seq(Event) /\ MaxFaults \in Nat
  BY <1>1, DBWorkerAssumption, Zenon DEF script
<1>3. Len(script) \in Nat /\ Len(out) \in Nat
  BY <1>1, <1>2, LenType, Zenon
<1>4. emitted \in Nat
  BY <1>1, <1>3, Reaches, InReach, Zenon
<1> QED
  BY <1>1, <1>2, <1>3, <1>4, Zenon

\* The entries of an engine that has emitted m events under f owners.
Entries(m, f) == [n : 1..m, token : 1..f]

LEMMA EntriesGrow == \A m, n, f \in Nat : m <= n => Entries(m, f) \subseteq Entries(n, f)
<1> SUFFICES ASSUME NEW m \in Nat, NEW n \in Nat, NEW f \in Nat, m <= n
             PROVE  Entries(m, f) \subseteq Entries(n, f)
  BY Zenon
<1>1. 1..m \subseteq 1..n
  OBVIOUS
<1> QED
  BY <1>1, Zenon DEF Entries

\* A stream with an entry more.
LEMMA Appended ==
  ASSUME NEW B, NEW s \in Seq(B), NEW e \in B
  PROVE  /\ Append(s, e) \in Seq(B) /\ Len(s) <= Len(Append(s, e))
         /\ \A i \in 1..Len(s) : Append(s, e)[i] = s[i]
  OBVIOUS

\* The engine emits the next event of its script.
LEMMA EmitKeeps ==
  ASSUME IInv, Emit PROVE IInv'
<1> DEFINE e == [n |-> emitted', token |-> fencing]
<1>1. /\ emitted < Len(script) /\ emitted' = emitted + 1 /\ out' = Append(out, e)
      /\ UNCHANGED <<scenario, fencing, groupVars, workerVars, tables, faults>>
  BY Zenon DEF Emit
<1>2. fencing \in Nat /\ fencing # 0
  BY StreamType, Zenon
<1>3. /\ emitted' \in 0..Len(script) /\ emitted' \in Nat \ {0} /\ emitted <= emitted'
  BY <1>1, StreamType
<1>4. e \in Entries(emitted', fencing)
  BY <1>2, <1>3 DEF Entries
<1> HIDE DEF e
<1>5. /\ out' \in Seq(Entries(emitted', fencing)) /\ Len(out) <= Len(out')
      /\ \A i \in 1..Len(out) : out'[i] = out[i]
  <2>1. /\ emitted \in Nat /\ emitted' \in Nat /\ out \in Seq(Entries(emitted, fencing))
    BY <1>3, StreamType, Zenon DEF Entries
  <2>2. Entries(emitted, fencing) \subseteq Entries(emitted', fencing)
    BY <1>2, <1>3, <2>1, EntriesGrow, Zenon
  <2>3. out \in Seq(Entries(emitted', fencing))
    BY <2>1, <2>2
  <2> QED
    BY <1>1, <1>4, <2>3, Appended, Zenon
<1> QED
  BY <1>1, <1>2, <1>3, <1>5, NoLess, GroupType, StreamStep, Zenon DEF Entries

\* Recover emits an event again.
LEMMA EmitAgainKeeps ==
  ASSUME IInv, EmitAgain PROVE IInv'
<1>1. /\ Fault("repeat")
      /\ UNCHANGED <<scenario, emitted, fencing, groupVars, workerVars, tables>>
  BY Zenon DEF EmitAgain
<1>2. PICK e \in Range(out) : out' = Append(out, e)
  BY Zenon DEF EmitAgain
<1>3. out \in Seq(Entries(emitted, fencing))
  BY StreamType, Zenon DEF Entries
<1>4. /\ out' \in Seq(Entries(emitted, fencing)) /\ Len(out) <= Len(out')
      /\ \A i \in 1..Len(out) : out'[i] = out[i]
  <2>1. e \in Entries(emitted, fencing)
    BY <1>2, <1>3 DEF Range
  <2> QED
    BY <1>2, <1>3, <2>1, Appended, Zenon
<1>5. faults' \in 0..MaxFaults
  BY <1>1, FaultCounts, Zenon
<1> QED
  BY <1>1, <1>4, <1>5, StreamType, NoLess, StreamStep, Zenon DEF Entries

\* The partition is taken over, and the fencing counter incremented.
LEMMA NewOwnerKeeps ==
  ASSUME IInv, NewOwner PROVE IInv'
<1>1. /\ Fault("failover") /\ fencing' = fencing + 1
      /\ UNCHANGED <<scenario, emitted, out, groupVars, workerVars, tables>>
  BY Zenon DEF NewOwner
<1>2. fencing' \in Nat /\ fencing' # 0 /\ fencing <= fencing'
  BY <1>1, StreamType
<1>3. out' \in Seq([n : 1..emitted, token : 1..fencing'])
  <2> DEFINE E == [n : 1..emitted, token : 1..fencing]
             F == [n : 1..emitted, token : 1..fencing']
  <2>1. out \in Seq(E)
    BY StreamType, Zenon
  <2>2. 1..fencing \subseteq 1..fencing'
    BY <1>1, StreamType
  <2>3. E \subseteq F
    BY <2>2, Zenon
  <2> HIDE DEF E, F
  <2>4. out' \in Seq(F)
    BY <1>1, <2>1, <2>3
  <2> QED
    BY <2>4, Zenon DEF F
<1>4. faults' \in 0..MaxFaults
  BY <1>1, FaultCounts, Zenon
<1> QED
  BY <1>1, <1>2, <1>3, <1>4, StreamType, NoLess, StreamStep, Zenon

LEMMA InitKeeps == ASSUME Init PROVE IInv
<1>1. /\ scenario \in Scenarios /\ emitted = 0 /\ fencing = 1 /\ out = <<>>
      /\ delivered = 0 /\ pending = {} /\ pc = [w \in Workers |-> "stopped"]
      /\ queue = [w \in Workers |-> {}] /\ status = [w \in Workers |-> Unread]
      /\ orders = [o \in OrderIds |-> NoRow] /\ trades = {} /\ balance = Balance0
      /\ shares = [k \in Users \X Outcomes |-> 0] /\ transactions = {} /\ volume = 0
      /\ faults = 0
  BY Zenon DEF Init
<1>2. /\ script \in Seq(Event) /\ MaxFaults \in Nat /\ Balance0 \in [Users -> Nat]
  BY <1>1, DBWorkerAssumption, Zenon DEF script
<1>3. /\ 0 \in 0..Len(script) /\ 0 \in 0..MaxFaults /\ 0 \in 0..Len(<<>>)
  <2>1. Len(script) \in Nat
    BY <1>2, LenType, Zenon
  <2> QED
    BY <1>2, <2>1
<1>4. "stopped" \in Idle /\ "stopped" \in Labels
  BY DEF Idle, Labels
<1>5. WellTyped
  <2>1. out \in Seq([n : 1..emitted, token : 1..fencing])
    BY <1>1
  <2>2. /\ pc \in [Workers -> Labels] /\ queue \in [Workers -> SUBSET (1..delivered)]
        /\ \A w \in Workers : queue[w] = {} <=> pc[w] \in Idle
    BY <1>1, <1>4, Zenon
  <2>3. /\ orders \in [OrderIds -> Row \cup {NoRow}] /\ trades \subseteq TradeIds
        /\ balance \in [Users -> Nat] /\ pending \subseteq 1..delivered
    BY <1>1, <1>2, Zenon
  <2>4. shares \in [Users \X Outcomes -> Int]
    BY <1>1
  <2>5. TypeOK
    BY <1>1, <1>3, <2>1, <2>2, <2>3, <2>4, Zenon DEF TypeOK
  <2>6. Unread \in [taker : Computed \cup {""}, maker : Computed \cup {""}]
    BY DEF Unread
  <2>7. status \in [Workers -> [taker : Computed \cup {""}, maker : Computed \cup {""}]]
    BY <1>1, <2>6, Zenon
  <2>8. fencing \in Nat /\ fencing # 0
    BY <1>1
  <2>9. IsFiniteSet(trades)
    BY <1>1, FS_EmptySet, Zenon
  <2> QED
    BY <2>5, <2>7, <2>8, <2>9, Zenon DEF WellTyped
<1>6. RowsKept
  BY <1>1, Zenon DEF RowsKept
<1>7. \A w \in Workers : Sound(w) /\ ~InTx(w) /\ pc[w] # "seller"
  <2>1. \A w \in Workers : pc[w] = "stopped"
    BY <1>1, Zenon
  <2> QED
    BY <2>1 DEF Sound, InTx
<1>8. Isolated
  BY <1>7, Zenon DEF Isolated, Apart
<1>9. TablesAgree
  <2>1. \A o, u, c : /\ FillsOf(o) = {} /\ SoldBy(u) = {} /\ BoughtBy(u) = {}
                     /\ Of(c, BoughtBy(u)) = {} /\ Of(c, SoldBy(u)) = {}
    BY <1>1, Zenon DEF FillsOf, SoldBy, BoughtBy, Of
  <2>2. \A o \in OrderIds : orders[o] = NoRow
    BY <1>1, Zenon
  <2>3. \A u \in Users : balance[u] = Balance0[u] + 0 - 0
    BY <1>1, <1>2
  <2>4. \A u \in Users, c \in Outcomes : shares[<<u, c>>] = 0 - 0
    BY <1>1
  <2>5. transactions = UNION {TransactionsOf(t) : t \in trades}
    BY <1>1, Zenon
  <2> QED
    BY <1>1, <2>1, <2>2, <2>3, <2>4, <2>5, NothingSold, Zenon DEF TablesAgree
<1>10. AckedIsApplied
  <2>1. 1..delivered = {}
    BY <1>1
  <2> QED
    BY <2>1, Zenon DEF AckedIsApplied
<1> QED
  BY <1>5, <1>6, <1>7, <1>8, <1>9, <1>10, Zenon DEF IInv

\* Every step keeps the invariant.
LEMMA NextKeeps == ASSUME IInv, [Next]_vars PROVE IInv'
<1>1. CASE Emit
  BY <1>1, EmitKeeps, Zenon
<1>2. CASE EmitAgain
  BY <1>2, EmitAgainKeeps, Zenon
<1>3. CASE NewOwner
  BY <1>3, NewOwnerKeeps, Zenon
<1>4. ASSUME NEW w \in Workers, Start(w) PROVE IInv'
  BY <1>4, StartKeeps, Zenon
<1>5. ASSUME NEW w \in Workers, Run(w) PROVE IInv'
  <2>1. CASE Claim(w)
    BY <2>1, ClaimKeeps, Zenon
  <2>2. CASE ReadGroup(w)
    BY <2>2, ReadGroupKeeps, Zenon
  <2>3. CASE Ack(w)
    BY <2>3, AckKeeps, Zenon
  <2>4. CASE FencingDecision(w)
    BY <2>4, FencingDecisionKeeps, Zenon
  <2>5. CASE HandleOrderCreated(w)
    BY <2>5, HandleOrderCreatedKeeps, Zenon
  <2>6. CASE HandleOrderCanceled(w)
    BY <2>6, HandleOrderCanceledKeeps, Zenon
  <2>7. CASE InsertTrade(w)
    BY <2>7, InsertTradeKeeps, Zenon
  <2>8. CASE UpdateTaker(w)
    BY <2>8, UpdateTakerKeeps, Zenon
  <2>9. CASE UpdateMaker(w)
    BY <2>9, UpdateMakerKeeps, Zenon
  <2>10. CASE DeductBalance(w)
    BY <2>10, DeductBalanceKeeps, Zenon
  <2>11. CASE Commit(w)
    BY <2>11, CommitKeeps, Zenon
  <2>12. CASE Refuse(w) \/ DeadlockAbort(w)
    BY <2>12, StopsKeep, Zenon
  <2> QED
    BY <1>5, <2>1, <2>2, <2>3, <2>4, <2>5, <2>6, <2>7, <2>8, <2>9, <2>10, <2>11, <2>12, Zenon
       DEF Run
<1>6. ASSUME NEW w \in Workers, ReadFails(w) PROVE IInv'
  BY <1>6, ReadFailsKeeps, Zenon
<1>7. ASSUME NEW w \in Workers, Fail(w) PROVE IInv'
  BY <1>7, StopsKeep, Zenon
<1>8. CASE UNCHANGED vars
  <2>1. /\ UNCHANGED <<scenario, groupVars, workerVars, tables>>
        /\ UNCHANGED <<emitted, fencing, out, faults>>
    BY <1>8, Zenon DEF vars, streamVars
  <2> QED
    BY <2>1, StreamType, GroupType, NoLess, StreamStep, Zenon
<1> QED
  BY <1>1, <1>2, <1>3, <1>4, <1>5, <1>6, <1>7, <1>8, Zenon DEF Next

\* IInv holds in every state of the worker.
THEOREM WorkerConsistent == Spec => []IInv
<1>1. Init => IInv
  BY InitKeeps, Zenon
<1>2. IInv /\ [Next]_vars => IInv'
  BY NextKeeps, Zenon
<1> QED
  BY <1>1, <1>2, PTL DEF Spec

\* The tables keep their types: no balance becomes negative (DeductBalance's
\* "balance >= $2"), however many replicas settle at once.
THEOREM TypeCorrect == Spec => []TypeOK
<1>1. IInv => TypeOK
  BY Zenon DEF IInv, WellTyped
<1> QED
  BY <1>1, WorkerConsistent, PTL

\* settleTrade is "all or nothing", and exactly once: the fills, balances,
\* positions, transactions and volume are the sums over the settled trades,
\* for any number of replicas, redeliveries, failures and failovers.
THEOREM TradesSettledOnce == Spec => []TablesAgree
<1>1. IInv => TablesAgree
  BY Zenon DEF IInv
<1> QED
  BY <1>1, WorkerConsistent, PTL

\* Run acknowledges "only after the event has been durably applied": an
\* entry that is no longer pending has its row, or was fenced off.
THEOREM AckedAfterApplied == Spec => []AckedIsApplied
<1>1. IInv => AckedIsApplied
  BY Zenon DEF IInv
<1> QED
  BY <1>1, WorkerConsistent, PTL

(***************************************************************************)
(* A single writer keeps a replica of the engine's orders.                 *)
(*                                                                         *)
(* Its entries are in the order of the engine's events, repetitions aside; *)
(* it takes them in that order, and leaves none behind.  So an order that  *)
(* is canceled in the table has all of its trades in the table.            *)
(***************************************************************************)

Alone(w) == scenario.workers = {w} /\ scenario.faults \cap {"skip", "failover"} = {}

\* An event comes first after those before it.
InOrder ==
    /\ \A i \in 1..Len(out) : \A q \in 1..out[i].n : \E l \in 1..i : out[l].n = q
    /\ \A q \in 1..emitted : \E l \in 1..Len(out) : out[l].n = q

\* A settled trade is one of the engine's.
AllTold ==
    \A t \in trades : \E n \in 1..Len(script) :
      script[n].type = "TRADE_EXECUTED" /\ script[n].id = t

\* The entries up to the one that is being processed.
Reached(i) == i \in 1..delivered /\ \A l \in pending : i <= l

LoneWriter(w) ==
    /\ fencing = 1
    /\ \A v \in Workers \ {w} : pc[v] = "stopped"
    /\ pc[w] \notin {"stopped", "claim"} => queue[w] = pending
    /\ \A i \in (1..delivered) \ pending : Reached(i)

\* The statuses that a transaction has computed are those of its commit.
StatusesTrue(w) ==
    /\ InTx(w) => status[w].taker = StatusAfter(TradeAt(w).taker, TradeAt(w).quantity)
    /\ InTx(w) /\ pc[w] # "taker" =>
         status[w].maker = StatusAfter(TradeAt(w).maker, TradeAt(w).quantity)

CancelReached(o) ==
    \E i \in 1..delivered :
      Reached(i) /\ EventAt(i).type = "ORDER_CANCELED" /\ EventAt(i).id = o

LifeTrue(o) ==
    /\ orders[o].status = "FILLED" => OrderOf[o].quantity <= orders[o].filled
    /\ orders[o].status = "CANCELED" => CancelReached(o)

LivesTrue == \A o \in OrderIds : orders[o] # NoRow => LifeTrue(o)

Lone(w) == LoneWriter(w) /\ StatusesTrue(w) /\ LivesTrue

RInv == IInv /\ InOrder /\ AllTold /\ \A w \in Workers : Alone(w) => Lone(w)

\* A fact of arithmetic.
LEMMA LastEntry == \A n \in Nat : \A i \in 1..(n + 1) : i \in 1..n \/ i = n + 1
  OBVIOUS

\* The engine's script.
LEMMA ScriptType ==
  ASSUME IInv
  PROVE  /\ script \in Seq(Event) /\ DOMAIN script = 1..Len(script) /\ WellTold(script)
         /\ \A i \in 1..Len(out) : out[i].n \in 1..Len(script) /\ out[i].n \in 1..emitted
<1>1. scenario \in Scenarios
  BY Zenon DEF IInv, WellTyped, TypeOK
<1>2. script \in Seq(Event) /\ WellTold(script)
  BY <1>1, DBWorkerAssumption, EngineAssumption, Zenon DEF script
<1>3. DOMAIN script = 1..Len(script)
  BY <1>2
<1>4. ASSUME NEW i \in 1..Len(out) PROVE out[i].n \in 1..Len(script) /\ out[i].n \in 1..emitted
  <2>1. out \in Seq(Entries(emitted, fencing))
    BY StreamType, Zenon DEF Entries
  <2>2. out[i] \in Entries(emitted, fencing)
    BY <2>1
  <2>3. out[i].n \in 1..emitted
    BY <2>2, Zenon DEF Entries
  <2>4. emitted \in 0..Len(script) /\ Len(script) \in Nat
    BY StreamType, Zenon
  <2> QED
    BY <2>3, <2>4
<1> QED
  BY <1>2, <1>3, <1>4, Zenon

\* The order of the stream survives one more entry.
LEMMA OrderGrows ==
  ASSUME InOrder, NEW B, out \in Seq(B), NEW e \in B, out' = Append(out, e),
         \A q \in 1..e.n : q = e.n \/ \E l \in 1..Len(out) : out[l].n = q,
         \A q \in 1..emitted' : q \in 1..emitted \/ q = e.n
  PROVE  InOrder'
<1>1. /\ Len(out) \in Nat /\ Len(out') = Len(out) + 1 /\ out'[Len(out) + 1] = e
      /\ \A i \in 1..Len(out) : out'[i] = out[i]
  OBVIOUS
<1>2. /\ \A i \in 1..Len(out) : i \in 1..(Len(out) + 1) /\ 1..i \subseteq 1..Len(out)
      /\ Len(out) + 1 \in 1..(Len(out) + 1)
  BY <1>1
<1>3. ASSUME NEW i \in 1..Len(out'), NEW q \in 1..out'[i].n
      PROVE  \E l \in 1..i : out'[l].n = q
  <2>1. CASE i \in 1..Len(out)
    <3>1. PICK l \in 1..i : out[l].n = q
      BY <1>1, <2>1, Zenon DEF InOrder
    <3> QED
      BY <1>1, <1>2, <2>1, <3>1, Zenon
  <2>2. CASE i = Len(out) + 1
    <3>1. out'[i] = e
      BY <1>1, <2>2, Zenon
    <3>2. CASE q = e.n
      BY <1>2, <2>2, <3>1, <3>2, Zenon
    <3>3. CASE \E l \in 1..Len(out) : out[l].n = q
      BY <1>1, <1>2, <2>2, <3>3, Zenon
    <3> QED
      BY <3>1, <3>2, <3>3, Zenon
  <2> QED
    BY <1>1, <2>1, <2>2, LastEntry, Zenon
<1>4. ASSUME NEW q \in 1..emitted' PROVE \E l \in 1..Len(out') : out'[l].n = q
  <2>1. CASE q \in 1..emitted
    <3>1. PICK l \in 1..Len(out) : out[l].n = q
      BY <2>1, Zenon DEF InOrder
    <3> QED
      BY <1>1, <1>2, <3>1, Zenon
  <2>2. CASE q = e.n
    BY <1>1, <1>2, <2>2, Zenon
  <2> QED
    BY <2>1, <2>2, Zenon
<1> QED
  BY <1>3, <1>4, Zenon DEF InOrder

\* emitEventP emits the events in order; Recover repeats old ones.
LEMMA OrderKept ==
  ASSUME IInv, InOrder, Emit \/ EmitAgain PROVE InOrder'
<1>1. CASE Emit
  <2> DEFINE e == [n |-> emitted', token |-> fencing]
  <2>1. emitted' = emitted + 1 /\ out' = Append(out, e)
    BY <1>1, Zenon DEF Emit
  <2>2. emitted \in Nat /\ fencing \in Nat /\ fencing # 0
    BY StreamType, Zenon
  <2>3. e \in Entries(emitted', fencing) /\ e.n = emitted + 1
    BY <2>1, <2>2 DEF Entries
  <2> HIDE DEF e
  <2>4. out \in Seq(Entries(emitted', fencing))
    <3>1. emitted' \in Nat /\ emitted <= emitted'
      BY <2>1, <2>2
    <3>2. Entries(emitted, fencing) \subseteq Entries(emitted', fencing)
      BY <2>2, <3>1, EntriesGrow, Zenon
    <3>3. out \in Seq(Entries(emitted, fencing))
      BY StreamType, Zenon DEF Entries
    <3> QED
      BY <3>2, <3>3
  <2>5. \A q \in 1..e.n : q = e.n \/ \E l \in 1..Len(out) : out[l].n = q
    BY <2>2, <2>3, LastEntry, Zenon DEF InOrder
  <2>6. \A q \in 1..emitted' : q \in 1..emitted \/ q = e.n
    BY <2>1, <2>2, <2>3, LastEntry, Zenon
  <2> QED
    BY <2>1, <2>3, <2>4, <2>5, <2>6, OrderGrows, Zenon
<1>2. CASE EmitAgain
  <2>1. PICK e \in Range(out) : out' = Append(out, e)
    BY <1>2, Zenon DEF EmitAgain
  <2>2. emitted' = emitted
    BY <1>2, Zenon DEF EmitAgain
  <2>3. out \in Seq(Entries(emitted, fencing)) /\ Len(out) \in Nat
    BY StreamType, Zenon DEF Entries
  <2>4. PICK k \in 1..Len(out) : e = out[k]
    BY <2>1, <2>3 DEF Range
  <2>5. e \in Entries(emitted, fencing) /\ 1..k \subseteq 1..Len(out)
    BY <2>3, <2>4
  <2>6. \A q \in 1..e.n : \E l \in 1..Len(out) : out[l].n = q
    BY <2>4, <2>5, Zenon DEF InOrder
  <2> QED
    BY <2>1, <2>2, <2>3, <2>5, <2>6, OrderGrows, Zenon
<1> QED
  BY <1>1, <1>2, Zenon

\* The number of an order's trades in the script is finite.
LEMMA ToldFinite ==
  ASSUME IInv, NEW o
  PROVE  IsFiniteSet(Told(script, o)) /\ Told(script, o) \in SUBSET TradeIds
<1> DEFINE J == {j \in DOMAIN script : Executes(script[j], o)}
           f == [j \in J |-> script[j].id]
<1>1. /\ script \in Seq(Event) /\ DOMAIN script = 1..Len(script) /\ Len(script) \in Nat
  BY ScriptType, StreamType, Zenon
<1>2. IsFiniteSet(J)
  <2>1. J \in SUBSET (1..Len(script)) /\ IsFiniteSet(1..Len(script))
    BY <1>1, IntervalCount, Zenon
  <2> QED
    BY <2>1, FS_Subset, Zenon
<1>3. f \in Surjection(J, Told(script, o))
  BY Zenon DEF Surjection, Told
<1>4. ASSUME NEW j \in J PROVE script[j].id \in TradeIds
  <2>1. script[j] \in Event
    BY <1>1
  <2>2. script[j].type = "TRADE_EXECUTED"
    BY Zenon DEF Executes
  <2> QED
    BY <2>1, <2>2 DEF Event
<1>5. Told(script, o) \in SUBSET TradeIds
  BY <1>4, Zenon DEF Told
<1> HIDE DEF J, f
<1> QED
  BY <1>2, <1>3, <1>5, FS_Surjection, Zenon

\* More trades are no less.
LEMMA QuantityGrows ==
  ASSUME NEW T \in SUBSET TradeIds, IsFiniteSet(T), NEW S \in SUBSET T
  PROVE  Quantity(S) \in Nat /\ Quantity(T) \in Nat /\ Quantity(S) <= Quantity(T)
<1> DEFINE f == [x \in TradeIds |-> TradeOf[x].quantity]
<1>1. \A x \in TradeIds : f[x] \in Nat
  BY TradeType, Zenon
<1>2. Quantity(S) = Total(f, S) /\ Quantity(T) = Total(f, T)
  BY Zenon DEF Quantity
<1> HIDE DEF f
<1>3. IsFiniteSet(S)
  BY FS_Subset, Zenon
<1>4. IsFiniteSet(Units(f, T)) /\ Total(f, T) \in Nat /\ Total(f, S) \in Nat
  BY <1>1, <1>3, UnitsFinite, Zenon
<1>5. Units(f, S) \in SUBSET Units(f, T)
  BY Zenon DEF Units
<1>6. Total(f, S) <= Total(f, T)
  BY <1>4, <1>5, FS_Subset, Zenon DEF Total
<1> QED
  BY <1>2, <1>4, <1>6, Zenon
\* What has been reached stays so, and says the same.
LEMMA ReachedStays ==
  ASSUME WellTyped, scenario' = scenario, \A i \in 1..delivered : out'[i] = out[i],
         NEW i, Reached(i), delivered' \in Nat, delivered <= delivered',
         \A l \in pending' : l \in pending \/ (delivered < l /\ l \in Nat)
  PROVE  Reached(i)' /\ EventAt(i)' = EventAt(i)
<1>1. delivered \in Nat /\ i \in 1..delivered
  <2>1. delivered \in 0..Len(out) /\ out \in Seq([n : 1..emitted, token : 1..fencing])
    BY Zenon DEF WellTyped, TypeOK
  <2>2. Len(out) \in Nat
    BY <2>1, LenType, Zenon
  <2>3. delivered \in Nat
    BY <2>1, <2>2
  <2> QED
    BY <2>3, Zenon DEF Reached
<1>2. i \in 1..delivered'
  BY <1>1
<1>3. \A l \in pending' : i <= l
  <2>1. \A l \in Nat : delivered < l => i <= l
    BY <1>1
  <2> QED
    BY <2>1, Zenon DEF Reached
<1>4. EventAt(i)' = EventAt(i)
  BY <1>1, Zenon DEF EventAt, script
<1> QED
  BY <1>2, <1>3, <1>4, Zenon DEF Reached

\* A step of the engine, or of the only worker, keeps what that worker
\* relies on when it leaves the orders alone or writes them truly.
LEMMA LoneStays ==
  ASSUME WellTyped, scenario' = scenario, \A i \in 1..delivered : out'[i] = out[i],
         NEW w \in Workers, Lone(w),
         delivered' \in Nat, delivered <= delivered',
         \A l \in pending' : l \in pending \/ (delivered < l /\ l \in Nat),
         fencing' = fencing,
         \A v \in Workers \ {w} : pc'[v] = pc[v],
         pc'[w] \notin {"stopped", "claim"} => queue'[w] = pending',
         \A i \in (1..delivered') \ pending' : i \in (1..delivered) \ pending \/ Reached(i)',
         StatusesTrue(w)',
         \A o \in OrderIds : orders'[o] = orders[o] \/ LifeTrue(o)'
  PROVE  Lone(w)'
<1>1. \A i : Reached(i) => Reached(i)' /\ EventAt(i)' = EventAt(i)
  BY ReachedStays, Zenon
<1>2. LoneWriter(w)'
  BY <1>1, Zenon DEF Lone, LoneWriter
<1>3. ASSUME NEW o \in OrderIds, orders'[o] # NoRow PROVE LifeTrue(o)'
  <2>1. CASE orders'[o] = orders[o]
    <3>1. LifeTrue(o)
      BY <1>3, <2>1, Zenon DEF Lone, LivesTrue
    <3>2. CancelReached(o) => CancelReached(o)'
      <4> SUFFICES ASSUME CancelReached(o) PROVE CancelReached(o)'
        BY Zenon
      <4>1. PICK i \in 1..delivered :
              Reached(i) /\ EventAt(i).type = "ORDER_CANCELED" /\ EventAt(i).id = o
        BY Zenon DEF CancelReached
      <4>2. Reached(i)' /\ EventAt(i)' = EventAt(i)
        BY <1>1, <4>1, Zenon
      <4>3. i \in 1..delivered'
        BY <4>2, Zenon DEF Reached
      <4> QED
        BY <4>1, <4>2, <4>3, Zenon DEF CancelReached
    <3> QED
      BY <2>1, <3>1, <3>2, Zenon DEF LifeTrue
  <2> QED
    BY <2>1, Zenon
<1> QED
  BY <1>2, <1>3, Zenon DEF Lone, LivesTrue

\* The engine appends to the stream.
LEMMA LoneStream ==
  ASSUME IInv, IInv', NEW w \in Workers, Lone(w),
         UNCHANGED <<scenario, fencing, groupVars, workerVars, tables>>,
         \A i \in 1..Len(out) : out'[i] = out[i]
  PROVE  Lone(w)'
<1>1. /\ UNCHANGED <<delivered, pending, pc, queue, status, orders, trades>>
      /\ UNCHANGED <<scenario, fencing>>
  BY Zenon DEF groupVars, workerVars, tables
<1>2. WellTyped /\ fencing \in Nat /\ delivered \in 0..Len(out) /\ Len(out) \in Nat
  BY GroupType, StreamType, Zenon DEF IInv
<1>3. delivered \in Nat /\ delivered <= delivered /\ fencing <= fencing
      /\ 1..delivered \subseteq 1..Len(out)
  BY <1>2
<1>4. Grows
  BY <1>1, <1>2, <1>3, Zenon DEF Grows
<1>5. StatusesTrue(w)'
  <2>1. CASE InTx(w)
    <3>1. pc[w] \notin Idle
      BY <2>1, TxKnows, Zenon
    <3>2. TradeAt(w)' = TradeAt(w)
      BY <1>1, <1>2, <1>4, <3>1, SameWork, Zenon
    <3> QED
      BY <1>1, <3>2, Zenon DEF Lone, StatusesTrue, StatusAfter, InTx
  <2>2. CASE ~InTx(w)
    BY <1>1, <2>2, Zenon DEF StatusesTrue, InTx
  <2> QED
    BY <2>1, <2>2, Zenon
<1>6. pc'[w] \notin {"stopped", "claim"} => queue'[w] = pending'
  BY <1>1, Zenon DEF Lone, LoneWriter
<1>7. /\ \A v \in Workers \ {w} : pc'[v] = pc[v]
      /\ \A l \in pending' : l \in pending
      /\ \A i \in (1..delivered') \ pending' : i \in (1..delivered) \ pending
      /\ \A o \in OrderIds : orders'[o] = orders[o]
      /\ \A i \in 1..delivered : out'[i] = out[i]
      /\ delivered' \in Nat /\ delivered <= delivered' /\ fencing' = fencing
  BY <1>1, <1>3, Zenon
<1> QED
  BY <1>1, <1>2, <1>5, <1>6, <1>7, LoneStays, Zenon

\* A step of the worker that leaves the tables alone.
LEMMA LoneStep ==
  ASSUME IInv, NEW w \in Workers, Lone(w), UNCHANGED <<streamVars, tables>>,
         NEW l, pc' = [pc EXCEPT ![w] = l],
         delivered' \in delivered..Len(out),
         \A k \in pending' : k \in pending \/ k \in (delivered + 1)..delivered',
         l \notin {"stopped", "claim"} => queue'[w] = pending',
         \A i \in (1..delivered') \ pending' : i \in (1..delivered) \ pending \/ Reached(i)',
         l \in {"taker", "maker", "buyer", "seller"} => StatusesTrue(w)'
  PROVE  Lone(w)'
<1>1. UNCHANGED <<scenario, emitted, fencing, out, orders, trades>>
  BY Zenon DEF streamVars, tables
<1>2. WellTyped /\ fencing \in Nat /\ delivered \in 0..Len(out) /\ Len(out) \in Nat
  BY GroupType, StreamType, Zenon DEF IInv
<1>3. /\ delivered' \in Nat /\ delivered <= delivered'
      /\ \A k \in (delivered + 1)..delivered' : delivered < k /\ k \in Nat
  BY <1>2
<1>4. \A i \in 1..delivered : out'[i] = out[i]
  BY <1>1, Zenon
<1>5. pc'[w] = l /\ \A v \in Workers \ {w} : pc'[v] = pc[v]
  BY <1>2, Zenon DEF WellTyped, TypeOK
<1>6. StatusesTrue(w)'
  BY <1>5, Zenon DEF StatusesTrue, InTx
<1>7. /\ \A k \in pending' : k \in pending \/ (delivered < k /\ k \in Nat)
      /\ pc'[w] \notin {"stopped", "claim"} => queue'[w] = pending'
      /\ \A o \in OrderIds : orders'[o] = orders[o]
      /\ fencing' = fencing
  BY <1>1, <1>3, <1>5, Zenon
<1> QED
  BY <1>1, <1>2, <1>3, <1>4, <1>5, <1>6, <1>7, LoneStays, Zenon

\* A step within an entry: the group stays where it is.
LEMMA LoneWork ==
  ASSUME IInv, NEW w \in Workers, Lone(w), pc[w] \notin Idle,
         UNCHANGED <<streamVars, groupVars, queue, tables>>,
         NEW l, pc' = [pc EXCEPT ![w] = l],
         l \in {"taker", "maker", "buyer", "seller"} =>
           /\ status'[w].taker = StatusAfter(TradeAt(w).taker, TradeAt(w).quantity)
           /\ \/ l = "taker"
              \/ status'[w].maker = StatusAfter(TradeAt(w).maker, TradeAt(w).quantity)
  PROVE  Lone(w)'
<1>1. /\ UNCHANGED <<scenario, emitted, fencing, out, delivered, pending, queue, orders, trades>>
      /\ UNCHANGED <<streamVars, tables>>
  BY Zenon DEF streamVars, groupVars, tables
<1>2. delivered \in delivered..Len(out)
  BY GroupType, Zenon
<1>3. queue'[w] = pending'
  <2>1. pc[w] \notin {"stopped", "claim"}
    BY DEF Idle
  <2> QED
    BY <1>1, <2>1, Zenon DEF Lone, LoneWriter
<1>4. TradeAt(w)' = TradeAt(w)
  BY <1>1, Zenon DEF TradeAt, EventOf, EventAt, HeadOf, script
<1>5. pc'[w] = l
  BY Zenon DEF IInv, WellTyped, TypeOK
<1>6. l \in {"taker", "maker", "buyer", "seller"} => StatusesTrue(w)'
  BY <1>1, <1>4, <1>5, Zenon DEF StatusesTrue, StatusAfter
<1> QED
  BY <1>1, <1>2, <1>3, <1>6, LoneStep, Zenon

\* A worker processes the first of the pending entries.
LEMMA LoneHead ==
  ASSUME IInv, NEW w \in Workers, Lone(w), pc[w] \notin Idle
  PROVE  /\ queue[w] = pending /\ HeadOf(w) \in pending /\ Reached(HeadOf(w))
         /\ HeadOf(w) \in 1..delivered /\ EventOf(w) = EventAt(HeadOf(w))
<1>1. pc[w] \notin {"stopped", "claim"}
  BY DEF Idle
<1>2. queue[w] = pending
  BY <1>1, Zenon DEF Lone, LoneWriter
<1>3. HeadOf(w) \in queue[w] /\ HeadOf(w) \in 1..delivered
  BY HeadType, Zenon DEF IInv
<1>4. queue[w] \in SUBSET Nat /\ queue[w] # {}
  <2>1. queue[w] \in SUBSET (1..delivered)
    BY Zenon DEF IInv, WellTyped, TypeOK
  <2> QED
    BY <1>3, <2>1
<1>5. \A l \in queue[w] : HeadOf(w) <= l
  BY <1>4, LeastElement, Zenon DEF HeadOf
<1> QED
  BY <1>2, <1>3, <1>5, Zenon DEF Reached, EventOf

\* Restarted late enough, it claims whatever it has left behind.
LEMMA LoneClaims ==
  ASSUME IInv, NEW w \in Workers, Alone(w), Lone(w), Start(w) \/ Claim(w) PROVE Lone(w)'
<1>1. CASE Start(w)
  <2>1. /\ UNCHANGED <<streamVars, tables>> /\ UNCHANGED <<delivered, pending>>
        /\ pc' = [pc EXCEPT ![w] = "claim"]
    BY <1>1, Zenon DEF Start, Goto, groupVars
  <2>2. "claim" \notin {"taker", "maker", "buyer", "seller"}
    OBVIOUS
  <2> QED
    BY <2>1, <2>2, GroupType, LoneStep, Zenon
<1>2. CASE Claim(w)
  <2>1. PICK S \in Claimable : ClaimEntries(w, S)
    BY <1>2, Zenon DEF Claim
  <2>2. S = pending
    <3>1. "skip" \notin scenario.faults
      BY Zenon DEF Alone
    <3>2. Cardinality(scenario.workers) = 1
      BY FS_Singleton, Zenon DEF Alone
    <3>3. ~(Cardinality(scenario.workers) > 1)
      BY <3>2
    <3> QED
      BY <2>1, <3>1, <3>3, Zenon DEF Claimable
  <2> DEFINE l == IF S = {} THEN "read" ELSE "fence"
  <2>3. /\ UNCHANGED <<streamVars, tables>> /\ UNCHANGED <<delivered, pending>>
        /\ pc' = [pc EXCEPT ![w] = l] /\ queue' = [queue EXCEPT ![w] = S]
    BY <2>1, Zenon DEF ClaimEntries, Goto, groupVars
  <2>4. l \notin {"taker", "maker", "buyer", "seller"}
    OBVIOUS
  <2>5. queue'[w] = pending'
    BY <2>2, <2>3, Zenon DEF IInv, WellTyped, TypeOK
  <2> HIDE DEF l
  <2> QED
    BY <2>3, <2>4, <2>5, GroupType, LoneStep, Zenon
<1> QED
  BY <1>1, <1>2, Zenon

\* It reads on when nothing is pending.
LEMMA LoneReads ==
  ASSUME IInv, NEW w \in Workers, Lone(w), ReadGroup(w) PROVE Lone(w)'
<1>1. /\ UNCHANGED <<streamVars, tables>> /\ Deliver(w) /\ pc[w] = "read"
      /\ pc' = [pc EXCEPT ![w] = "fence"] /\ queue' = [queue EXCEPT ![w] = NewEntries]
      /\ delivered' = LastRead /\ pending' = pending \cup NewEntries
  BY Zenon DEF ReadGroup, Goto, Deliver
<1>2. pc[w] \in Idle /\ pc[w] \notin {"stopped", "claim"}
      /\ "fence" \notin {"taker", "maker", "buyer", "seller"}
  BY <1>1 DEF Idle
<1>3. pending = {}
  BY <1>2, Zenon DEF Lone, LoneWriter, IInv, WellTyped, TypeOK
<1>4. queue'[w] = pending' /\ \A k \in pending' : k \in (delivered + 1)..delivered'
  BY <1>1, <1>3, Zenon DEF IInv, WellTyped, TypeOK, NewEntries
<1>5. /\ delivered' \in delivered..Len(out)
      /\ \A i \in (1..delivered') \ pending' : i \in (1..delivered) \ pending
  BY <1>1, DeliverReaches, Zenon
<1> QED
  BY <1>1, <1>2, <1>4, <1>5, LoneStep, Zenon

\* It acknowledges the first of the pending entries.
LEMMA LoneAcks ==
  ASSUME IInv, NEW w \in Workers, Lone(w), Ack(w) PROVE Lone(w)'
<1> DEFINE h == HeadOf(w)
           l == IF queue'[w] = {} THEN "read" ELSE "fence"
<1>1. /\ UNCHANGED <<streamVars, tables>> /\ UNCHANGED delivered
      /\ pc[w] = "ack" /\ pending' = pending \ {h}
      /\ queue' = [queue EXCEPT ![w] = queue[w] \ {h}] /\ pc' = [pc EXCEPT ![w] = l]
  BY Zenon DEF Ack, Goto
<1>2. pc[w] \notin Idle /\ l \notin {"taker", "maker", "buyer", "seller"}
  BY <1>1 DEF Idle
<1>3. queue[w] = pending /\ Reached(h)
  BY <1>2, LoneHead, Zenon
<1> HIDE DEF h, l
<1>4. queue'[w] = pending'
  BY <1>1, <1>3, Zenon DEF IInv, WellTyped, TypeOK
<1>5. \A k \in pending' : h <= k
  BY <1>1, <1>3, Zenon DEF Reached
<1>6. \A i \in (1..delivered') \ pending' : i \in (1..delivered) \ pending \/ Reached(i)'
  BY <1>1, <1>5, Zenon DEF Reached
<1>7. delivered' \in delivered..Len(out) /\ \A k \in pending' : k \in pending
  BY <1>1, GroupType, Zenon
<1> QED
  BY <1>1, <1>2, <1>4, <1>6, <1>7, LoneStep, Zenon

\* It stops.
LEMMA LoneStops ==
  ASSUME IInv, NEW w \in Workers, Lone(w), Fail(w) \/ Refuse(w) \/ DeadlockAbort(w)
  PROVE  Lone(w)'
<1>1. /\ UNCHANGED <<streamVars, tables>> /\ UNCHANGED <<delivered, pending>>
      /\ pc' = [pc EXCEPT ![w] = "stopped"]
  BY Zenon DEF Fail, Refuse, DeadlockAbort, Stop, Goto, groupVars
<1>2. "stopped" \notin {"taker", "maker", "buyer", "seller"}
  OBVIOUS
<1> QED
  BY <1>1, <1>2, GroupType, LoneStep, Zenon

\* What it computes in a transaction, nobody changes before it commits.
LEMMA LoneWorks ==
  ASSUME IInv, NEW w \in Workers, Lone(w),
         \/ FencingDecision(w) \/ InsertTrade(w)
         \/ UpdateTaker(w) \/ UpdateMaker(w) \/ DeductBalance(w)
  PROVE  Lone(w)'
<1> DEFINE takerStatus == StatusAfter(TradeAt(w).taker, TradeAt(w).quantity)
           makerStatus == StatusAfter(TradeAt(w).maker, TradeAt(w).quantity)
<1>1. UNCHANGED <<streamVars, groupVars, queue, tables>>
  BY Zenon DEF FencingDecision, InsertTrade, UpdateTaker, UpdateMaker, DeductBalance
<1>2. pc[w] \in {"fence", "apply", "taker", "maker", "buyer"}
  BY Zenon DEF FencingDecision, InsertTrade, UpdateTaker, UpdateMaker, DeductBalance, Applying
<1>3. pc[w] \notin Idle
  BY <1>2 DEF Idle
<1>4. status \in [Workers -> [taker : Computed \cup {""}, maker : Computed \cup {""}]]
  BY Zenon DEF IInv, WellTyped
<1>5. /\ InTx(w) => status[w].taker = takerStatus
      /\ InTx(w) /\ pc[w] # "taker" => status[w].maker = makerStatus
  BY Zenon DEF Lone, StatusesTrue
<1> HIDE DEF takerStatus, makerStatus
<1>6. PICK l : /\ pc' = [pc EXCEPT ![w] = l]
               /\ l \in {"taker", "maker", "buyer", "seller"} =>
                    /\ status'[w].taker = takerStatus
                    /\ l = "taker" \/ status'[w].maker = makerStatus
  <2>1. CASE FencingDecision(w)
    <3> DEFINE k == IF IsStale(Entry(w)) THEN "ack" ELSE "apply"
    <3>1. pc' = [pc EXCEPT ![w] = k]
      BY <2>1, Zenon DEF FencingDecision, Goto
    <3>2. k \notin {"taker", "maker", "buyer", "seller"}
      OBVIOUS
    <3> QED
      BY <3>1, <3>2, Zenon
  <2>2. CASE InsertTrade(w) /\ AlreadySettled(w)
    <3>1. pc' = [pc EXCEPT ![w] = "ack"]
      BY <2>2, Zenon DEF InsertTrade, Goto
    <3>2. "ack" \notin {"taker", "maker", "buyer", "seller"}
      OBVIOUS
    <3> QED
      BY <3>1, <3>2, Zenon
  <2>3. CASE InsertTrade(w) /\ ~AlreadySettled(w)
    <3>1. /\ pc' = [pc EXCEPT ![w] = "taker"]
          /\ status' = [status EXCEPT ![w].taker = takerStatus]
      BY <2>3, Zenon DEF InsertTrade, Goto, takerStatus
    <3>2. status'[w].taker = takerStatus
      BY <1>4, <3>1
    <3> QED
      BY <3>1, <3>2, Zenon
  <2>4. CASE UpdateTaker(w)
    <3>1. /\ pc[w] = "taker" /\ pc' = [pc EXCEPT ![w] = "maker"]
          /\ status' = [status EXCEPT ![w].maker = makerStatus]
      BY <2>4, Zenon DEF UpdateTaker, Goto, makerStatus
    <3>2. status'[w].maker = makerStatus /\ status'[w].taker = status[w].taker
      BY <1>4, <3>1
    <3>3. InTx(w)
      BY <3>1 DEF InTx
    <3> QED
      BY <1>5, <3>1, <3>2, <3>3, Zenon
  <2>5. CASE UpdateMaker(w) \/ DeductBalance(w)
    <3>1. UNCHANGED status /\ pc[w] \in {"maker", "buyer"}
      BY <2>5, Zenon DEF UpdateMaker, DeductBalance
    <3>2. InTx(w) /\ pc[w] # "taker"
      BY <3>1 DEF InTx
    <3>3. \E l : pc' = [pc EXCEPT ![w] = l]
      BY <2>5, Zenon DEF UpdateMaker, DeductBalance, Goto
    <3> QED
      BY <1>5, <3>1, <3>2, <3>3, Zenon
  <2> QED
    BY <2>1, <2>2, <2>3, <2>4, <2>5, Zenon
<1> QED
  BY <1>1, <1>3, <1>6, LoneWork, Zenon DEF takerStatus, makerStatus

\* What it writes to the orders is true of them.
LEMMA LoneWrites ==
  ASSUME IInv, NEW w \in Workers, Lone(w), pc[w] \notin Idle,
         UNCHANGED <<streamVars, groupVars, queue>>,
         pc' = [pc EXCEPT ![w] = "ack"],
         \A o \in OrderIds : orders'[o] = orders[o] \/ LifeTrue(o)'
  PROVE  Lone(w)'
<1>1. UNCHANGED <<scenario, fencing, out, delivered, pending, queue>>
  BY Zenon DEF streamVars, groupVars
<1>2. WellTyped /\ delivered \in 0..Len(out) /\ Len(out) \in Nat
  BY GroupType, Zenon DEF IInv
<1>3. delivered' \in Nat /\ delivered <= delivered'
  BY <1>1, <1>2
<1>4. pc'[w] = "ack" /\ \A v \in Workers \ {w} : pc'[v] = pc[v]
  BY <1>2, Zenon DEF WellTyped, TypeOK
<1>5. ~InTx(w)'
  BY <1>4 DEF InTx
<1>6. StatusesTrue(w)'
  BY <1>5, Zenon DEF StatusesTrue
<1>7. queue'[w] = pending'
  BY <1>1, LoneHead, Zenon
<1>8. /\ \A i \in 1..delivered : out'[i] = out[i]
      /\ \A l \in pending' : l \in pending
      /\ \A i \in (1..delivered') \ pending' : i \in (1..delivered) \ pending
      /\ scenario' = scenario /\ fencing' = fencing
  BY <1>1, Zenon
<1> QED
  BY <1>2, <1>3, <1>4, <1>6, <1>7, <1>8, LoneStays, Zenon

LEMMA LoneCreates ==
  ASSUME IInv, NEW w \in Workers, Lone(w), HandleOrderCreated(w) PROVE Lone(w)'
<1> DEFINE o == EventOf(w).id
<1>1. /\ UNCHANGED <<streamVars, groupVars, queue>>
      /\ pc[w] = "apply" /\ pc' = [pc EXCEPT ![w] = "ack"]
      /\ orders' = IF orders[o] # NoRow THEN orders ELSE [orders EXCEPT ![o] = InsertOrder]
  BY Zenon DEF HandleOrderCreated, Applying, Goto
<1>2. pc[w] \notin Idle
  BY <1>1 DEF Idle
<1>3. InsertOrder.status = "PENDING"
  BY DEF InsertOrder
<1> HIDE DEF o
<1>4. ASSUME NEW p \in OrderIds PROVE orders'[p] = orders[p] \/ LifeTrue(p)'
  <2>1. orders'[p] = orders[p] \/ orders'[p] = InsertOrder
    BY <1>1, Zenon DEF IInv, WellTyped, TypeOK
  <2>2. orders'[p] = InsertOrder => orders'[p].status \notin {"FILLED", "CANCELED"}
    BY <1>3
  <2> QED
    BY <2>1, <2>2, Zenon DEF LifeTrue
<1> QED
  BY <1>1, <1>2, <1>4, LoneWrites, Zenon

LEMMA LoneCancels ==
  ASSUME IInv, NEW w \in Workers, Lone(w), HandleOrderCanceled(w) PROVE Lone(w)'
<1>0. PICK o, h : o = EventOf(w).id /\ h = HeadOf(w)
  BY Zenon
<1>1. /\ UNCHANGED <<streamVars, groupVars, queue>>
      /\ pc[w] = "apply" /\ pc' = [pc EXCEPT ![w] = "ack"]
      /\ EventOf(w).type = "ORDER_CANCELED"
      /\ orders' = IF orders[o] = NoRow THEN orders
                   ELSE [orders EXCEPT ![o] = UpdateOrderStatus(@)]
  BY <1>0, Zenon DEF HandleOrderCanceled, Applying, Goto
<1>2. pc[w] \notin Idle
  BY <1>1 DEF Idle
<1>3. Reached(h) /\ h \in 1..delivered /\ EventAt(h) = EventOf(w)
  BY <1>0, <1>2, LoneHead, Zenon
<1>4. EventAt(h).type = "ORDER_CANCELED" /\ EventAt(h).id = o
  BY <1>0, <1>1, <1>3, Zenon
<1>5. CancelReached(o)'
  <2>1. UNCHANGED <<scenario, out, delivered, pending>>
    BY <1>1, Zenon DEF streamVars, groupVars
  <2>2. CancelReached(o)
    BY <1>3, <1>4, Zenon DEF CancelReached
  <2> QED
    BY <2>1, <2>2, Zenon DEF CancelReached, Reached, EventAt, script
<1>6. ASSUME NEW p \in OrderIds PROVE orders'[p] = orders[p] \/ LifeTrue(p)'
  <2>1. \/ orders'[p] = orders[p]
        \/ p = o /\ orders'[p] = UpdateOrderStatus(orders[p]) /\ orders[p] # NoRow
    BY <1>1, Zenon DEF IInv, WellTyped, TypeOK
  <2>2. orders[p] # NoRow => UpdateOrderStatus(orders[p]).status = "CANCELED"
    <3>1. orders[p] # NoRow => orders[p] \in Row
      BY Zenon DEF IInv, WellTyped, TypeOK
    <3> QED
      BY <3>1 DEF UpdateOrderStatus, Row
  <2>3. "CANCELED" # "FILLED"
    OBVIOUS
  <2> QED
    BY <1>5, <2>1, <2>2, <2>3, Zenon DEF LifeTrue
<1> QED
  BY <1>1, <1>2, <1>6, LoneWrites, Zenon

\* The rows that a commit writes.
LEMMA CommitRows ==
  ASSUME IInv, NEW w \in Workers, Commit(w), NEW t, t = EventOf(w).id,
         NEW taker, taker = TradeOf[t].taker, NEW maker, maker = TradeOf[t].maker
  PROVE  /\ InTx(w) /\ pc[w] = "seller" /\ TradeAt(w) = TradeOf[t]
         /\ pc[w] \notin Idle /\ t \in TradeIds \ trades
         /\ taker \in OrderIds /\ maker \in OrderIds /\ taker # maker
         /\ orders[taker] \in Row /\ orders[maker] \in Row
         /\ status[w].taker \in Computed /\ status[w].maker \in Computed
         /\ TradeOf[t].quantity \in Nat
         /\ orders' = [[orders EXCEPT ![taker] =
                          UpdateOrderFill(orders[taker], TradeOf[t].quantity, status[w].taker)]
                        EXCEPT ![maker] =
                          UpdateOrderFill(orders[maker], TradeOf[t].quantity, status[w].maker)]
<1>1. /\ pc[w] = "seller"
      /\ orders' = [orders EXCEPT
           ![taker] = UpdateOrderFill(@, TradeOf[t].quantity, status[w].taker),
           ![maker] = UpdateOrderFill(@, TradeOf[t].quantity, status[w].maker)]
  BY Zenon DEF Commit
<1>2. InTx(w) /\ pc[w] # "taker"
  BY <1>1 DEF InTx
<1>3. /\ pc[w] \notin Idle /\ t \in TradeIds \ trades /\ HasOrders(w)
      /\ status[w].taker \in Computed /\ status[w].maker \in Computed
  BY <1>2, TxKnows, Zenon
<1>4. /\ taker \in OrderIds /\ maker \in OrderIds /\ taker # maker
      /\ TradeOf[t].quantity \in Nat
  BY <1>3, TradeType, Zenon
<1>5. TradeAt(w) = TradeOf[t]
  BY Zenon DEF TradeAt
<1>6. orders \in [OrderIds -> Row \cup {NoRow}]
  BY Zenon DEF IInv, WellTyped, TypeOK
<1>7. orders[taker] \in Row /\ orders[maker] \in Row
  BY <1>3, <1>4, <1>5, <1>6, Zenon DEF HasOrders
<1> QED
  BY <1>1, <1>2, <1>3, <1>4, <1>5, <1>6, <1>7, Zenon

LEMMA LoneCommits ==
  ASSUME IInv, NEW w \in Workers, Lone(w), Commit(w) PROVE Lone(w)'
<1>1. PICK t, taker, maker, n, st, sm :
        /\ t = EventOf(w).id /\ taker = TradeOf[t].taker /\ maker = TradeOf[t].maker
        /\ n = TradeOf[t].quantity /\ st = status[w].taker /\ sm = status[w].maker
  BY Zenon
<1>2. /\ UNCHANGED <<streamVars, groupVars, queue>> /\ pc' = [pc EXCEPT ![w] = "ack"]
  BY Zenon DEF Commit, Goto
<1>3. /\ InTx(w) /\ pc[w] = "seller" /\ pc[w] \notin Idle /\ TradeAt(w) = TradeOf[t]
      /\ taker \in OrderIds /\ maker \in OrderIds /\ taker # maker /\ n \in Nat
      /\ orders[taker] \in Row /\ orders[maker] \in Row /\ st \in Computed /\ sm \in Computed
      /\ orders' = [[orders EXCEPT ![taker] = UpdateOrderFill(orders[taker], n, st)]
                                  EXCEPT ![maker] = UpdateOrderFill(orders[maker], n, sm)]
  <2>1. t = EventOf(w).id /\ taker = TradeOf[t].taker /\ maker = TradeOf[t].maker
    BY <1>1, Zenon
  <2>2. /\ InTx(w) /\ pc[w] = "seller" /\ TradeAt(w) = TradeOf[t]
        /\ pc[w] \notin Idle
        /\ taker \in OrderIds /\ maker \in OrderIds /\ taker # maker
        /\ orders[taker] \in Row /\ orders[maker] \in Row
        /\ status[w].taker \in Computed /\ status[w].maker \in Computed
        /\ TradeOf[t].quantity \in Nat
    BY <2>1, CommitRows
  <2>3. orders' = [[orders EXCEPT ![taker] =
                      UpdateOrderFill(orders[taker], TradeOf[t].quantity, status[w].taker)]
                    EXCEPT ![maker] =
                      UpdateOrderFill(orders[maker], TradeOf[t].quantity, status[w].maker)]
    BY <2>1, CommitRows
  <2> QED
    BY <1>1, <2>2, <2>3, Zenon
<1>4. pc[w] # "taker"
  BY <1>3
<1>5. st = StatusAfter(taker, n) /\ sm = StatusAfter(maker, n)
  BY <1>1, <1>3, <1>4, Zenon DEF Lone, StatusesTrue
<1>6. ASSUME NEW r \in Row, NEW z, NEW k \in Computed,
             k = IF r.filled + n >= z THEN "FILLED" ELSE "PARTIAL", z \in Nat
      PROVE  LET row == UpdateOrderFill(r, n, k)
             IN  row.status # "CANCELED" /\ (row.status = "FILLED" => z <= row.filled)
  BY <1>3, <1>6 DEF UpdateOrderFill, Row, Computed
<1>7. \A o \in OrderIds : OrderOf[o].quantity \in Nat
  BY EngineAssumption, Zenon
<1>8. ASSUME NEW p \in OrderIds PROVE orders'[p] = orders[p] \/ LifeTrue(p)'
  <2>1. orders \in [OrderIds -> Row \cup {NoRow}]
    BY Zenon DEF IInv, WellTyped, TypeOK
  <2>2. CASE p = taker
    <3>1. orders'[p] = UpdateOrderFill(orders[p], n, st)
      BY <1>3, <2>1, <2>2, Zenon
    <3>2. st = IF orders[p].filled + n >= OrderOf[p].quantity THEN "FILLED" ELSE "PARTIAL"
      BY <1>5, <2>2, Zenon DEF StatusAfter
    <3> QED
      BY <1>3, <1>6, <1>7, <2>2, <3>1, <3>2, Zenon DEF LifeTrue
  <2>3. CASE p = maker
    <3>1. orders'[p] = UpdateOrderFill(orders[p], n, sm)
      BY <1>3, <2>1, <2>3, Zenon
    <3>2. sm = IF orders[p].filled + n >= OrderOf[p].quantity THEN "FILLED" ELSE "PARTIAL"
      BY <1>5, <2>3, Zenon DEF StatusAfter
    <3> QED
      BY <1>3, <1>6, <1>7, <2>3, <3>1, <3>2, Zenon DEF LifeTrue
  <2>4. CASE p \notin {taker, maker}
    BY <1>3, <2>1, <2>4, Zenon
  <2> QED
    BY <2>2, <2>3, <2>4, Zenon
<1> QED
  BY <1>2, <1>3, <1>8, LoneWrites, Zenon

\* The trades of an order that have been settled are among the engine's.
LEMMA FillsTold ==
  ASSUME IInv, AllTold, NEW o
  PROVE  FillsOf(o) \in SUBSET Told(script, o)
<1>1. DOMAIN script = 1..Len(script)
  BY ScriptType, Zenon
<1> QED
  BY <1>1, Zenon DEF AllTold, FillsOf, Told, Executes

\* An order whose cancel has been reached has had all of its trades: they
\* are earlier in the stream, and have been acknowledged.
LEMMA TradesBeforeCancel ==
  ASSUME IInv, InOrder, NEW w \in Workers, Lone(w), InTx(w),
         NEW o \in OrderIds, Executes(EventOf(w), o), CancelReached(o)
  PROVE  FALSE
<1>1. PICK h : h = HeadOf(w)
  BY Zenon
<1>2. /\ pc[w] \notin Idle /\ EventOf(w).type = "TRADE_EXECUTED" /\ EventOf(w).id \notin trades
  BY TxKnows, Zenon
<1>3. h \in pending /\ h \in 1..delivered /\ EventOf(w) = EventAt(h) /\ \A l \in pending : h <= l
  BY <1>1, <1>2, LoneHead, Zenon DEF Reached
<1>4. PICK i \in 1..delivered :
        Reached(i) /\ EventAt(i).type = "ORDER_CANCELED" /\ EventAt(i).id = o
  BY Zenon DEF CancelReached
<1>5. delivered \in 0..Len(out) /\ Len(out) \in Nat
  BY GroupType, Zenon
<1>6. i \in 1..Len(out) /\ h \in 1..Len(out)
  BY <1>3, <1>4, <1>5
<1>7. /\ out[i].n \in DOMAIN script /\ out[h].n \in DOMAIN script
      /\ out[i].n \in 1..Len(script) /\ out[h].n \in 1..Len(script) /\ WellTold(script)
  BY <1>6, ScriptType, Zenon
<1>8. out[h].n < out[i].n
  BY <1>3, <1>4, <1>7, Zenon DEF WellTold, EventAt
<1>9. out[h].n \in 1..out[i].n
  BY <1>7, <1>8
<1>10. PICK j \in 1..i : out[j].n = out[h].n
  BY <1>6, <1>9, Zenon DEF InOrder
<1>11. j # i
  BY <1>7, <1>8, <1>10
<1>12. i <= h
  BY <1>3, <1>4, Zenon DEF Reached
<1>13. j \in 1..delivered /\ ~(h <= j)
  BY <1>3, <1>4, <1>5, <1>10, <1>11, <1>12
<1>14. j \notin pending
  BY <1>3, <1>13, Zenon
<1>15. IsApplied(j) /\ EventAt(j) = EventOf(w)
  BY <1>3, <1>10, <1>13, <1>14, Zenon DEF IInv, AckedIsApplied, EventAt
<1>16. ~IsStale(out[j])
  <2>1. out[j].token \in 1..fencing /\ fencing = 1
    BY <1>13, EntryType, Zenon DEF IInv, Lone, LoneWriter
  <2>2. ~(out[j].token < fencing)
    BY <2>1
  <2> QED
    BY <2>2, Zenon DEF IsStale
<1>17. "TRADE_EXECUTED" \notin {"ORDER_CREATED", "ORDER_CANCELED"}
  OBVIOUS
<1> QED
  BY <1>2, <1>15, <1>16, <1>17, Zenon DEF IsApplied

\* The orders of a trade that is being settled are open, and have enough
\* left of them.
LEMMA OpenForTrade ==
  ASSUME IInv, InOrder, AllTold, NEW w \in Workers, Lone(w), InTx(w),
         NEW o, o \in {TradeAt(w).taker, TradeAt(w).maker}
  PROVE  /\ orders[o] \in Row /\ orders[o].status \in {"PENDING", "PARTIAL"}
         /\ orders[o].filled + TradeAt(w).quantity <= OrderOf[o].quantity
<1>1. PICK t, n, z : t = EventOf(w).id /\ n = TradeAt(w).quantity /\ z = OrderOf[o].quantity
  BY Zenon
<1>2. /\ pc[w] \notin Idle /\ EventOf(w).type = "TRADE_EXECUTED"
      /\ t \in TradeIds \ trades /\ HasOrders(w)
  BY <1>1, TxKnows, Zenon
<1>3. TradeAt(w) = TradeOf[t] /\ Executes(EventOf(w), o)
  BY <1>1, <1>2, Zenon DEF TradeAt, Executes
<1>4. /\ TradeOf[t] \in Trade /\ o \in OrderIds
  BY <1>2, <1>3, TradeType, Zenon
<1>5. n \in Nat /\ n # 0 /\ z \in Nat
  <2>1. n \in Nat /\ n # 0
    BY <1>1, <1>3, <1>4 DEF Trade
  <2> QED
    BY <1>1, <1>4, <2>1, EngineAssumption, Zenon
<1>6. orders[o] # NoRow /\ orders[o] \in Row
  <2>1. orders[o] # NoRow
    BY <1>2, Zenon DEF HasOrders
  <2>2. orders[o] \in Row \cup {NoRow}
    BY <1>4, Zenon DEF IInv, WellTyped, TypeOK
  <2> QED
    BY <2>1, <2>2, Zenon
<1>7. PICK f : f = Quantity(FillsOf(o)) /\ orders[o].filled = f
  BY <1>4, <1>6, Zenon DEF IInv, TablesAgree
<1>8. f \in Nat /\ Quantity(FillsOf(o) \cup {t}) = f + n
  <2>1. FillsOf(o) \in SUBSET trades /\ trades \in SUBSET TradeIds /\ IsFiniteSet(trades)
    BY Zenon DEF FillsOf, IInv, WellTyped, TypeOK
  <2>2. FillsOf(o) \in SUBSET TradeIds /\ IsFiniteSet(FillsOf(o)) /\ t \in TradeIds \ FillsOf(o)
    BY <1>2, <2>1, FS_Subset, Zenon
  <2> QED
    BY <1>1, <1>3, <1>7, <2>2, OneMoreTrade, Zenon
<1>9. FillsOf(o) \cup {t} \in SUBSET Told(script, o)
  <2>1. t \in Told(script, o)
    <3>1. HeadOf(w) \in 1..delivered
      BY <1>2, HeadType, Zenon DEF IInv
    <3>2. HeadOf(w) \in 1..Len(out)
      BY <3>1, EntryType, Zenon DEF IInv
    <3>3. out[HeadOf(w)].n \in DOMAIN script
      BY <3>2, ScriptType, Zenon
    <3> QED
      BY <1>1, <1>3, <3>3, Zenon DEF Told, EventOf, EventAt
  <2> QED
    BY <2>1, FillsTold, Zenon
<1>10. /\ Quantity(Told(script, o)) \in Nat /\ Quantity(Told(script, o)) <= z
       /\ f + n <= Quantity(Told(script, o))
  <2>1. Quantity(Told(script, o)) <= z
    BY <1>1, <1>4, ScriptType, Zenon DEF WellTold
  <2>2. /\ Quantity(Told(script, o)) \in Nat
        /\ Quantity(FillsOf(o) \cup {t}) <= Quantity(Told(script, o))
    BY <1>9, ToldFinite, QuantityGrows, Zenon
  <2> QED
    BY <1>8, <2>1, <2>2, Zenon
<1>11. f + n <= z /\ ~(z <= f)
  BY <1>5, <1>8, <1>10
<1>12. LifeTrue(o)
  BY <1>4, <1>6, Zenon DEF Lone, LivesTrue
<1>13. orders[o].status # "FILLED"
  BY <1>1, <1>7, <1>11, <1>12, Zenon DEF LifeTrue
<1>14. orders[o].status # "CANCELED"
  BY <1>3, <1>4, <1>12, TradesBeforeCancel, Zenon DEF LifeTrue
<1>15. orders[o].status \in {"PENDING", "PARTIAL"}
  BY <1>6, <1>13, <1>14 DEF Row
<1> QED
  BY <1>1, <1>6, <1>7, <1>11, <1>15, Zenon

\* An order is not full when its cancel comes.
LEMMA OpenForCancel ==
  ASSUME IInv, AllTold, NEW w \in Workers, Lone(w), pc[w] \notin Idle,
         EventOf(w).type = "ORDER_CANCELED", NEW o, o = EventOf(w).id, orders[o] # NoRow
  PROVE  /\ o \in OrderIds /\ orders[o] \in Row
         /\ orders[o].status \in {"PENDING", "PARTIAL", "CANCELED"}
<1>1. EventOf(w) \in Event
  BY HeadType, Zenon DEF IInv
<1>2. o \in OrderIds
  BY <1>1 DEF Event
<1>3. orders[o] \in Row /\ orders[o].filled = Quantity(FillsOf(o)) /\ LifeTrue(o)
  BY <1>2, Zenon DEF IInv, WellTyped, TypeOK, TablesAgree, Lone, LivesTrue
<1>4. Quantity(Told(script, o)) < OrderOf[o].quantity
  <2>1. HeadOf(w) \in 1..delivered
    BY HeadType, Zenon DEF IInv
  <2>2. HeadOf(w) \in 1..Len(out)
    BY <2>1, EntryType, Zenon DEF IInv
  <2>3. out[HeadOf(w)].n \in DOMAIN script /\ WellTold(script)
    BY <2>2, ScriptType, Zenon
  <2> QED
    BY <1>2, <2>3, Zenon DEF WellTold, EventOf, EventAt
<1>5. /\ Quantity(Told(script, o)) \in Nat /\ Quantity(FillsOf(o)) \in Nat
      /\ Quantity(FillsOf(o)) <= Quantity(Told(script, o))
  BY FillsTold, ToldFinite, QuantityGrows, Zenon
<1>6. OrderOf[o].quantity \in Nat
  BY <1>2, EngineAssumption, Zenon
<1>7. ~(OrderOf[o].quantity <= Quantity(FillsOf(o)))
  BY <1>4, <1>5, <1>6
<1>8. orders[o].status # "FILLED"
  BY <1>3, <1>7, Zenon DEF LifeTrue
<1> QED
  BY <1>2, <1>3, <1>8 DEF Row

\* What the steps do to the stream and to the tables.
LEMMA StepKinds ==
  ASSUME Next
  PROVE  /\ scenario' = scenario
         /\ UNCHANGED <<out, emitted>> \/ Emit \/ EmitAgain
         /\ \/ UNCHANGED <<orders, trades, balance>>
            \/ \E w \in Workers : HandleOrderCreated(w) \/ HandleOrderCanceled(w) \/ Commit(w)
<1>1. CASE Emit \/ EmitAgain \/ NewOwner
  BY <1>1, Zenon DEF Emit, EmitAgain, NewOwner, tables
<1>2. ASSUME NEW w \in Workers, HandleOrderCreated(w) \/ HandleOrderCanceled(w) \/ Commit(w)
      PROVE  UNCHANGED <<scenario, out, emitted>>
  BY <1>2, Zenon DEF HandleOrderCreated, HandleOrderCanceled, Commit, streamVars
<1>3. ASSUME NEW w \in Workers,
             \/ Start(w) \/ Claim(w) \/ ReadGroup(w) \/ Ack(w) \/ FencingDecision(w)
             \/ ReadFails(w)
      PROVE  UNCHANGED <<scenario, out, emitted, orders, trades, balance>>
  BY <1>3, Zenon DEF Start, Claim, ClaimEntries, ReadGroup, Ack, FencingDecision, ReadFails,
                     streamVars, tables
<1>4. ASSUME NEW w \in Workers,
             InsertTrade(w) \/ UpdateTaker(w) \/ UpdateMaker(w) \/ DeductBalance(w)
      PROVE  UNCHANGED <<scenario, out, emitted, orders, trades, balance>>
  BY <1>4, Zenon DEF InsertTrade, UpdateTaker, UpdateMaker, DeductBalance, streamVars, tables
<1>5. ASSUME NEW w \in Workers, Refuse(w) \/ DeadlockAbort(w) \/ Fail(w)
      PROVE  UNCHANGED <<scenario, out, emitted, orders, trades, balance>>
  BY <1>5, Zenon DEF Refuse, DeadlockAbort, Fail, Stop, streamVars, tables
<1> QED
  BY <1>1, <1>2, <1>3, <1>4, <1>5, Zenon DEF Next, Run

\* A trade that is settled is in the script.
LEMMA ToldKept ==
  ASSUME IInv, AllTold, Next PROVE AllTold'
<1>1. scenario' = scenario
  BY StepKinds, Zenon
<1>2. CASE UNCHANGED trades
  BY <1>1, <1>2, Zenon DEF AllTold, script
<1>3. ASSUME NEW w \in Workers, Commit(w) PROVE AllTold'
  <2>1. PICK t : t = EventOf(w).id
    BY Zenon
  <2>2. trades' = trades \cup {t} /\ pc[w] = "seller"
    BY <1>3, <2>1, Zenon DEF Commit
  <2>3. InTx(w)
    BY <2>2 DEF InTx
  <2>4. pc[w] \notin Idle /\ EventOf(w).type = "TRADE_EXECUTED"
    BY <2>3, TxKnows, Zenon
  <2>5. HeadOf(w) \in 1..delivered
    BY <2>4, HeadType, Zenon DEF IInv
  <2>6. HeadOf(w) \in 1..Len(out)
    BY <2>5, EntryType, Zenon DEF IInv
  <2>7. PICK n \in 1..Len(script) : script[n].type = "TRADE_EXECUTED" /\ script[n].id = t
    BY <2>1, <2>4, <2>6, ScriptType, Zenon DEF EventOf, EventAt
  <2> QED
    BY <1>1, <2>2, <2>7, Zenon DEF AllTold, script
<1>4. UNCHANGED trades \/ \E w \in Workers : Commit(w)
  BY StepKinds, Zenon DEF HandleOrderCreated, HandleOrderCanceled
<1> QED
  BY <1>2, <1>3, <1>4, Zenon

\* Nobody else works on the stream of a single writer.
LEMMA LoneNext ==
  ASSUME NEW w \in Workers, Alone(w), Lone(w), Next
  PROVE  Emit \/ EmitAgain \/ Start(w) \/ Run(w) \/ Fail(w)
<1>1. ~NewOwner /\ \A v : ~ReadFails(v)
  BY Zenon DEF NewOwner, ReadFails, Fault, Alone
<1>2. ASSUME NEW v \in Workers, v # w PROVE ~Start(v) /\ ~Fail(v) /\ ~Run(v)
  <2>1. pc[v] = "stopped" /\ v \notin scenario.workers
    BY <1>2, Zenon DEF Lone, LoneWriter, Alone
  <2>2. ~Start(v) /\ ~Fail(v)
    BY <2>1, Zenon DEF Start, Fail
  <2>3. \A type : ~Applying(v, type)
    BY <2>1 DEF Applying
  <2>4. ~Claim(v) /\ ~ReadGroup(v) /\ ~Ack(v) /\ ~FencingDecision(v)
    BY <2>1 DEF Claim, ClaimEntries, ReadGroup, Deliver, Ack, FencingDecision
  <2>5. ~HandleOrderCreated(v) /\ ~HandleOrderCanceled(v) /\ ~InsertTrade(v)
    BY <2>3, Zenon DEF HandleOrderCreated, HandleOrderCanceled, InsertTrade
  <2>6. ~UpdateTaker(v) /\ ~UpdateMaker(v) /\ ~DeductBalance(v) /\ ~Commit(v)
    BY <2>1 DEF UpdateTaker, UpdateMaker, DeductBalance, Commit
  <2>7. ~Refuse(v)
    BY <2>1, <2>3 DEF Refuse
  <2>8. \A u : ~WaitsFor(v, u)
    BY <2>1 DEF WaitsFor
  <2>9. ~DeadlockAbort(v)
    BY <2>8, Zenon DEF DeadlockAbort
  <2> QED
    BY <2>2, <2>4, <2>5, <2>6, <2>7, <2>9, Zenon DEF Run
<1> QED
  BY <1>1, <1>2, Zenon DEF Next

LEMMA LoneKept ==
  ASSUME IInv, IInv', NEW w \in Workers, Alone(w), Lone(w), [Next]_vars PROVE Lone(w)'
<1>1. CASE Emit \/ EmitAgain
  <2>1. UNCHANGED <<scenario, fencing, groupVars, workerVars, tables>>
    BY <1>1, Zenon DEF Emit, EmitAgain
  <2>2. \A i \in 1..Len(out) : out'[i] = out[i]
    <3>1. out \in Seq(Entries(emitted, fencing)) /\ \E e : out' = Append(out, e)
      BY <1>1, StreamType, Zenon DEF Emit, EmitAgain, Entries
    <3> QED
      BY <3>1
  <2> QED
    BY <2>1, <2>2, LoneStream, Zenon
<1>2. CASE UNCHANGED vars
  <2>1. UNCHANGED <<scenario, fencing, groupVars, workerVars, tables>> /\ UNCHANGED out
    BY <1>2, Zenon DEF vars, streamVars
  <2> QED
    BY <2>1, LoneStream, Zenon
<1>3. CASE Start(w) \/ Claim(w)
  BY <1>3, LoneClaims, Zenon
<1>4. CASE ReadGroup(w)
  BY <1>4, LoneReads, Zenon
<1>5. CASE Ack(w)
  BY <1>5, LoneAcks, Zenon
<1>6. CASE Fail(w) \/ Refuse(w) \/ DeadlockAbort(w)
  BY <1>6, LoneStops, Zenon
<1>7. CASE \/ FencingDecision(w) \/ InsertTrade(w)
           \/ UpdateTaker(w) \/ UpdateMaker(w) \/ DeductBalance(w)
  BY <1>7, LoneWorks, Zenon
<1>8. CASE HandleOrderCreated(w)
  BY <1>8, LoneCreates, Zenon
<1>9. CASE HandleOrderCanceled(w)
  BY <1>9, LoneCancels, Zenon
<1>10. CASE Commit(w)
  BY <1>10, LoneCommits, Zenon
<1>11. CASE Next
  BY <1>1, <1>3, <1>4, <1>5, <1>6, <1>7, <1>8, <1>9, <1>10, <1>11, LoneNext, Zenon DEF Run
<1> QED
  BY <1>2, <1>11, Zenon

LEMMA ReplicaInit == ASSUME Init PROVE RInv
<1>1. IInv
  BY InitKeeps, Zenon
<1>2. /\ emitted = 0 /\ out = <<>> /\ delivered = 0 /\ fencing = 1 /\ trades = {}
      /\ pc = [w \in Workers |-> "stopped"] /\ orders = [o \in OrderIds |-> NoRow]
  BY Zenon DEF Init
<1>3. 1..emitted = {} /\ 1..Len(out) = {} /\ 1..delivered = {}
  BY <1>2
<1>4. InOrder /\ AllTold
  BY <1>2, <1>3, Zenon DEF InOrder, AllTold
<1>5. ASSUME NEW w \in Workers PROVE Lone(w)
  <2>1. \A v \in Workers : pc[v] = "stopped"
    BY <1>2, Zenon
  <2>2. ~InTx(w)
    BY <2>1 DEF InTx
  <2>3. LivesTrue
    BY <1>2, Zenon DEF LivesTrue
  <2> QED
    BY <1>2, <1>3, <2>1, <2>2, <2>3, Zenon DEF Lone, LoneWriter, StatusesTrue
<1> QED
  BY <1>1, <1>4, <1>5, Zenon DEF RInv

LEMMA ReplicaNext == ASSUME RInv, [Next]_vars PROVE RInv'
<1>1. IInv /\ IInv' /\ InOrder /\ AllTold
  BY NextKeeps, Zenon DEF RInv
<1>2. scenario' = scenario
  BY StepKinds, Zenon DEF vars, streamVars
<1>3. InOrder' /\ AllTold'
  <2>1. CASE UNCHANGED vars
    <3>1. out' = out /\ emitted' = emitted /\ trades' = trades /\ script' = script
      BY <2>1, Zenon DEF vars, streamVars, tables, script
    <3>2. InOrder'
      BY <1>1, <3>1 DEF InOrder
    <3>3. AllTold'
      BY <1>1, <3>1 DEF AllTold
    <3> QED
      BY <3>2, <3>3, Zenon
  <2>2. CASE Next
    <3>1. AllTold'
      BY <1>1, <2>2, ToldKept, Zenon
    <3>2. ASSUME out' = out, emitted' = emitted PROVE InOrder'
      BY <1>1, <3>2 DEF InOrder
    <3>3. Emit \/ EmitAgain => InOrder'
      BY <1>1, OrderKept, Zenon
    <3> QED
      BY <2>2, <3>1, <3>2, <3>3, StepKinds, Zenon
  <2> QED
    BY <2>1, <2>2, Zenon
<1>4. ASSUME NEW w \in Workers, Alone(w)' PROVE Lone(w)'
  <2>1. Alone(w)
    BY <1>2, <1>4, Zenon DEF Alone
  <2>2. Lone(w)
    BY <2>1, Zenon DEF RInv
  <2> QED
    BY <1>1, <2>1, <2>2, LoneKept, Zenon
<1> QED
  BY <1>1, <1>3, <1>4, Zenon DEF RInv

\* A single writer is alone with its stream.
LEMMA WriterAlone ==
  ASSUME IInv, SingleWriter PROVE \E w \in Workers : Alone(w)
<1>1. scenario \in Scenarios /\ Cardinality(scenario.workers) = 1
  BY Zenon DEF IInv, WellTyped, TypeOK, SingleWriter
<1>2. scenario.workers \subseteq Workers /\ IsFiniteSet(scenario.workers)
  BY <1>1, DBWorkerAssumption, EngineAssumption, Zenon
<1>3. PICK w : scenario.workers = {w}
  BY <1>1, <1>2, FS_Singleton, Zenon
<1>4. w \in Workers
  BY <1>2, <1>3, Zenon
<1> QED
  BY <1>3, <1>4, Zenon DEF Alone, SingleWriter

\* A fact of arithmetic.
LEMMA ReachedExactly ==
  \A m, n, q \in Nat : m + n <= q => (m + n >= q <=> m + n = q)
  OBVIOUS

\* A commit fills two open orders, each to the status its fills call for.
LEMMA CommitSettles ==
  ASSUME IInv, InOrder, AllTold, NEW w \in Workers, Lone(w), Commit(w),
         NEW t, t = EventOf(w).id,
         ReplicaOrders = orders, ReplicaTrades = trades, ReplicaBalance = balance,
         ReplicaOrders' = orders', ReplicaTrades' = trades', ReplicaBalance' = balance'
  PROVE  t \in TradeIds /\ Replica!Settle(t)
<1>1. PICK taker, maker, n, st, sm :
        /\ taker = TradeOf[t].taker /\ maker = TradeOf[t].maker
        /\ n = TradeOf[t].quantity /\ st = status[w].taker /\ sm = status[w].maker
  BY Zenon
<1>2. /\ InTx(w) /\ pc[w] = "seller" /\ TradeAt(w) = TradeOf[t] /\ t \in TradeIds \ trades
      /\ taker \in OrderIds /\ maker \in OrderIds /\ taker # maker /\ n \in Nat
      /\ orders[taker] \in Row /\ orders[maker] \in Row
      /\ orders' = [[orders EXCEPT ![taker] = UpdateOrderFill(orders[taker], n, st)]
                                  EXCEPT ![maker] = UpdateOrderFill(orders[maker], n, sm)]
  BY <1>1, CommitRows
<1>3. st = StatusAfter(taker, n) /\ sm = StatusAfter(maker, n)
  <2>1. pc[w] # "taker"
    BY <1>2
  <2> QED
    BY <1>1, <1>2, <2>1, Zenon DEF Lone, StatusesTrue
<1>4. \A o \in {taker, maker} :
        /\ orders[o] # NoRow /\ orders[o].status \in {"PENDING", "PARTIAL"}
        /\ orders[o].filled + n <= OrderOf[o].quantity
  <2>1. \A o \in {taker, maker} :
          /\ orders[o].status \in {"PENDING", "PARTIAL"}
          /\ orders[o].filled + n <= OrderOf[o].quantity
    BY <1>1, <1>2, OpenForTrade, Zenon
  <2>2. NoRow \notin Row
    BY DBWorkerAssumption, Zenon
  <2> QED
    BY <1>2, <2>1, <2>2, Zenon
<1>5. \A o \in {taker, maker} :
        UpdateOrderFill(orders[o], n, StatusAfter(o, n)) = Replica!Filled(o, n)
  <2> SUFFICES ASSUME NEW o \in {taker, maker}
               PROVE  UpdateOrderFill(orders[o], n, StatusAfter(o, n)) = Replica!Filled(o, n)
    BY Zenon
  <2>1. orders[o].filled \in Nat /\ OrderOf[o].quantity \in Nat
    <3>1. orders[o] \in Row /\ o \in OrderIds
      BY <1>2, Zenon
    <3>2. orders[o].filled \in Nat
      BY <3>1 DEF Row
    <3> QED
      BY <3>1, <3>2, EngineAssumption, Zenon
  <2>2. orders[o].filled + n >= OrderOf[o].quantity <=> orders[o].filled + n = OrderOf[o].quantity
    <3>1. orders[o].filled + n <= OrderOf[o].quantity
      BY <1>4, Zenon
    <3>2. n \in Nat
      BY <1>2, Zenon
    <3> QED
      BY <2>1, <3>1, <3>2, ReachedExactly, Zenon
  <2> QED
    BY <2>2, Zenon DEF UpdateOrderFill, StatusAfter, Replica!Filled
<1>6. orders' = [orders EXCEPT ![taker] = Replica!Filled(taker, n),
                               ![maker] = Replica!Filled(maker, n)]
  <2>1. /\ UpdateOrderFill(orders[taker], n, st) = Replica!Filled(taker, n)
        /\ UpdateOrderFill(orders[maker], n, sm) = Replica!Filled(maker, n)
    BY <1>3, <1>5, Zenon
  <2> QED
    BY <1>2, <2>1, Zenon
<1>7. /\ trades' = trades \cup {t}
      /\ balance' = [balance EXCEPT ![TradeOf[t].buyer] = @ - Cost(t),
                                    ![TradeOf[t].seller] = @ + Cost(t)]
  BY Zenon DEF Commit, AddBalance
<1>8. Cost(t) <= balance[TradeOf[t].buyer]
  BY <1>2, Zenon DEF IInv, Sound, CanPay
<1>9. Replica!IsOpen(taker) /\ Replica!IsOpen(maker)
  BY <1>4, Zenon DEF Replica!IsOpen
<1> QED
  BY <1>1, <1>2, <1>6, <1>7, <1>8, <1>9, Zenon DEF Replica!Settle, Cost

\* A single writer shows the life of the engine's orders in the tables.
\* applyOrderFill and handleOrderCanceled do not look at the status that they
\* overwrite, but the order is open whenever they change it; and settleTrade
\* fills two open orders in one step, to the statuses their fills call for.
THEOREM ImplementsProjection == Spec => Projects
<1>1. Init => RInv
  BY ReplicaInit, Zenon
<1>2. RInv /\ [Next]_vars => RInv'
  BY ReplicaNext, Zenon
<1>3. Init => Replica!Init
  BY Zenon DEF Init, Replica!Init, ReplicaOrders, ReplicaTrades, ReplicaBalance, OrderIds
<1>4. RInv /\ [Next]_vars => [Replica!Next]_(Replica!vars)
  <2> SUFFICES ASSUME RInv, [Next]_vars
               PROVE  [Replica!Next]_(Replica!vars)
    BY Zenon
  <2>1. IInv /\ InOrder /\ AllTold
    BY Zenon DEF RInv
  <2>2. scenario' = scenario
    BY StepKinds, Zenon DEF vars, streamVars
  <2>3. SingleWriter' <=> SingleWriter
    BY <2>2, Zenon DEF SingleWriter
  <2>4. CASE ~SingleWriter
    BY <2>3, <2>4, Zenon DEF Replica!vars, ReplicaOrders, ReplicaTrades, ReplicaBalance
  <2>5. CASE SingleWriter
    <3>1. /\ ReplicaOrders = orders /\ ReplicaTrades = trades /\ ReplicaBalance = balance
          /\ ReplicaOrders' = orders' /\ ReplicaTrades' = trades' /\ ReplicaBalance' = balance'
      BY <2>3, <2>5, Zenon DEF ReplicaOrders, ReplicaTrades, ReplicaBalance
    <3>2. PICK w \in Workers : Alone(w) /\ Lone(w)
      BY <2>1, <2>5, WriterAlone, Zenon DEF RInv
    <3>3. CASE UNCHANGED <<orders, trades, balance>>
      BY <3>1, <3>3, Zenon DEF Replica!vars
    <3>4. CASE HandleOrderCreated(w)
      <4>1. PICK o : o = EventOf(w).id
        BY Zenon
      <4>2. /\ pc[w] = "apply" /\ EventOf(w).type = "ORDER_CREATED"
            /\ UNCHANGED <<trades, balance>>
            /\ orders' = IF orders[o] # NoRow THEN orders ELSE [orders EXCEPT ![o] = InsertOrder]
        BY <3>4, <4>1, Zenon DEF HandleOrderCreated, Applying
      <4>3. pc[w] \notin Idle
        BY <4>2 DEF Idle
      <4>4. EventOf(w) \in Event
        BY <2>1, <4>3, HeadType, Zenon DEF IInv
      <4>5. o \in DOMAIN OrderOf
        BY <4>1, <4>2, <4>4 DEF Event, OrderIds
      <4>6. orders[o] = NoRow => Replica!Record(o)
        BY <3>1, <4>2, Zenon DEF Replica!Record, InsertOrder
      <4>7. orders[o] # NoRow => UNCHANGED Replica!vars
        BY <3>1, <4>2, Zenon DEF Replica!vars
      <4> QED
        BY <4>5, <4>6, <4>7, Zenon DEF Replica!Next
    <3>5. CASE HandleOrderCanceled(w)
      <4>1. PICK o : o = EventOf(w).id
        BY Zenon
      <4>2. /\ pc[w] = "apply" /\ EventOf(w).type = "ORDER_CANCELED"
            /\ UNCHANGED <<trades, balance>>
            /\ orders' = IF orders[o] = NoRow THEN orders
                         ELSE [orders EXCEPT ![o] = UpdateOrderStatus(@)]
        BY <3>5, <4>1, Zenon DEF HandleOrderCanceled, Applying
      <4>3. pc[w] \notin Idle
        BY <4>2 DEF Idle
      <4>4. CASE orders[o] = NoRow
        BY <3>1, <4>2, <4>4, Zenon DEF Replica!vars
      <4>5. CASE orders[o] # NoRow
        <5>1. /\ o \in OrderIds /\ orders[o] \in Row
              /\ orders[o].status \in {"PENDING", "PARTIAL", "CANCELED"}
          BY <2>1, <3>2, <4>1, <4>2, <4>3, <4>5, OpenForCancel, Zenon
        <5>2. orders \in [OrderIds -> Row \cup {NoRow}]
          BY <2>1, Zenon DEF IInv, WellTyped, TypeOK
        <5>3. CASE orders[o].status = "CANCELED"
          <6>1. UpdateOrderStatus(orders[o]) = orders[o]
            BY <5>1, <5>3 DEF UpdateOrderStatus, Row
          <6>2. orders' = orders
            BY <4>2, <4>5, <5>2, <6>1, Zenon
          <6> QED
            BY <3>1, <4>2, <6>2, Zenon DEF Replica!vars
        <5>4. CASE orders[o].status # "CANCELED"
          <6>1. Replica!IsOpen(o)
            BY <3>1, <4>5, <5>1, <5>4, Zenon DEF Replica!IsOpen
          <6>2. Replica!Cancel(o)
            BY <3>1, <4>2, <4>5, <6>1, Zenon DEF Replica!Cancel, UpdateOrderStatus
          <6> QED
            BY <5>1, <6>2, Zenon DEF Replica!Next, OrderIds
        <5> QED
          BY <5>3, <5>4, Zenon
      <4> QED
        BY <4>4, <4>5, Zenon
    <3>6. CASE Commit(w)
      <4>1. PICK t : t = EventOf(w).id
        BY Zenon
      <4>2. t \in TradeIds /\ Replica!Settle(t)
        BY <2>1, <3>1, <3>2, <3>6, <4>1, CommitSettles, Zenon
      <4> QED
        BY <4>2, Zenon DEF Replica!Next, TradeIds
    <3>7. CASE UNCHANGED vars
      BY <3>3, <3>7, Zenon DEF vars, tables
    <3>8. CASE Next
      <4>1. CASE Emit \/ EmitAgain \/ Start(w) \/ Fail(w)
        BY <3>3, <4>1, Zenon DEF Emit, EmitAgain, Start, Fail, Stop, tables
      <4>2. CASE Claim(w) \/ ReadGroup(w) \/ Ack(w) \/ FencingDecision(w) \/ Refuse(w) \/ DeadlockAbort(w)
        BY <3>3, <4>2, Zenon DEF Claim, ClaimEntries, ReadGroup, Ack, FencingDecision, Refuse,
                                 DeadlockAbort, Stop, tables
      <4>3. CASE InsertTrade(w) \/ UpdateTaker(w) \/ UpdateMaker(w) \/ DeductBalance(w)
        BY <3>3, <4>3, Zenon DEF InsertTrade, UpdateTaker, UpdateMaker, DeductBalance, tables
      <4> QED
        BY <3>2, <3>4, <3>5, <3>6, <3>8, <4>1, <4>2, <4>3, LoneNext, Zenon DEF Run
    <3> QED
      BY <3>7, <3>8, Zenon
  <2> QED
    BY <2>4, <2>5, Zenon
<1> QED
  BY <1>1, <1>2, <1>3, <1>4, PTL DEF Spec, Projects, Replica!Spec
=============================================================================
