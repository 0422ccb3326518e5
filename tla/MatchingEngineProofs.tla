------------------------ MODULE MatchingEngineProofs ------------------------
(***************************************************************************)
(* Proofs about MatchingEngine, for every set of users, events, orders,    *)
(* partitions and requests.                                                *)
(*                                                                         *)
(* The inductive invariant is Consistent.  TypeOK alone is not inductive:  *)
(* that an order a worker fills or settles exists is a matter of which     *)
(* worker owns it, and that a resting order exists is a matter of which    *)
(* orders the books hold.  From it follows that filled and canceled orders *)
(* stay as they are, and that without seeded shares nothing is ever        *)
(* traded.  The ledger and the order of the books have modules of their    *)
(* own, which start from what is proved here.                              *)
(***************************************************************************)
EXTENDS MatchingEngine, SequenceTheorems, WellFoundedInduction, TLAPS

(***************************************************************************)
(* Slices: what inserting an order, or taking one out, does to a slice.    *)
(***************************************************************************)

\* A nonempty set of naturals has a least element, and Min names it.
LEMMA MinProperty ==
  ASSUME NEW S \in SUBSET Nat, S # {}
  PROVE  Min(S) \in S /\ \A y \in S : Min(S) <= y
<1>1. PICK x \in S : \A y \in S : ~(<<y, x>> \in OpToRel(<, Nat))
  BY NatLessThanWellFounded, WFMin, Zenon
<1>2. \A y \in S : x <= y
  <2>1. ASSUME NEW y \in S, y < x PROVE FALSE
    <3>1. <<y, x>> \in OpToRel(<, Nat)
      BY <2>1 DEF OpToRel
    <3> QED
      BY <1>1, <3>1, Zenon
  <2> QED
    BY <2>1
<1> QED
  BY <1>2, Zenon DEF Min

\* Removing one position of an injective sequence removes exactly its value.
LEMMA RemoveIndexProperty ==
  ASSUME NEW T, NEW s \in Seq(T), NEW i \in 1..Len(s)
  PROVE  /\ removeOrderIndex(s, i) \in Seq(T)
         /\ Len(removeOrderIndex(s, i)) = Len(s) - 1
         /\ \A j \in 1..(Len(s) - 1) :
               removeOrderIndex(s, i)[j] = IF j < i THEN s[j] ELSE s[j + 1]
<1> DEFINE a == SubSeq(s, 1, i - 1)
           b == SubSeq(s, i + 1, Len(s))
<1>1. /\ a \in Seq(T) /\ Len(a) = i - 1
      /\ \A j \in 1..(i - 1) : a[j] = s[j]
  OBVIOUS
<1>2. /\ b \in Seq(T) /\ Len(b) = Len(s) - i
      /\ \A j \in 1..(Len(s) - i) : b[j] = s[j + i]
  OBVIOUS
<1>3. removeOrderIndex(s, i) = a \o b
  BY DEF removeOrderIndex
<1> HIDE DEF a, b
<1>4. a \o b \in Seq(T) /\ Len(a \o b) = Len(s) - 1
  <2>1. a \o b \in Seq(T) /\ Len(a \o b) = Len(a) + Len(b)
    BY <1>1, <1>2, ConcatProperties, Zenon
  <2>2. Len(s) \in Nat
    OBVIOUS
  <2> QED
    BY <1>1, <1>2, <2>1, <2>2
<1>5. ASSUME NEW j \in 1..(Len(s) - 1), j < i PROVE (a \o b)[j] = s[j]
  BY <1>1, <1>2, <1>5
<1>6. ASSUME NEW j \in 1..(Len(s) - 1), ~(j < i) PROVE (a \o b)[j] = s[j + 1]
  <2>1. (a \o b)[j] = b[j - (i - 1)]
    BY <1>1, <1>2, <1>6, SMTT(30)
  <2>2. j - (i - 1) \in 1..(Len(s) - i) /\ (j - (i - 1)) + i = j + 1
    BY <1>6
  <2> QED
    BY <1>2, <2>1, <2>2
<1> QED
  BY <1>3, <1>4, <1>5, <1>6, Zenon

\* Inserting an element keeps the others in their order around it.
LEMMA InsertAtProperty ==
  ASSUME NEW T, NEW s \in Seq(T), NEW i \in 1..Len(s), NEW e \in T
  PROVE  /\ InsertAt(s, i, e) \in Seq(T)
         /\ Len(InsertAt(s, i, e)) = Len(s) + 1
         /\ \A j \in 1..(Len(s) + 1) :
               InsertAt(s, i, e)[j] =
                 IF j < i THEN s[j] ELSE IF j = i THEN e ELSE s[j - 1]
  BY DEF InsertAt

\* r is s with e inserted in front of its i-th element.
Inserted(r, s, i, e) ==
    /\ Len(r) = Len(s) + 1
    /\ \A j \in 1..(Len(s) + 1) : r[j] = IF j < i THEN s[j] ELSE IF j = i THEN e ELSE s[j - 1]

\* InsertAt inserts, and nothing else.
LEMMA InsertAtInserts ==
  ASSUME NEW T, NEW s \in Seq(T), NEW i \in 1..Len(s), NEW e \in T
  PROVE  Inserted(InsertAt(s, i, e), s, i, e)
  BY InsertAtProperty DEF Inserted

\* Taking one position out of a duplicate-free slice takes exactly that order
\* out.
LEMMA RemoveIndexSlice ==
  ASSUME NEW T, NEW s \in Seq(T), IsInjective(s), NEW i \in 1..Len(s)
  PROVE  /\ removeOrderIndex(s, i) \in Seq(T)
         /\ IsInjective(removeOrderIndex(s, i))
         /\ \A x : Contains(removeOrderIndex(s, i), x) <=> Contains(s, x) /\ x # s[i]
<1> DEFINE r == removeOrderIndex(s, i)
<1>1. /\ r \in Seq(T) /\ Len(r) = Len(s) - 1
      /\ \A j \in 1..(Len(s) - 1) : r[j] = IF j < i THEN s[j] ELSE s[j + 1]
  BY RemoveIndexProperty
<1>2. DOMAIN r = 1..(Len(s) - 1) /\ DOMAIN s = 1..Len(s) /\ Len(s) \in Nat
  BY <1>1
<1> HIDE DEF r
<1>3. IsInjective(r)
  <2>1. ASSUME NEW j \in 1..(Len(s) - 1), NEW k \in 1..(Len(s) - 1), r[j] = r[k]
        PROVE  j = k
    <3> DEFINE j0 == IF j < i THEN j ELSE j + 1
               k0 == IF k < i THEN k ELSE k + 1
    <3>1. s[j0] = s[k0]
      BY <1>1, <2>1
    <3>2. j0 \in DOMAIN s /\ k0 \in DOMAIN s
      BY <1>2
    <3>3. j0 = k0
      <4> HIDE DEF j0, k0
      <4> QED
        BY <3>1, <3>2 DEF IsInjective
    <3> QED
      BY <1>2, <3>3
  <2> QED
    BY <1>2, <2>1 DEF IsInjective
<1>4. ASSUME NEW x, Contains(r, x) PROVE Contains(s, x) /\ x # s[i]
  <2>1. PICK j \in 1..(Len(s) - 1) : r[j] = x
    BY <1>1, <1>4 DEF Contains
  <2>2. PICK k \in 1..Len(s) : k # i /\ s[k] = x
    BY <1>1, <1>2, <2>1
  <2> QED
    BY <1>2, <2>2 DEF Contains, IsInjective
<1>5. ASSUME NEW x, Contains(s, x), x # s[i] PROVE Contains(r, x)
  <2>1. PICK k \in 1..Len(s) : s[k] = x
    BY <1>5 DEF Contains
  <2>2. k # i
    BY <1>5, <2>1
  <2>3. CASE k < i
    <3>1. k \in 1..(Len(s) - 1) /\ r[k] = x
      BY <1>1, <1>2, <2>1, <2>3
    <3> QED
      BY <1>1, <3>1 DEF Contains
  <2>4. CASE k > i
    <3>1. (k - 1) \in 1..(Len(s) - 1) /\ ~(k - 1 < i) /\ (k - 1) + 1 = k
      BY <1>2, <2>4
    <3>2. r[k - 1] = x
      BY <1>1, <2>1, <3>1
    <3> QED
      BY <1>1, <3>1, <3>2 DEF Contains
  <2> QED
    BY <1>2, <2>2, <2>3, <2>4
<1> QED
  BY <1>1, <1>3, <1>4, <1>5 DEF r

\* Adding an order that is not in a slice keeps the slice duplicate-free.
LEMMA AppendSlice ==
  ASSUME NEW T, NEW s \in Seq(T), IsInjective(s), NEW e \in T, ~Contains(s, e)
  PROVE  /\ Append(s, e) \in Seq(T)
         /\ IsInjective(Append(s, e))
         /\ \A x : Contains(Append(s, e), x) <=> Contains(s, x) \/ x = e
<1> DEFINE r == Append(s, e)
<1>1. /\ r \in Seq(T) /\ Len(r) = Len(s) + 1 /\ Len(s) \in Nat
      /\ \A j \in 1..Len(s) : r[j] = s[j]
      /\ r[Len(s) + 1] = e
      /\ DOMAIN r = 1..(Len(s) + 1) /\ DOMAIN s = 1..Len(s)
  BY AppendProperties
<1> HIDE DEF r
<1>2. IsInjective(r)
  BY <1>1 DEF IsInjective, Contains
<1>3. \A x : Contains(r, x) <=> Contains(s, x) \/ x = e
  BY <1>1 DEF Contains
<1> QED
  BY <1>1, <1>2, <1>3 DEF r

\* The same for an insertion before the i-th order of the slice.
LEMMA InsertSlice ==
  ASSUME NEW T, NEW s \in Seq(T), IsInjective(s), NEW e \in T, ~Contains(s, e),
         NEW i \in 1..Len(s)
  PROVE  /\ InsertAt(s, i, e) \in Seq(T)
         /\ IsInjective(InsertAt(s, i, e))
         /\ \A x : Contains(InsertAt(s, i, e), x) <=> Contains(s, x) \/ x = e
<1> DEFINE r == InsertAt(s, i, e)
<1>1. /\ r \in Seq(T) /\ Len(r) = Len(s) + 1
      /\ \A j \in 1..(Len(s) + 1) :
            r[j] = IF j < i THEN s[j] ELSE IF j = i THEN e ELSE s[j - 1]
  BY InsertAtProperty
<1>2. DOMAIN r = 1..(Len(s) + 1) /\ DOMAIN s = 1..Len(s) /\ Len(s) \in Nat
  BY <1>1
<1> HIDE DEF r
<1>3. IsInjective(r)
  <2>1. ASSUME NEW j \in 1..(Len(s) + 1), NEW k \in 1..(Len(s) + 1), r[j] = r[k], j < k
        PROVE  FALSE
    <3>1. CASE k < i
      BY <1>1, <1>2, <2>1, <3>1, SMTT(30) DEF IsInjective
    <3>2. CASE k = i
      BY <1>1, <1>2, <2>1, <3>2 DEF Contains
    <3>3. CASE k > i /\ j = i
      BY <1>1, <1>2, <2>1, <3>3 DEF Contains
    <3>4. CASE k > i /\ j < i
      <4>1. s[j] = s[k - 1] /\ j \in DOMAIN s /\ k - 1 \in DOMAIN s /\ j # k - 1
        BY <1>1, <1>2, <2>1, <3>4
      <4> QED
        BY <4>1 DEF IsInjective
    <3>5. CASE k > i /\ j > i
      <4>1. s[j - 1] = s[k - 1] /\ j - 1 \in DOMAIN s /\ k - 1 \in DOMAIN s /\ j - 1 # k - 1
        BY <1>1, <1>2, <2>1, <3>5
      <4> QED
        BY <4>1 DEF IsInjective
    <3> QED
      BY <2>1, <3>1, <3>2, <3>3, <3>4, <3>5
  <2> QED
    BY <1>2, <2>1 DEF IsInjective
<1>4. ASSUME NEW x, Contains(r, x) PROVE Contains(s, x) \/ x = e
  BY <1>1, <1>2, <1>4 DEF Contains
<1>5. ASSUME NEW x, Contains(s, x) PROVE Contains(r, x)
  <2>1. PICK k \in 1..Len(s) : s[k] = x
    BY <1>5 DEF Contains
  <2>2. CASE k < i
    BY <1>1, <1>2, <2>1, <2>2 DEF Contains
  <2>3. CASE ~(k < i)
    <3>1. (k + 1) \in 1..(Len(s) + 1) /\ r[k + 1] = x
      BY <1>1, <1>2, <2>1, <2>3
    <3> QED
      BY <1>1, <3>1 DEF Contains
  <2> QED
    BY <2>2, <2>3
<1>6. Contains(r, e)
  BY <1>1, <1>2 DEF Contains
<1> QED
  BY <1>1, <1>3, <1>4, <1>5, <1>6 DEF r

\* Removing an order by its name leaves all the others.
LEMMA RemoveIdSlice ==
  ASSUME NEW T, NEW s \in Seq(T), IsInjective(s), NEW e
  PROVE  /\ removeOrderFromSlice(s, e) \in Seq(T)
         /\ IsInjective(removeOrderFromSlice(s, e))
         /\ \A x : Contains(removeOrderFromSlice(s, e), x) <=> Contains(s, x) /\ x # e
<1>1. CASE Contains(s, e)
  <2> DEFINE I == {i \in 1..Len(s) : s[i] = e}
             i == Min(I)
  <2>1. I \in SUBSET Nat /\ I # {}
    BY <1>1 DEF Contains
  <2>2. i \in 1..Len(s) /\ s[i] = e
    <3> HIDE DEF I
    <3>1. i \in I
      BY <2>1, MinProperty
    <3> QED
      BY <3>1 DEF I
  <2>3. removeOrderFromSlice(s, e) = removeOrderIndex(s, i)
    BY <2>1, <2>2 DEF removeOrderFromSlice, FirstIndex
  <2> HIDE DEF i
  <2> QED
    BY <2>2, <2>3, RemoveIndexSlice
<1>2. CASE ~Contains(s, e)
  <2>1. removeOrderFromSlice(s, e) = s
    BY <1>2 DEF removeOrderFromSlice, FirstIndex, Contains
  <2> QED
    BY <1>2, <2>1
<1> QED
  BY <1>1, <1>2

\* The elements of a sequence are its values at 1..Len.
LEMMA InRange ==
  ASSUME NEW S, NEW s \in Seq(S), NEW y
  PROVE  y \in Range(s) <=> \E i \in 1..Len(s) : y = s[i]
<1>1. DOMAIN s = 1..Len(s)
  OBVIOUS
<1> QED
  BY <1>1, Zenon DEF Range

(***************************************************************************)
(* Facts about the helpers.                                                *)
(***************************************************************************)

\* What the books hold is live, so removeInvalidBids and removeInvalidAsks
\* never find anything to remove.
LEMMA BookOrdersLive ==
  ASSUME TypeOK, BookHoldsOpenOrders, FillsAddUp,
         NEW k \in BookKeys, NEW i \in 1..Len(book[k])
  PROVE  /\ book[k][i] \in OrderIds
         /\ orders[book[k][i]] \in Order
         /\ IsLive(orders[book[k][i]])
         /\ OwnSide(orders[book[k][i]]) = k
         /\ ~InFlight(book[k][i])
<1> DEFINE id == book[k][i]
<1>1. book[k] \in Seq(OrderIds)
  BY Zenon DEF TypeOK
<1>2. id \in OrderIds
  BY <1>1
<1>3. Contains(book[k], id)
  BY Zenon DEF Contains
<1>4. Exists(id) /\ IsOpen(orders[id]) /\ ~InFlight(id) /\ OwnSide(orders[id]) = k
  BY <1>2, <1>3, Zenon DEF BookHoldsOpenOrders
<1>5. orders[id] \in Order
  BY <1>2, <1>4, Zenon DEF TypeOK, Exists
<1>6. orders[id].remaining > 0
  BY <1>2, <1>4, Zenon DEF FillsAddUp
<1> QED
  BY <1>2, <1>4, <1>5, <1>6, Zenon DEF IsLive

\* removeInvalidBids and removeInvalidAsks leave every slice as it is: dead
\* orders leave the book when they die.
LEMMA RemoveInvalidIsIdentity ==
  ASSUME TypeOK, BookHoldsOpenOrders, FillsAddUp, NEW k \in BookKeys
  PROVE  removeInvalid(book[k]) = book[k]
<1> DEFINE s == book[k]
           I == {i \in 1..Len(s) : IsLive(orders[s[i]])}
<1>1. s \in Seq(OrderIds)
  BY Zenon DEF TypeOK
<1>2. I = 1..Len(s)
  BY BookOrdersLive, Zenon
<1>3. removeInvalid(s) =
        IF (IF I # {} THEN Min(I) ELSE 0) = 0 THEN <<>>
        ELSE SubSeq(s, IF I # {} THEN Min(I) ELSE 0, Len(s))
  BY Zenon DEF removeInvalid, FirstIndex
<1> HIDE DEF I
<1>4. CASE Len(s) = 0
  <2>1. s = <<>>
    BY <1>1, <1>4
  <2>2. I = {}
    BY <1>2, <1>4
  <2> QED
    BY <1>3, <2>1, <2>2, Zenon
<1>5. CASE Len(s) # 0
  <2> HIDE DEF s
  <2>0. Len(s) \in Nat
    BY <1>1
  <2>1. 1 \in I /\ I \in SUBSET Nat /\ I # {}
    BY <1>2, <1>5, <2>0
  <2>2. Min(I) \in I /\ Min(I) <= 1
    BY <2>1, MinProperty, Zenon
  <2>3. Min(I) = 1
    BY <1>2, <2>0, <2>2
  <2>4. removeInvalid(s) = SubSeq(s, 1, Len(s))
    BY <1>3, <2>1, <2>3
  <2> QED
    BY <1>1, <2>4 DEF s
<1> QED
  BY <1>4, <1>5, Zenon

\* findCounterparty returns 0 or the place of an order that may be matched.
LEMMA FindCounterpartyProperty ==
  ASSUME NEW s \in Seq(OrderIds), NEW o, findCounterparty(s, o) # 0
  PROVE  /\ findCounterparty(s, o) \in 1..Len(s)
         /\ IsLive(orders[s[findCounterparty(s, o)]])
         /\ orders[s[findCounterparty(s, o)]].user # o.user
<1> DEFINE I == {i \in 1..Len(s) : /\ IsLive(orders[s[i]])
                                  /\ orders[s[i]].user # o.user
                                  /\ canMatch(o, orders[s[i]])}
<1>1. findCounterparty(s, o) = IF I # {} THEN Min(I) ELSE 0
  BY Zenon DEF findCounterparty, FirstIndex
<1>2. I \in SUBSET Nat
  OBVIOUS
<1>3. I # {}
  BY <1>1, Zenon
<1>4. findCounterparty(s, o) \in I
  <2> HIDE DEF I
  <2> QED
    BY <1>1, <1>2, <1>3, MinProperty, Zenon
<1> QED
  BY <1>4, Zenon

\* addToBook puts the order into the slice and keeps everything else.
LEMMA AddToBookProperty ==
  ASSUME NEW s \in Seq(OrderIds), IsInjective(s), NEW id \in OrderIds,
         ~Contains(s, id), NEW o
  PROVE  /\ addToBook(s, id, o) \in Seq(OrderIds)
         /\ IsInjective(addToBook(s, id, o))
         /\ \A x : Contains(addToBook(s, id, o), x) <=> Contains(s, x) \/ x = id
<1> DEFINE I == {i \in 1..Len(s) : SortsAfter(orders[s[i]], o)}
<1>1. addToBook(s, id, o) =
        IF (IF I # {} THEN Min(I) ELSE 0) = 0 THEN Append(s, id)
        ELSE InsertAt(s, IF I # {} THEN Min(I) ELSE 0, id)
  BY Zenon DEF addToBook, FirstIndex
<1>2. I \in SUBSET Nat /\ I \subseteq 1..Len(s)
  OBVIOUS
<1> HIDE DEF I
<1>3. CASE I = {}
  BY <1>1, <1>3, AppendSlice
<1>4. CASE I # {}
  <2>1. Min(I) \in 1..Len(s)
    BY <1>2, <1>4, MinProperty, Zenon
  <2>2. addToBook(s, id, o) = InsertAt(s, Min(I), id)
    BY <1>1, <1>4, <2>1
  <2> QED
    BY <2>1, <2>2, InsertSlice
<1> QED
  BY <1>3, <1>4, Zenon
(***************************************************************************)
(* Consistent holds initially; what steps have in common.                  *)
(***************************************************************************)

\* The initial states are consistent.
LEMMA InitConsistent == Init => Consistent
<1> SUFFICES ASSUME Init PROVE Consistent
  BY Zenon
<1>1. TypeOK
  BY ConstantsAssumption DEF Init, TypeOK, Stages
<1>2. WorkersConsistent
  BY ConstantsAssumption DEF Init, WorkersConsistent, Working
<1>3. BookHoldsOpenOrders
  BY DEF Init, BookHoldsOpenOrders, Exists, Contains
<1>4. NoDuplicates
  BY DEF Init, NoDuplicates, IsInjective
<1>5. FillsAddUp
  BY Zenon DEF Init, FillsAddUp, Exists
<1> QED
  BY <1>1, <1>2, <1>3, <1>4, <1>5, Zenon DEF Consistent

\* A step that leaves the orders, the books and the set of orders in flight
\* alone keeps what is said about them.
LEMMA BooksFrame ==
  ASSUME BookHoldsOpenOrders, NoDuplicates, FillsAddUp,
         UNCHANGED <<orders, book>>,
         \A id \in OrderIds : InFlight(id)' <=> InFlight(id)
  PROVE  BookHoldsOpenOrders' /\ NoDuplicates' /\ FillsAddUp'
<1>1. BookHoldsOpenOrders'
  BY Zenon DEF BookHoldsOpenOrders, Exists
<1>2. NoDuplicates'
  BY Zenon DEF NoDuplicates
<1>3. FillsAddUp'
  BY Zenon DEF FillsAddUp, Exists
<1> QED
  BY <1>1, <1>2, <1>3, Zenon

(***************************************************************************)
(* The steps that settle a trade, release what an order has locked, or put *)
(* an order in the book.                                                   *)
(***************************************************************************)

\* Order x is as before but for the funds it has locked.
SameButLocked(x) ==
    /\ Exists(x)' <=> Exists(x)
    /\ Exists(x) => /\ OwnSide(orders[x])' = OwnSide(orders[x])
                    /\ orders'[x].status = orders[x].status
                    /\ orders'[x].quantity = orders[x].quantity
                    /\ orders'[x].filled = orders[x].filled
                    /\ orders'[x].remaining = orders[x].remaining

\* A step that changes nothing but locked funds keeps what is said about the
\* books.
LEMMA LocksFrame ==
  ASSUME BookHoldsOpenOrders, NoDuplicates, FillsAddUp,
         UNCHANGED book,
         \A x \in OrderIds : SameButLocked(x) /\ (InFlight(x)' <=> InFlight(x))
  PROVE  BookHoldsOpenOrders' /\ NoDuplicates' /\ FillsAddUp'
<1>1. BookHoldsOpenOrders'
  BY Zenon DEF BookHoldsOpenOrders, SameButLocked, IsOpen
<1>2. NoDuplicates'
  BY Zenon DEF NoDuplicates
<1>3. FillsAddUp'
  BY Zenon DEF FillsAddUp, SameButLocked, IsOpen
<1> QED
  BY <1>1, <1>2, <1>3, Zenon

\* The ledger's clamp yields a natural number.
LEMMA AtLeastZeroIsNat == \A n \in Int : AtLeastZero(n) \in Nat
  BY DEF AtLeastZero

\* The trade a settling worker comes to next is one of the trades it made.
LEMMA SettledTradeType ==
  ASSUME TypeOK, NEW p \in Partitions, settleTradeLocked(p)
  PROVE  trades[p][at[p] + 1] \in Trade
<1>1. at[p] \in Nat /\ trades[p] \in Seq(Trade)
  BY Zenon DEF TypeOK
<1>2. at[p] < Len(trades[p])
  BY Zenon DEF settleTradeLocked
<1>3. at[p] + 1 \in 1..Len(trades[p])
  BY <1>1, <1>2
<1> QED
  BY <1>1, <1>3, ElementOfSeq, Zenon

\* Settling a trade changes nothing of an order but its locked funds.
LEMMA ReduceLockProperty ==
  ASSUME NEW o \in Order, NEW t \in Trade
  PROVE  /\ ReduceLock(o, t) \in Order
         /\ OwnSide(ReduceLock(o, t)) = OwnSide(o)
         /\ ReduceLock(o, t).status = o.status
         /\ ReduceLock(o, t).quantity = o.quantity
         /\ ReduceLock(o, t).filled = o.filled
         /\ ReduceLock(o, t).remaining = o.remaining
<1>1. t.quantity * t.price \in Nat /\ t.quantity \in Nat
  BY DEF Trade
<1>2. AtLeastZero(o.locked - (IF o.side = "BUY" THEN t.quantity * t.price ELSE t.quantity)) \in Nat
  BY <1>1 DEF AtLeastZero, Order
<1> QED
  BY <1>2, Zenon DEF ReduceLock, Order, OwnSide

\* What releaseOrderLocked does to the ledger keeps it well typed.
LEMMA ReleaseType ==
  ASSUME TypeOK, NEW o \in Order, releaseOrderLocked(o)
  PROVE  /\ cashAvailable' \in [Users -> Nat] /\ cashReserved' \in [Users -> Nat]
         /\ sharesAvailable' \in [PositionKeys -> Nat]
         /\ sharesReserved' \in [PositionKeys -> Nat]
         /\ UNCHANGED <<accounts, granted>>
<1>1. o.user \in Users /\ PositionKey(o) \in PositionKeys /\ o.locked \in Nat
  BY Zenon DEF Order, PositionKey, PositionKeys
<1>2. CASE o.side = "BUY"
  <2>1. cashReserved[o.user] \in Nat /\ cashAvailable[o.user] \in Nat
    BY <1>1, Zenon DEF TypeOK
  <2>2. /\ AtLeastZero(cashReserved[o.user] - o.locked) \in Nat
        /\ cashAvailable[o.user] + o.locked \in Nat
    BY <1>1, <2>1, AtLeastZeroIsNat
  <2>3. cashReserved' \in [Users -> Nat]
    BY <1>1, <1>2, <2>2, Zenon DEF releaseOrderLocked, TypeOK
  <2>4. cashAvailable' \in [Users -> Nat]
    BY <1>1, <1>2, <2>2, Zenon DEF releaseOrderLocked, TypeOK
  <2> QED
    BY <1>2, <2>3, <2>4, Zenon DEF releaseOrderLocked, TypeOK
<1>3. CASE o.side # "BUY"
  <2>1. sharesReserved[PositionKey(o)] \in Nat /\ sharesAvailable[PositionKey(o)] \in Nat
    BY <1>1, Zenon DEF TypeOK
  <2>2. /\ AtLeastZero(sharesReserved[PositionKey(o)] - o.locked) \in Nat
        /\ sharesAvailable[PositionKey(o)] + o.locked \in Nat
    BY <1>1, <2>1, AtLeastZeroIsNat
  <2>3. sharesReserved' \in [PositionKeys -> Nat]
    BY <1>1, <1>3, <2>2, Zenon DEF releaseOrderLocked, TypeOK
  <2>4. sharesAvailable' \in [PositionKeys -> Nat]
    BY <1>1, <1>3, <2>2, Zenon DEF releaseOrderLocked, TypeOK
  <2> QED
    BY <1>3, <2>3, <2>4, Zenon DEF releaseOrderLocked, TypeOK
<1> QED
  BY <1>2, <1>3, Zenon

(***************************************************************************)
(* Filling two orders.                                                     *)
(***************************************************************************)

\* What executePair does to the incoming and to the resting order.
LEMMA FillProperty ==
  ASSUME NEW o \in Order, NEW q \in Nat, o.remaining - q \in Nat
  PROVE  /\ FillIncoming(o, q) \in Order
         /\ FillIncoming(o, q).status = o.status
         /\ FillIncoming(o, q).quantity = o.quantity
         /\ FillIncoming(o, q).filled = o.filled + q
         /\ FillIncoming(o, q).remaining = o.remaining - q
         /\ FillResting(o, q) \in Order
         /\ FillResting(o, q).status = IF o.remaining = q THEN "FILLED" ELSE "PARTIAL"
         /\ FillResting(o, q).quantity = o.quantity
         /\ FillResting(o, q).filled = o.filled + q
         /\ FillResting(o, q).remaining = o.remaining - q
         /\ OwnSide(FillResting(o, q)) = OwnSide(o)
<1>1. o.filled + q \in Nat
  BY DEF Order
<1>2. PICK f \in Nat : f = o.filled + q
  BY <1>1, Zenon
<1>3. PICK m \in Nat : m = o.remaining - q
  BY Zenon
<1>4. PICK st \in Statuses : st = IF o.remaining = q THEN "FILLED" ELSE "PARTIAL"
  BY Zenon DEF Statuses
<1>5. FillIncoming(o, q) = [o EXCEPT !.remaining = m, !.filled = f]
  BY <1>2, <1>3, Zenon DEF FillIncoming, Order
<1>6. FillResting(o, q) = [o EXCEPT !.remaining = m, !.filled = f, !.status = st]
  BY <1>2, <1>3, <1>4, Zenon DEF FillResting, Order
<1>7. /\ FillIncoming(o, q) \in Order
      /\ FillIncoming(o, q).status = o.status
      /\ FillIncoming(o, q).quantity = o.quantity
      /\ FillIncoming(o, q).filled = f
      /\ FillIncoming(o, q).remaining = m
  BY <1>5, Zenon DEF Order
<1>8. /\ FillResting(o, q) \in Order
      /\ FillResting(o, q).status = st
      /\ FillResting(o, q).quantity = o.quantity
      /\ FillResting(o, q).filled = f
      /\ FillResting(o, q).remaining = m
  BY <1>6, Zenon DEF Order
<1>9. OwnSide(FillResting(o, q)) = OwnSide(o)
  BY <1>6, Zenon DEF Order, OwnSide
<1> QED
  BY <1>2, <1>3, <1>4, <1>7, <1>8, <1>9, Zenon

(***************************************************************************)
(* Consistent is inductive: one step of the proof for each action.         *)
(***************************************************************************)

\* Every step of every worker, and every stuttering step, keeps the engine
\* consistent.
LEMMA NextConsistent ==
  ASSUME Consistent PROVE [Next]_vars => Consistent'
<1>1. CASE UNCHANGED vars
  <2> USE <1>1 DEF vars, ledgerVars, workerVars
  <2>1. TypeOK'
    BY Zenon DEF Consistent, TypeOK
  <2>2. WorkersConsistent'
    BY Zenon DEF Consistent, WorkersConsistent, Working, Exists
  <2>3. \A id \in OrderIds : InFlight(id)' <=> InFlight(id)
    BY Zenon DEF InFlight
  <2> QED
    BY <2>1, <2>2, <2>3, BooksFrame, Zenon DEF Consistent
\* Granting a starting balance (handleUserCreated) keeps the engine consistent.
<1>2. ASSUME NEW p \in Partitions, NEW u \in Users, handleUserCreated(p, u)
      PROVE  Consistent'
  <2> USE <1>2 DEF Consistent, handleUserCreated, workerVars
  <2>1. TypeOK'
    BY ConstantsAssumption, Zenon DEF TypeOK
  <2>2. WorkersConsistent'
    BY Zenon DEF WorkersConsistent, Working, Exists
  <2>3. \A id \in OrderIds : InFlight(id)' <=> InFlight(id)
    BY Zenon DEF InFlight
  <2> QED
    BY <2>1, <2>2, <2>3, BooksFrame, Zenon
\* Opening a market (handleCreateEvent) keeps the engine consistent.
<1>3. ASSUME NEW p \in Partitions, NEW e \in Events, handleCreateEvent(p, e)
      PROVE  Consistent'
  <2> USE <1>3 DEF Consistent, handleCreateEvent, workerVars, ledgerVars
  <2>1. TypeOK'
    BY Zenon DEF TypeOK
  <2>2. WorkersConsistent'
    BY Zenon DEF WorkersConsistent, Working, Exists
  <2>3. \A id \in OrderIds : InFlight(id)' <=> InFlight(id)
    BY Zenon DEF InFlight
  <2> QED
    BY <2>1, <2>2, <2>3, BooksFrame, Zenon
\* Reserving funds for an order and storing it (handleCreateOrderCore,
\* reserveOrderLocked) keeps the engine consistent.
<1>4. ASSUME NEW p \in Partitions, NEW id \in OrderIds, NEW r \in Requests,
             AcceptOrder(p, id, r)
      PROVE  Consistent'
  <2> USE <1>4 DEF Consistent, AcceptOrder, OrderArrives
  <2>1. r \in Request
    BY ConstantsAssumption, Zenon
  <2>2. RequiredFunds(r) \in Nat
    BY <2>1, SMTT(30) DEF RequiredFunds, Request, TypeOK
  <2>3. NewOrder(r) \in Order
    BY <2>1, <2>2, Zenon DEF NewOrder, Request, Order, Statuses
  <2>4. TypeOK'
    <3>1. orders' \in [OrderIds -> Order \cup {NoOrder}]
      BY <2>3, Zenon DEF TypeOK
    <3>2. r.user \in Users /\ PositionKey(r) \in PositionKeys
      BY <2>1, Zenon DEF Request, PositionKey, PositionKeys
    <3>3. CASE r.side = "BUY"
      <4>1. cashAvailable[r.user] - RequiredFunds(r) \in Nat
        BY <2>2, <3>2, <3>3, SMTT(30) DEF HasFunds, TypeOK
      <4>2. cashReserved[r.user] + RequiredFunds(r) \in Nat
        BY <2>2, <3>2 DEF TypeOK
      <4>3. cashAvailable' \in [Users -> Nat] /\ cashReserved' \in [Users -> Nat]
        BY <3>2, <3>3, <4>1, <4>2, Zenon DEF reserveOrderLocked, TypeOK
      <4>4. /\ accounts' = accounts \cup {r.user}
            /\ UNCHANGED <<sharesAvailable, sharesReserved>>
        BY <3>3, Zenon DEF reserveOrderLocked
      <4> QED
        BY <3>1, <3>2, <4>3, <4>4, Zenon DEF TypeOK, Stages
    <3>4. CASE r.side # "BUY"
      <4>1. sharesAvailable[PositionKey(r)] - RequiredFunds(r) \in Nat
        BY <2>2, <3>2, <3>4, SMTT(30) DEF HasFunds, TypeOK
      <4>2. sharesReserved[PositionKey(r)] + RequiredFunds(r) \in Nat
        BY <2>2, <3>2 DEF TypeOK
      <4>3. /\ sharesAvailable' \in [PositionKeys -> Nat]
            /\ sharesReserved' \in [PositionKeys -> Nat]
        BY <3>2, <3>4, <4>1, <4>2, Zenon DEF reserveOrderLocked, TypeOK
      <4>4. UNCHANGED <<accounts, cashAvailable, cashReserved>>
        BY <3>4, Zenon DEF reserveOrderLocked
      <4> QED
        BY <3>1, <4>3, <4>4, Zenon DEF TypeOK, Stages
    <3> QED
      BY <3>3, <3>4, Zenon
  <2>5. /\ orders'[id] = NewOrder(r) /\ orders'[id] # NoOrder
        /\ \A x \in OrderIds : x # id => orders'[x] = orders[x]
    BY <2>3, ConstantsAssumption, Zenon DEF TypeOK
  <2>6. NewOrder(r).status = "PENDING"
    BY Zenon DEF NewOrder
  <2>7. WorkersConsistent'
    <3>1. \A q \in Partitions : Working(q) => cur[q] \in OrderIds /\ cur[q] # id
      BY DEF TypeOK, WorkersConsistent, Working, Exists
    <3>2. \A q \in Partitions : q # p => Working(q)' = Working(q) /\ cur'[q] = cur[q] /\ pc'[q] = pc[q]
      BY Zenon DEF Working, TypeOK
    <3>3. cur'[p] = id /\ pc'[p] = "created"
      BY Zenon DEF TypeOK
    <3> QED
      BY <2>5, <2>6, <3>1, <3>2, <3>3, ConstantsAssumption, SMTT(30)
         DEF TypeOK, WorkersConsistent, Working, Exists
  <2>8. InFlight(id)' /\ \A x \in OrderIds : x # id => (InFlight(x)' <=> InFlight(x))
    BY Zenon DEF TypeOK, InFlight
  <2>9. BookHoldsOpenOrders'
    BY <2>5, <2>8, SMTT(30) DEF BookHoldsOpenOrders, Exists
  <2>10. NoDuplicates'
    BY Zenon DEF NoDuplicates
  <2>11. FillsAddUp'
    <3>1. /\ NewOrder(r).filled = 0 /\ NewOrder(r).remaining = NewOrder(r).quantity
          /\ NewOrder(r).quantity \in Nat
      BY <2>1, Zenon DEF NewOrder, Request
    <3> QED
      BY <2>5, <2>6, <2>8, <3>1, SMTT(30) DEF FillsAddUp, Exists
  <2> QED
    BY <2>4, <2>7, <2>9, <2>10, <2>11, Zenon
\* Rejecting an unfunded BUY (handleCreateOrderCore) keeps the engine
\* consistent.
<1>5. ASSUME NEW p \in Partitions, NEW id \in OrderIds, NEW r \in Requests,
             RejectUnfundedBuy(p, id, r)
      PROVE  Consistent'
  <2> USE <1>5 DEF Consistent, RejectUnfundedBuy, workerVars
  <2>1. TypeOK'
    BY ConstantsAssumption, Zenon DEF TypeOK, Request
  <2>2. WorkersConsistent'
    BY Zenon DEF WorkersConsistent, Working, Exists
  <2>3. \A x \in OrderIds : InFlight(x)' <=> InFlight(x)
    BY Zenon DEF InFlight
  <2> QED
    BY <2>1, <2>2, <2>3, BooksFrame, Zenon
\* Canceling an open order (handleCancelOrder) keeps the engine consistent,
\* also when another partition's worker is waiting to match that order.
<1>6. ASSUME NEW p \in Partitions, NEW id \in OrderIds, NEW e \in CancelEvents,
             handleCancelOrder(p, id, e)
      PROVE  Consistent'
  <2> USE <1>6 DEF Consistent
  <2> DEFINE o == orders[id]
             canceled == [o EXCEPT !.status = "CANCELED", !.locked = 0]
             k == OwnSide(o)
  <2>1. /\ pc[p] = "idle" /\ mu = Unlocked
        /\ IsOpen(o)
        /\ book' = [book EXCEPT ![k] = removeOrderFromSlice(@, id)]
        /\ pc' = [pc EXCEPT ![p] = "canceled"]
        /\ cur' = [cur EXCEPT ![p] = id]
        /\ UNCHANGED <<markets, mu, trades, at, stream>>
    BY Zenon DEF handleCancelOrder
  <2>2. o \in Order /\ releaseOrderLocked(o) /\ Exists(id)
    BY Zenon DEF handleCancelOrder, TypeOK, Exists
  <2>3. k \in BookKeys
    BY <2>2, Zenon DEF OwnSide, Order, BookKeys
  <2>4. orders' = [orders EXCEPT ![id] = canceled]
    BY <2>2, Zenon DEF handleCancelOrder, TypeOK
  <2>5. /\ canceled \in Order /\ canceled.status = "CANCELED"
        /\ canceled.quantity = o.quantity /\ canceled.filled = o.filled
        /\ canceled.remaining = o.remaining
    BY <2>2, Zenon DEF Order, Statuses
  <2> HIDE DEF canceled
  <2>6. /\ orders'[id] = canceled /\ Exists(id)' /\ ~IsOpen(orders'[id])
        /\ \A x \in OrderIds : x # id => orders'[x] = orders[x]
    BY <2>4, <2>5, ConstantsAssumption, Zenon DEF TypeOK, Exists, IsOpen
  <2>7. /\ removeOrderFromSlice(book[k], id) \in Seq(OrderIds)
        /\ IsInjective(removeOrderFromSlice(book[k], id))
        /\ \A x : Contains(removeOrderFromSlice(book[k], id), x) <=> Contains(book[k], x) /\ x # id
    BY <2>3, RemoveIdSlice DEF TypeOK, NoDuplicates
  <2>8. /\ book'[k] = removeOrderFromSlice(book[k], id)
        /\ \A j \in BookKeys : j # k => book'[j] = book[j]
    BY <2>1, <2>3, Zenon DEF TypeOK
  <2> HIDE DEF k, o
  <2>9. TypeOK'
    <3>1. orders' \in [OrderIds -> Order \cup {NoOrder}]
      BY <2>4, <2>5, Zenon DEF TypeOK
    <3>2. book' \in [BookKeys -> Seq(OrderIds)]
      BY <2>1, <2>3, <2>7, Zenon DEF TypeOK
    <3>3. pc' \in [Partitions -> Stages] /\ cur' \in [Partitions -> OrderIds \cup {NoOrder}]
      BY <2>1, Zenon DEF TypeOK, Stages
    <3> QED
      BY <2>1, <2>2, <3>1, <3>2, <3>3, ReleaseType, Zenon DEF TypeOK
  <2>10. WorkersConsistent'
    <3>1. \A q \in Partitions : q # p => pc'[q] = pc[q] /\ cur'[q] = cur[q] /\ (Working(q)' <=> Working(q))
      BY <2>1, Zenon DEF TypeOK, Working
    <3>2. pc'[p] = "canceled" /\ cur'[p] = id /\ ~Working(p)'
      BY <2>1, Zenon DEF TypeOK, Working
    <3>3. \A q \in Partitions : pc[q] \notin {"matching", "settling"}
      BY <2>1, ConstantsAssumption, Zenon DEF WorkersConsistent
    <3>4. \A q \in Partitions : Working(q) => cur[q] \in OrderIds
      BY Zenon DEF WorkersConsistent, Working, TypeOK
    <3>5. \A q \in Partitions :
            /\ Working(q)' => Exists(cur[q])'
            /\ pc'[q] \in {"created", "waiting"} => orders'[cur'[q]].status \in {"PENDING", "CANCELED"}
      <4>1. \A x \in OrderIds : Exists(x) => Exists(x)'
        BY <2>6, Zenon DEF Exists
      <4>2. \A q \in Partitions : q # p /\ Working(q) => Exists(cur[q])
        BY Zenon DEF WorkersConsistent
      <4>3. \A q \in Partitions : Working(q)' => Exists(cur[q])'
        BY <3>1, <3>2, <3>4, <4>1, <4>2, Zenon DEF Exists
      <4>4. ASSUME NEW q \in Partitions, pc'[q] \in {"created", "waiting"}
            PROVE  orders'[cur'[q]].status \in {"PENDING", "CANCELED"}
        <5>1. q # p
          BY <3>2, <4>4, Zenon
        <5>2. pc[q] \in {"created", "waiting"} /\ cur'[q] = cur[q]
          BY <3>1, <4>4, <5>1, Zenon
        <5>3. cur[q] \in OrderIds
          BY <3>4, <5>2, Zenon DEF Working
        <5>4. orders[cur[q]].status \in {"PENDING", "CANCELED"}
          BY <5>2, Zenon DEF WorkersConsistent
        <5> QED
          BY <2>5, <2>6, <5>2, <5>3, <5>4, Zenon
      <4> QED
        BY <4>3, <4>4, Zenon
    <3>6. ASSUME NEW q \in Partitions
          PROVE  /\ cur'[q] = NoOrder <=> pc'[q] = "idle"
                 /\ pc'[q] \notin {"matching", "settling"}
                 /\ mu' # q
                 /\ at'[q] <= Len(trades'[q])
                 /\ pc'[q] \in {"idle", "created", "waiting", "canceled"} => trades'[q] = <<>>
      <4>1. /\ cur[q] = NoOrder <=> pc[q] = "idle"
            /\ at[q] <= Len(trades[q])
            /\ pc[q] \in {"idle", "created", "waiting", "canceled"} => trades[q] = <<>>
        BY Zenon DEF WorkersConsistent
      <4>2. at' = at /\ trades' = trades /\ mu' = Unlocked /\ mu' # q
        BY <2>1, ConstantsAssumption, Zenon
      <4>3. CASE q = p
        BY <2>1, <3>2, <4>1, <4>2, <4>3, ConstantsAssumption, Zenon
      <4>4. CASE q # p
        BY <3>1, <3>3, <4>1, <4>2, <4>4, Zenon
      <4> QED
        BY <4>3, <4>4, Zenon
    <3>7. ASSUME NEW q \in Partitions, NEW x \in Partitions,
                 Working(q)', Working(x)', cur'[q] = cur'[x]
          PROVE  q = x
      <4>1. q # p /\ x # p
        BY <3>2, <3>7, Zenon
      <4>2. Working(q) /\ Working(x) /\ cur[q] = cur[x]
        BY <3>1, <3>7, <4>1, Zenon
      <4>3. \A a, b \in Partitions : Working(a) /\ Working(b) /\ cur[a] = cur[b] => a = b
        BY Zenon DEF WorkersConsistent
      <4> QED
        BY <4>2, <4>3, Zenon
    <3> QED
      BY <3>5, <3>6, <3>7, Zenon DEF WorkersConsistent
  <2>11. \A x \in OrderIds : InFlight(x)' <=> InFlight(x)
    BY <2>1, Zenon DEF InFlight, TypeOK
  <2>12. BookHoldsOpenOrders'
    <3> SUFFICES ASSUME NEW j \in BookKeys, NEW x \in OrderIds
                 PROVE  Contains(book'[j], x) <=>
                          /\ orders'[x] # NoOrder /\ IsOpen(orders'[x])
                          /\ ~InFlight(x)' /\ OwnSide(orders'[x]) = j
      BY Zenon DEF BookHoldsOpenOrders, Exists
    <3>1. Contains(book[j], x) <=>
            orders[x] # NoOrder /\ IsOpen(orders[x]) /\ ~InFlight(x) /\ OwnSide(orders[x]) = j
      BY Zenon DEF BookHoldsOpenOrders, Exists
    <3>2. CASE x # id
      <4>1. Contains(book'[j], x) <=> Contains(book[j], x)
        BY <2>7, <2>8, <3>2, Zenon
      <4> QED
        BY <2>6, <2>11, <3>1, <3>2, <4>1, Zenon
    <3>3. CASE x = id
      <4>1. ~Contains(book'[j], id)
        BY <2>7, <2>8, <3>1, <3>3, Zenon DEF k, o
      <4> QED
        BY <2>6, <3>3, <4>1, Zenon
    <3> QED
      BY <3>2, <3>3, Zenon
  <2>13. NoDuplicates'
    BY <2>7, <2>8, Zenon DEF NoDuplicates
  <2>14. FillsAddUp'
    <3> SUFFICES ASSUME NEW x \in OrderIds, orders'[x] # NoOrder
                 PROVE  /\ orders'[x].filled + orders'[x].remaining = orders'[x].quantity
                        /\ orders'[x].status = "FILLED" => orders'[x].remaining = 0
                        /\ orders'[x].status = "PARTIAL" => orders'[x].filled > 0
                        /\ IsOpen(orders'[x]) /\ ~InFlight(x)' => orders'[x].remaining > 0
      BY Zenon DEF FillsAddUp, Exists
    <3>1. CASE x # id
      BY <2>6, <2>11, <3>1, Zenon DEF FillsAddUp, Exists
    <3>2. CASE x = id
      BY <2>2, <2>5, <2>6, <3>2, Zenon DEF FillsAddUp, o
    <3> QED
      BY <3>1, <3>2, Zenon
  <2> QED
    BY <2>9, <2>10, <2>12, <2>13, <2>14, Zenon
\* Emitting ORDER_CREATED, with e.mu unlocked, keeps the engine consistent.
<1>7. ASSUME NEW p \in Partitions, EmitOrderCreated(p)
      PROVE  Consistent'
  <2> USE <1>7 DEF Consistent, EmitOrderCreated, ledgerVars
  <2>1. TypeOK'
    <3>1. cur[p] \in OrderIds
      BY Zenon DEF TypeOK, WorkersConsistent
    <3>2. CreatedEvent(cur[p]) \in StreamEvent
      BY <3>1, Zenon DEF CreatedEvent, StreamEvent
    <3>3. stream' \in Seq(StreamEvent)
      BY <3>2 DEF TypeOK
    <3> QED
      BY <3>3, Zenon DEF TypeOK, Stages
  <2>2. WorkersConsistent'
    BY DEF TypeOK, WorkersConsistent, Working, Exists
  <2>3. \A id \in OrderIds : InFlight(id)' <=> InFlight(id)
    BY Zenon DEF TypeOK, InFlight
  <2> QED
    BY <2>1, <2>2, <2>3, BooksFrame, Zenon
\* Dropping an order whose ORDER_CREATED could not be emitted keeps the engine
\* consistent: the order was in no book yet.
<1>8. ASSUME NEW p \in Partitions, EmitOrderCreatedFails(p)
      PROVE  Consistent'
  <2> USE <1>8 DEF Consistent, EmitOrderCreatedFails, ledgerVars
  <2>1. TypeOK'
    BY Zenon DEF TypeOK, Stages
  <2>0. cur[p] \in OrderIds /\ InFlight(cur[p])
    BY Zenon DEF TypeOK, WorkersConsistent, InFlight
  <2>2. WorkersConsistent'
    BY ConstantsAssumption DEF TypeOK, WorkersConsistent, Working, Exists
  <2>3. \A id \in OrderIds : id # cur[p] => (InFlight(id)' <=> InFlight(id))
    BY Zenon DEF TypeOK, InFlight
  <2>4. orders'[cur[p]] = NoOrder /\ \A id \in OrderIds : id # cur[p] => orders'[id] = orders[id]
    BY <2>0, Zenon DEF TypeOK
  <2>5. BookHoldsOpenOrders'
    BY <2>0, <2>3, <2>4 DEF BookHoldsOpenOrders, Exists
  <2>6. NoDuplicates'
    BY Zenon DEF NoDuplicates
  <2>7. FillsAddUp'
    BY <2>3, <2>4, Zenon DEF FillsAddUp, Exists
  <2> QED
    BY <2>1, <2>2, <2>5, <2>6, <2>7, Zenon
\* Locking e.mu in matchOrder keeps the engine consistent: the order that is
\* matched is PENDING, since only a cancellation could have changed it.
<1>9. ASSUME NEW p \in Partitions, StartMatch(p)
      PROVE  Consistent'
  <2> USE <1>9 DEF Consistent, StartMatch, ledgerVars
  <2>1. TypeOK'
    BY Zenon DEF TypeOK, Stages
  <2>2. WorkersConsistent'
    BY ConstantsAssumption DEF TypeOK, WorkersConsistent, Working, Exists
  <2>3. \A id \in OrderIds : InFlight(id)' <=> InFlight(id)
    BY Zenon DEF TypeOK, InFlight
  <2> QED
    BY <2>1, <2>2, <2>3, BooksFrame, Zenon
\* matchOrder's early return for a canceled order keeps the engine consistent.
<1>10. ASSUME NEW p \in Partitions, SkipCanceled(p)
       PROVE  Consistent'
  <2> USE <1>10 DEF Consistent, SkipCanceled, ledgerVars
  <2>1. TypeOK'
    BY Zenon DEF TypeOK, Stages
  <2>2. WorkersConsistent'
    BY ConstantsAssumption DEF TypeOK, WorkersConsistent, Working, Exists
  <2>3. \A id \in OrderIds : id # cur[p] => (InFlight(id)' <=> InFlight(id))
    BY Zenon DEF TypeOK, InFlight
  <2>4. ~IsOpen(orders[cur[p]])
    BY Zenon DEF IsOpen
  <2>5. BookHoldsOpenOrders'
    BY <2>3, <2>4, Zenon DEF BookHoldsOpenOrders, Exists
  <2>6. NoDuplicates'
    BY Zenon DEF NoDuplicates
  <2>7. FillsAddUp'
    BY <2>3, <2>4, Zenon DEF FillsAddUp, Exists
  <2> QED
    BY <2>1, <2>2, <2>5, <2>6, <2>7, Zenon
\* One iteration of matchAgainstBook (findCounterparty, executePair) keeps the
\* engine consistent.
<1>11. ASSUME NEW p \in Partitions, executePair(p)
       PROVE  Consistent'
  <2> USE <1>11 DEF Consistent
  <2>0. PICK id \in OrderIds : id = cur[p]
    BY Zenon DEF executePair, TypeOK, WorkersConsistent
  <2>1. pc[p] = "matching" /\ UNCHANGED <<markets, ledgerVars, mu, pc, cur, at, stream>>
    BY Zenon DEF executePair
  <2> DEFINE incoming == orders[id]
             k == OtherSide(incoming)
             s == book[k]
             i == findCounterparty(s, incoming)
  <2>2. /\ incoming \in Order /\ incoming.status = "PENDING" /\ InFlight(id)
        /\ incoming.remaining > 0
    <3>1. incoming \in Order /\ incoming.status = "PENDING"
      BY <2>0, <2>1 DEF TypeOK, WorkersConsistent, Working, Exists
    <3>2. InFlight(id)
      BY <2>0, <2>1, Zenon DEF InFlight
    <3>3. incoming.remaining > 0
      BY <2>0, Zenon DEF executePair
    <3> QED
      BY <3>1, <3>2, <3>3, Zenon
  <2>3. k \in BookKeys /\ s \in Seq(OrderIds) /\ IsInjective(s)
    BY <2>2, Zenon DEF OtherSide, Order, BookKeys, Sides, TypeOK, NoDuplicates
  <2>4. removeInvalid(s) = s
    BY <2>3, RemoveInvalidIsIdentity, Zenon
  <2>5. i # 0
    BY <2>0, <2>4, Zenon DEF executePair
  <2>6. i \in 1..Len(s)
    BY <2>3, <2>5, FindCounterpartyProperty, Zenon
  <2>7. PICK makerId \in OrderIds : makerId = s[i]
    BY <2>3, <2>6, ElementOfSeq, Zenon
  <2> DEFINE maker == orders[makerId]
  <2>8. maker \in Order /\ IsLive(maker) /\ OwnSide(maker) = k /\ ~InFlight(makerId)
    BY <2>3, <2>6, <2>7, BookOrdersLive, Zenon
  <2>9. makerId # id
    BY <2>2, <2>8, Zenon
  <2>10. PICK q \in Nat : /\ q = Smaller(incoming.remaining, maker.remaining) /\ q > 0
                         /\ incoming.remaining - q \in Nat /\ maker.remaining - q \in Nat
    <3>1. PICK a \in Nat, b \in Nat : a = incoming.remaining /\ b = maker.remaining
      BY <2>2, <2>8, Zenon DEF Order
    <3>2. a > 0 /\ b > 0
      BY <2>2, <2>8, <3>1, Zenon DEF IsLive
    <3>3. Smaller(a, b) \in Nat /\ Smaller(a, b) > 0 /\ a - Smaller(a, b) \in Nat /\ b - Smaller(a, b) \in Nat
      BY <3>2 DEF Smaller
    <3> QED
      BY <3>1, <3>3, Zenon
  <2>11. q > 0 /\ incoming.remaining - q \in Nat /\ maker.remaining - q \in Nat
    BY <2>10, Zenon
  <2> DEFINE newIncoming == FillIncoming(incoming, q)
             newMaker == FillResting(maker, q)
  <2>12. /\ newIncoming \in Order /\ newIncoming.status = "PENDING"
         /\ newIncoming.quantity = incoming.quantity
         /\ newIncoming.filled = incoming.filled + q
         /\ newIncoming.remaining = incoming.remaining - q
    <3>1. PICK o \in Order : o = incoming
      BY <2>2, Zenon
    <3>2. o.remaining - q \in Nat
      BY <2>11, <3>1, Zenon
    <3>3. /\ FillIncoming(o, q) \in Order /\ FillIncoming(o, q).status = o.status
          /\ FillIncoming(o, q).quantity = o.quantity
          /\ FillIncoming(o, q).filled = o.filled + q
          /\ FillIncoming(o, q).remaining = o.remaining - q
      BY <3>2, FillProperty
    <3> QED
      BY <2>2, <3>1, <3>3, Zenon
  <2>13. /\ newMaker \in Order
         /\ newMaker.status = IF maker.remaining = q THEN "FILLED" ELSE "PARTIAL"
         /\ newMaker.quantity = maker.quantity
         /\ newMaker.filled = maker.filled + q
         /\ newMaker.remaining = maker.remaining - q
         /\ OwnSide(newMaker) = k
    <3>1. PICK o \in Order : o = maker
      BY <2>8, Zenon
    <3>2. o.remaining - q \in Nat
      BY <2>11, <3>1, Zenon
    <3>3. /\ FillResting(o, q) \in Order
          /\ FillResting(o, q).status = IF o.remaining = q THEN "FILLED" ELSE "PARTIAL"
          /\ FillResting(o, q).quantity = o.quantity
          /\ FillResting(o, q).filled = o.filled + q
          /\ FillResting(o, q).remaining = o.remaining - q
          /\ OwnSide(FillResting(o, q)) = OwnSide(o)
      BY <3>2, FillProperty
    <3> QED
      BY <2>8, <3>1, <3>3, Zenon
  <2>14. orders' = [orders EXCEPT ![id] = newIncoming, ![makerId] = newMaker]
    BY <2>0, <2>4, <2>7, <2>9, <2>10, Zenon DEF executePair, TypeOK
  <2>15. book' = [book EXCEPT ![k] = IF maker.remaining = q THEN removeOrderIndex(s, i) ELSE s]
    BY <2>0, <2>4, <2>7, <2>10, Zenon DEF executePair
  <2>16. trades' = [trades EXCEPT ![p] =
                      Append(@, buildTrade(id, incoming, makerId, maker, q))]
    BY <2>0, <2>4, <2>7, <2>10, Zenon DEF executePair
  <2>17. buildTrade(id, incoming, makerId, maker, q) \in Trade
    BY <2>2, <2>8, Zenon DEF buildTrade, Order, Trade
  <2>18. /\ removeOrderIndex(s, i) \in Seq(OrderIds)
         /\ IsInjective(removeOrderIndex(s, i))
         /\ \A x : Contains(removeOrderIndex(s, i), x) <=> Contains(s, x) /\ x # makerId
    BY <2>3, <2>6, <2>7, RemoveIndexSlice, Zenon
  <2>19. Contains(s, makerId)
    BY <2>6, <2>7, Zenon DEF Contains
  <2> HIDE DEF newIncoming, newMaker, i
  <2>20. /\ orders'[id] = newIncoming /\ orders'[makerId] = newMaker
         /\ \A x \in OrderIds : x # id /\ x # makerId => orders'[x] = orders[x]
    BY <2>9, <2>14, Zenon DEF TypeOK
  <2>21. \A x \in OrderIds : orders'[x] # NoOrder <=> orders[x] # NoOrder
    BY <2>2, <2>8, <2>12, <2>13, <2>20, ConstantsAssumption, Zenon
  <2>22. /\ book'[k] = IF maker.remaining = q THEN removeOrderIndex(s, i) ELSE s
         /\ \A j \in BookKeys : j # k => book'[j] = book[j]
    BY <2>3, <2>15, Zenon DEF TypeOK
  <2> HIDE DEF k, s, incoming, maker
  <2>23. TypeOK'
    <3>1. orders' \in [OrderIds -> Order \cup {NoOrder}]
      BY <2>12, <2>13, <2>14, Zenon DEF TypeOK
    <3>2. book' \in [BookKeys -> Seq(OrderIds)]
      BY <2>3, <2>15, <2>18, Zenon DEF TypeOK
    <3>3. trades' \in [Partitions -> Seq(Trade)]
      <4>1. Append(trades[p], buildTrade(id, incoming, makerId, maker, q)) \in Seq(Trade)
        BY <2>17, AppendProperties, Zenon DEF TypeOK
      <4> QED
        BY <2>16, <4>1, Zenon DEF TypeOK
    <3> QED
      BY <2>1, <3>1, <3>2, <3>3, Zenon DEF TypeOK, ledgerVars
  <2>24. WorkersConsistent'
    <3>1. \A r \in Partitions : at[r] <= Len(trades'[r])
      <4>1. at[p] = 0
        BY <2>1, Zenon DEF WorkersConsistent
      <4>2. trades'[p] \in Seq(Trade)
        BY <2>23, Zenon DEF TypeOK
      <4>3. \A r \in Partitions : r # p => trades'[r] = trades[r]
        BY <2>16, Zenon DEF TypeOK
      <4>4. at[p] <= Len(trades'[p])
        BY <4>1, <4>2
      <4> QED
        BY <4>3, <4>4, Zenon DEF WorkersConsistent
    <3>2. \A r \in Partitions :
            /\ pc[r] \in {"idle", "created", "waiting", "canceled"} => trades'[r] = <<>>
      BY <2>1, <2>16, Zenon DEF WorkersConsistent, TypeOK
    <3>3. \A r \in Partitions : /\ Working(r)' <=> Working(r)
                                /\ Working(r) => cur[r] \in OrderIds
      BY <2>1, Zenon DEF WorkersConsistent, Working, TypeOK
    <3>4. ASSUME NEW r \in Partitions, pc[r] \in {"created", "waiting", "matching"}
          PROVE  orders'[cur[r]].status = orders[cur[r]].status
      <4>1. cur[r] \in OrderIds
        BY <3>3, <3>4, Zenon DEF Working
      <4>2. cur[r] # makerId
        BY <2>8, <3>4, Zenon DEF InFlight
      <4> QED
        BY <2>2, <2>12, <2>20, <4>1, <4>2, Zenon DEF incoming
    <3>5. \A r \in Partitions : Working(r) => Exists(cur[r])'
      BY <2>1, <2>21, <3>3, Zenon DEF WorkersConsistent, Exists
    <3>6. ASSUME NEW r \in Partitions
          PROVE  /\ cur'[r] = NoOrder <=> pc'[r] = "idle"
                 /\ Working(r)' => Exists(cur[r])'
                 /\ mu' = r <=> pc'[r] \in {"matching", "settling"}
                 /\ at'[r] <= Len(trades'[r])
                 /\ pc'[r] \in {"idle", "created", "waiting", "canceled"} => trades'[r] = <<>>
                 /\ pc'[r] \in {"created", "waiting"} =>
                       orders'[cur'[r]].status \in {"PENDING", "CANCELED"}
                 /\ pc'[r] = "matching" => at'[r] = 0 /\ orders'[cur'[r]].status = "PENDING"
      <4>1. cur' = cur /\ pc' = pc /\ mu' = mu /\ at' = at
        BY <2>1, Zenon
      <4>2. /\ cur[r] = NoOrder <=> pc[r] = "idle"
            /\ mu = r <=> pc[r] \in {"matching", "settling"}
            /\ pc[r] \in {"created", "waiting"} =>
                  orders[cur[r]].status \in {"PENDING", "CANCELED"}
            /\ pc[r] = "matching" => at[r] = 0 /\ orders[cur[r]].status = "PENDING"
        BY Zenon DEF WorkersConsistent
      <4>3. Working(r)' => Exists(cur[r])'
        BY <3>3, <3>5, Zenon
      <4>4. pc[r] \in {"created", "waiting", "matching"} =>
              orders'[cur[r]].status = orders[cur[r]].status
        BY <3>4, Zenon
      <4> QED
        BY <3>1, <3>2, <4>1, <4>2, <4>3, <4>4, Zenon
    <3>7. ASSUME NEW q1 \in Partitions, NEW q2 \in Partitions,
                 Working(q1)', Working(q2)', cur'[q1] = cur'[q2]
          PROVE  q1 = q2
      BY <2>1, <3>3, <3>7, Zenon DEF WorkersConsistent
    <3> QED
      BY <3>6, <3>7, Zenon DEF WorkersConsistent
  <2>25. \A x \in OrderIds : InFlight(x)' <=> InFlight(x)
    BY <2>1, Zenon DEF InFlight
  <2>26. BookHoldsOpenOrders'
    <3> SUFFICES ASSUME NEW j \in BookKeys, NEW x \in OrderIds
                 PROVE  Contains(book'[j], x) <=>
                          /\ orders'[x] # NoOrder /\ IsOpen(orders'[x])
                          /\ ~InFlight(x)' /\ OwnSide(orders'[x]) = j
      BY Zenon DEF BookHoldsOpenOrders, Exists
    <3>1. Contains(book[j], x) <=>
            orders[x] # NoOrder /\ IsOpen(orders[x]) /\ ~InFlight(x) /\ OwnSide(orders[x]) = j
      BY Zenon DEF BookHoldsOpenOrders, Exists
    <3>2. CASE x = id
      <4>1. Contains(book'[j], x) <=> Contains(book[j], x)
        BY <2>9, <2>18, <2>22, <3>2, Zenon DEF s
      <4> QED
        BY <2>2, <2>25, <3>1, <3>2, <4>1, Zenon
    <3>3. CASE x = makerId
      <4>1. Contains(book[j], x) <=> j = k
        BY <2>8, <2>19, <3>1, <3>3, Zenon DEF maker, s
      <4>2. Contains(book'[j], x) <=> j = k /\ maker.remaining # q
        BY <2>18, <2>22, <3>3, <4>1, Zenon DEF s
      <4>3. /\ orders'[x] = newMaker /\ newMaker # NoOrder /\ ~InFlight(x)'
        BY <2>8, <2>13, <2>20, <2>25, <3>3, ConstantsAssumption, Zenon
      <4> QED
        BY <2>13, <4>2, <4>3, Zenon DEF IsOpen
    <3>4. CASE x # id /\ x # makerId
      <4>1. Contains(book'[j], x) <=> Contains(book[j], x)
        BY <2>18, <2>22, <3>4, Zenon DEF s
      <4> QED
        BY <2>20, <2>25, <3>1, <3>4, <4>1, Zenon
    <3> QED
      BY <3>2, <3>3, <3>4, Zenon
  <2>27. NoDuplicates'
    BY <2>3, <2>18, <2>22, Zenon DEF NoDuplicates
  <2>28. FillsAddUp'
    <3> SUFFICES ASSUME NEW x \in OrderIds, orders'[x] # NoOrder
                 PROVE  /\ orders'[x].filled + orders'[x].remaining = orders'[x].quantity
                        /\ orders'[x].status = "FILLED" => orders'[x].remaining = 0
                        /\ orders'[x].status = "PARTIAL" => orders'[x].filled > 0
                        /\ IsOpen(orders'[x]) /\ ~InFlight(x)' => orders'[x].remaining > 0
      BY Zenon DEF FillsAddUp, Exists
    <3>1. CASE x = id
      <4>1. incoming.filled + incoming.remaining = incoming.quantity
        BY <2>2, ConstantsAssumption, Zenon DEF FillsAddUp, incoming, Exists
      <4>2. /\ incoming.filled \in Nat /\ incoming.remaining \in Nat
        BY <2>2, Zenon DEF Order
      <4>3. newIncoming.filled + newIncoming.remaining = newIncoming.quantity
        BY <2>11, <2>12, <4>1, <4>2
      <4>4. orders'[x] = newIncoming /\ InFlight(x)'
        BY <2>2, <2>20, <2>25, <3>1, Zenon
      <4> QED
        BY <2>12, <4>3, <4>4, Zenon
    <3>2. CASE x = makerId
      <4>1. maker.filled + maker.remaining = maker.quantity
        BY <2>8, ConstantsAssumption, Zenon DEF FillsAddUp, maker, Exists
      <4>2. /\ maker.filled \in Nat /\ maker.remaining \in Nat
        BY <2>8, Zenon DEF Order
      <4>3. newMaker.filled + newMaker.remaining = newMaker.quantity /\ newMaker.filled > 0
        BY <2>11, <2>13, <4>1, <4>2
      <4>4. /\ newMaker.status = "FILLED" => newMaker.remaining = 0
            /\ IsOpen(newMaker) => newMaker.remaining > 0
        BY <2>11, <2>13, <4>2 DEF IsOpen
      <4>5. orders'[x] = newMaker
        BY <2>20, <3>2, Zenon
      <4> QED
        BY <4>3, <4>4, <4>5, Zenon
    <3>3. CASE x # id /\ x # makerId
      BY <2>20, <2>25, <3>3, Zenon DEF FillsAddUp, Exists
    <3> QED
      BY <3>1, <3>2, <3>3, Zenon
  <2> QED
    BY <2>23, <2>24, <2>26, <2>27, <2>28, Zenon
\* Deciding the taker's status and letting its rest join the book (matchOrder,
\* addToBook) keeps the engine consistent.
<1>12. ASSUME NEW p \in Partitions, FinishMatch(p)
       PROVE  Consistent'
  <2> USE <1>12 DEF Consistent
  <2>0. PICK id \in OrderIds : id = cur[p]
    BY Zenon DEF FinishMatch, TypeOK, WorkersConsistent
  <2> DEFINE o == orders[id]
             status == StatusAfterMatch(o)
             decided == [o EXCEPT !.status = status]
             k == OwnSide(o)
  <2>1. /\ pc[p] = "matching"
        /\ pc' = [pc EXCEPT ![p] = "settling"]
        /\ UNCHANGED <<markets, ledgerVars, mu, cur, trades, at, stream>>
    BY Zenon DEF FinishMatch
  <2>2. o \in Order /\ o.status = "PENDING" /\ Exists(id) /\ InFlight(id)
    BY <2>0, <2>1, SMTT(30) DEF TypeOK, WorkersConsistent, Working, Exists, InFlight
  <2>3. k \in BookKeys /\ OtherSide(o) \in BookKeys
    BY <2>2, Zenon DEF OwnSide, OtherSide, Order, BookKeys, Sides
  <2>4. /\ status \in Statuses
        /\ status = "FILLED" => o.remaining = 0
        /\ status = "PARTIAL" => o.filled > 0
        /\ status \in {"PENDING", "PARTIAL"} => o.remaining > 0
    BY <2>2 DEF StatusAfterMatch, Order, Statuses
  <2>5. /\ decided \in Order /\ decided.status = status
        /\ decided.quantity = o.quantity /\ decided.filled = o.filled
        /\ decided.remaining = o.remaining /\ OwnSide(decided) = k
    BY <2>2, <2>4, Zenon DEF Order, OwnSide
  <2>6. orders' = [orders EXCEPT ![id] = decided]
    BY <2>0, <2>2, Zenon DEF FinishMatch, TypeOK
  <2>7. book' = IF status \in {"PENDING", "PARTIAL"}
                THEN [book EXCEPT ![k] = addToBook(@, id, o)] ELSE book
    <3>1. removeInvalid(book[OtherSide(o)]) = book[OtherSide(o)]
      BY <2>3, RemoveInvalidIsIdentity, Zenon
    <3>2. [book EXCEPT ![OtherSide(o)] = book[OtherSide(o)]] = book
      BY <2>3, Zenon DEF TypeOK
    <3> QED
      BY <2>0, <3>1, <3>2, Zenon DEF FinishMatch
  <2> HIDE DEF decided, status
  <2>8. /\ orders'[id] = decided /\ Exists(id)'
        /\ \A x \in OrderIds : x # id => orders'[x] = orders[x]
    BY <2>5, <2>6, ConstantsAssumption, Zenon DEF TypeOK, Exists
  <2>9. \A j \in BookKeys : ~Contains(book[j], id)
    BY <2>2, Zenon DEF BookHoldsOpenOrders
  <2>10. /\ addToBook(book[k], id, o) \in Seq(OrderIds)
         /\ IsInjective(addToBook(book[k], id, o))
         /\ \A x : Contains(addToBook(book[k], id, o), x) <=> Contains(book[k], x) \/ x = id
    BY <2>3, <2>9, AddToBookProperty, Zenon DEF TypeOK, NoDuplicates
  <2> HIDE DEF o, k
  <2>11. /\ \A j \in BookKeys : j # k \/ status \notin {"PENDING", "PARTIAL"} => book'[j] = book[j]
         /\ status \in {"PENDING", "PARTIAL"} => book'[k] = addToBook(book[k], id, o)
    BY <2>3, <2>7, Zenon DEF TypeOK
  <2>12. TypeOK'
    <3>1. orders' \in [OrderIds -> Order \cup {NoOrder}]
      BY <2>5, <2>6, Zenon DEF TypeOK
    <3>2. book' \in [BookKeys -> Seq(OrderIds)]
      BY <2>3, <2>7, <2>10, Zenon DEF TypeOK
    <3> QED
      BY <2>1, <3>1, <3>2, Zenon DEF TypeOK, Stages, ledgerVars
  <2>13. /\ \A q \in Partitions : Working(q) => cur[q] \in OrderIds
         /\ \A q \in Partitions : q # p /\ Working(q) => cur[q] # id
         /\ Working(p)
    BY <2>0, <2>1, Zenon DEF TypeOK, WorkersConsistent, Working
  <2>14. WorkersConsistent'
    <3>1. \A q \in Partitions : q # p => pc'[q] = pc[q] /\ (Working(q)' <=> Working(q))
      BY <2>1, Zenon DEF TypeOK, Working
    <3>2. pc'[p] = "settling" /\ Working(p)'
      BY <2>1, Zenon DEF TypeOK, Working
    <3>3. \A q \in Partitions :
            /\ Working(q)' => Exists(cur[q])'
            /\ q # p /\ Working(q) => orders'[cur[q]] = orders[cur[q]]
      <4> TAKE q \in Partitions
      <4>1. cur' = cur /\ (Working(q) => Exists(cur[q]) /\ cur[q] \in OrderIds)
        BY <2>1, <2>13, Zenon DEF WorkersConsistent
      <4>2. CASE q = p
        BY <2>0, <2>8, <4>1, <4>2, Zenon DEF Exists
      <4>3. CASE q # p
        <5>1. Working(q) => orders'[cur[q]] = orders[cur[q]]
          BY <2>8, <2>13, <4>1, <4>3, Zenon
        <5> QED
          BY <3>1, <4>1, <4>3, <5>1, Zenon DEF Exists
      <4> QED
        BY <4>2, <4>3, Zenon
    <3>4. ASSUME NEW q \in Partitions
          PROVE  /\ cur'[q] = NoOrder <=> pc'[q] = "idle"
                 /\ Working(q)' => Exists(cur[q])'
                 /\ mu' = q <=> pc'[q] \in {"matching", "settling"}
                 /\ at'[q] <= Len(trades'[q])
                 /\ pc'[q] \in {"idle", "created", "waiting", "canceled"} => trades'[q] = <<>>
                 /\ pc'[q] \in {"created", "waiting"} =>
                       orders'[cur'[q]].status \in {"PENDING", "CANCELED"}
                 /\ pc'[q] = "matching" => at'[q] = 0 /\ orders'[cur'[q]].status = "PENDING"
      <4>1. /\ cur[q] = NoOrder <=> pc[q] = "idle"
            /\ mu = q <=> pc[q] \in {"matching", "settling"}
            /\ at[q] <= Len(trades[q])
            /\ pc[q] \in {"idle", "created", "waiting", "canceled"} => trades[q] = <<>>
            /\ pc[q] \in {"created", "waiting"} =>
                  orders[cur[q]].status \in {"PENDING", "CANCELED"}
            /\ pc[q] = "matching" => at[q] = 0 /\ orders[cur[q]].status = "PENDING"
        BY Zenon DEF WorkersConsistent
      <4>2. cur' = cur /\ mu' = mu /\ at' = at /\ trades' = trades
        BY <2>1, Zenon
      <4>3. Working(q)' => Exists(cur[q])'
        BY <3>3, Zenon
      <4>4. CASE q = p
        <5>1. pc[q] = "matching" /\ pc'[q] = "settling"
          BY <2>1, <3>2, <4>4, Zenon
        <5> QED
          BY <4>1, <4>2, <4>3, <5>1, Zenon
      <4>5. CASE q # p
        <5>1. pc'[q] = pc[q] /\ (Working(q) => orders'[cur[q]] = orders[cur[q]])
          BY <3>1, <3>3, <4>5, Zenon
        <5>2. pc[q] \in {"created", "waiting", "matching"} => Working(q)
          BY Zenon DEF Working
        <5> QED
          BY <4>1, <4>2, <4>3, <5>1, <5>2, Zenon
      <4> QED
        BY <4>4, <4>5, Zenon
    <3>5. ASSUME NEW q \in Partitions, NEW x \in Partitions,
                 Working(q)', Working(x)', cur'[q] = cur'[x]
          PROVE  q = x
      <4>1. Working(q) /\ Working(x)
        BY <2>13, <3>1, <3>5, Zenon
      <4> QED
        BY <2>1, <3>5, <4>1, Zenon DEF WorkersConsistent
    <3> QED
      BY <3>4, <3>5, Zenon DEF WorkersConsistent
  <2>15. /\ ~InFlight(id)'
         /\ \A x \in OrderIds : x # id => (InFlight(x)' <=> InFlight(x))
    BY <2>0, <2>1, <2>13, Zenon DEF InFlight, TypeOK, Working
  <2>16. BookHoldsOpenOrders'
    <3> SUFFICES ASSUME NEW j \in BookKeys, NEW x \in OrderIds
                 PROVE  Contains(book'[j], x) <=>
                          /\ orders'[x] # NoOrder /\ IsOpen(orders'[x])
                          /\ ~InFlight(x)' /\ OwnSide(orders'[x]) = j
      BY Zenon DEF BookHoldsOpenOrders, Exists
    <3>1. Contains(book[j], x) <=>
            orders[x] # NoOrder /\ IsOpen(orders[x]) /\ ~InFlight(x) /\ OwnSide(orders[x]) = j
      BY Zenon DEF BookHoldsOpenOrders, Exists
    <3>2. CASE x # id
      <4>1. Contains(book'[j], x) <=> Contains(book[j], x)
        BY <2>10, <2>11, <3>2, Zenon
      <4> QED
        BY <2>8, <2>15, <3>1, <3>2, <4>1, Zenon
    <3>3. CASE x = id
      <4>1. Contains(book'[j], id) <=> status \in {"PENDING", "PARTIAL"} /\ j = k
        BY <2>9, <2>10, <2>11, Zenon
      <4> QED
        BY <2>5, <2>8, <2>15, <3>3, <4>1, Zenon DEF Exists, IsOpen
    <3> QED
      BY <3>2, <3>3, Zenon
  <2>17. NoDuplicates'
    BY <2>10, <2>11, Zenon DEF NoDuplicates
  <2>18. FillsAddUp'
    <3> SUFFICES ASSUME NEW x \in OrderIds, orders'[x] # NoOrder
                 PROVE  /\ orders'[x].filled + orders'[x].remaining = orders'[x].quantity
                        /\ orders'[x].status = "FILLED" => orders'[x].remaining = 0
                        /\ orders'[x].status = "PARTIAL" => orders'[x].filled > 0
                        /\ IsOpen(orders'[x]) /\ ~InFlight(x)' => orders'[x].remaining > 0
      BY Zenon DEF FillsAddUp, Exists
    <3>1. CASE x # id
      BY <2>8, <2>15, <3>1, Zenon DEF FillsAddUp, Exists
    <3>2. CASE x = id
      <4>1. o.filled + o.remaining = o.quantity
        BY <2>2, Zenon DEF FillsAddUp, o
      <4> QED
        BY <2>4, <2>5, <2>8, <3>2, <4>1, Zenon DEF IsOpen
    <3> QED
      BY <3>1, <3>2, Zenon
  <2> QED
    BY <2>12, <2>14, <2>16, <2>17, <2>18, Zenon
\* Settling one trade (settleTradeLocked) keeps the engine consistent.
<1>13. ASSUME NEW p \in Partitions, settleTradeLocked(p)
       PROVE  Consistent'
  <2> USE <1>13 DEF Consistent
  <2>0. pc[p] = "settling" /\ at[p] < Len(trades[p])
    BY Zenon DEF settleTradeLocked
  <2>15. PICK t \in Trade : t = trades[p][at[p] + 1]
    BY SettledTradeType, Zenon
  <2>2. /\ t.buyer \in Users /\ t.seller \in Users /\ t.quantity \in Nat
        /\ <<t.buyer, t.event, t.outcome>> \in PositionKeys
        /\ <<t.seller, t.event, t.outcome>> \in PositionKeys
    BY Zenon DEF Trade, PositionKeys
  <2>16. PICK cost \in Nat : cost = t.quantity * t.price
    BY SMTT(30) DEF Trade
  <2>11. /\ cashReserved' = [cashReserved EXCEPT ![t.buyer] = AtLeastZero(@ - cost)]
        /\ cashAvailable' = [cashAvailable EXCEPT ![t.seller] = @ + cost]
    BY <2>15, <2>16, Zenon DEF settleTradeLocked
  <2>12. /\ sharesAvailable' = [sharesAvailable EXCEPT
                                 ![<<t.buyer, t.event, t.outcome>>] = @ + t.quantity]
        /\ sharesReserved' = [sharesReserved EXCEPT
                                 ![<<t.seller, t.event, t.outcome>>] = AtLeastZero(@ - t.quantity)]
    BY <2>15, Zenon DEF settleTradeLocked
  <2>1. orders' = [x \in OrderIds |->
                    IF x \in {t.taker, t.maker} /\ orders[x] # NoOrder
                    THEN ReduceLock(orders[x], t) ELSE orders[x]]
    BY <2>15, Zenon DEF settleTradeLocked
  <2>13. accounts' = accounts \cup {t.buyer, t.seller}
    BY <2>15, Zenon DEF settleTradeLocked
  <2>14. /\ at' = [at EXCEPT ![p] = @ + 1]
        /\ UNCHANGED <<markets, book, granted, mu, pc, cur, trades, stream>>
    BY Zenon DEF settleTradeLocked
  <2>3. ASSUME NEW x \in OrderIds
        PROVE  orders'[x] \in Order \cup {NoOrder} /\ SameButLocked(x)
    <3>1. CASE orders[x] = NoOrder
      BY <2>1, <3>1, Zenon DEF SameButLocked, Exists
    <3>2. CASE orders[x] # NoOrder
      <4>1. orders[x] \in Order
        BY <3>2, Zenon DEF TypeOK
      <4>2. orders'[x] = ReduceLock(orders[x], t) \/ orders'[x] = orders[x]
        BY <2>1, Zenon
      <4>3. orders'[x] \in Order
        BY <4>1, <4>2, ReduceLockProperty, Zenon
      <4>4. CASE orders'[x] = ReduceLock(orders[x], t)
        BY <4>1, <4>3, <4>4, ReduceLockProperty, ConstantsAssumption
           DEF SameButLocked, Exists
      <4>5. CASE orders'[x] = orders[x]
        BY <4>3, <4>5, <3>2, Zenon DEF SameButLocked, Exists
      <4> QED
        BY <4>2, <4>3, <4>4, <4>5, Zenon
    <3> QED
      BY <3>1, <3>2, Zenon
  <2>4. TypeOK'
    <3>1. /\ cashReserved' \in [Users -> Nat]
          /\ cashAvailable' \in [Users -> Nat]
      <4>1. /\ AtLeastZero(cashReserved[t.buyer] - cost) \in Nat
            /\ cashAvailable[t.seller] + cost \in Nat
        <5>1. cashReserved[t.buyer] \in Nat /\ cashAvailable[t.seller] \in Nat
          BY <2>2, Zenon DEF TypeOK
        <5>2. cashReserved[t.buyer] - cost \in Int
          BY <5>1
        <5> QED
          BY <5>1, <5>2, AtLeastZeroIsNat
      <4>2. cashReserved' \in [Users -> Nat]
        BY <2>2, <2>11, <4>1, Zenon DEF TypeOK
      <4>3. cashAvailable' \in [Users -> Nat]
        BY <2>2, <2>11, <4>1, Zenon DEF TypeOK
      <4> QED
        BY <4>2, <4>3, Zenon
    <3>2. /\ sharesReserved' \in [PositionKeys -> Nat]
          /\ sharesAvailable' \in [PositionKeys -> Nat]
      <4>1. /\ AtLeastZero(sharesReserved[<<t.seller, t.event, t.outcome>>] - t.quantity) \in Nat
            /\ sharesAvailable[<<t.buyer, t.event, t.outcome>>] + t.quantity \in Nat
        <5>1. /\ sharesReserved[<<t.seller, t.event, t.outcome>>] \in Nat
              /\ sharesAvailable[<<t.buyer, t.event, t.outcome>>] \in Nat
          BY <2>2, Zenon DEF TypeOK
        <5>2. sharesReserved[<<t.seller, t.event, t.outcome>>] - t.quantity \in Int
          BY <2>2, <5>1
        <5> QED
          BY <2>2, <5>1, <5>2, AtLeastZeroIsNat, SMTT(30)
      <4>2. sharesReserved' \in [PositionKeys -> Nat]
        BY <2>2, <2>12, <4>1, Zenon DEF TypeOK
      <4>3. sharesAvailable' \in [PositionKeys -> Nat]
        BY <2>2, <2>12, <4>1, Zenon DEF TypeOK
      <4> QED
        BY <4>2, <4>3, Zenon
    <3>3. orders' \in [OrderIds -> Order \cup {NoOrder}]
      BY <2>1, <2>3, Zenon
    <3>4. at' \in [Partitions -> Nat]
      BY <2>14 DEF TypeOK
    <3>5. accounts' \subseteq Users
      BY <2>13, <2>2, Zenon DEF TypeOK
    <3> QED
      BY <2>14, <3>1, <3>2, <3>3, <3>4, <3>5, Zenon DEF TypeOK
  <2>5. WorkersConsistent'
    <3>1. \A q \in Partitions : at'[q] <= Len(trades[q]) /\ (pc[q] = "matching" => at'[q] = at[q])
      BY <2>0, <2>14, SMTT(30) DEF TypeOK, WorkersConsistent
    <3>2. \A q \in Partitions :
             /\ Working(q) => cur[q] \in OrderIds
             /\ Working(q)' <=> Working(q)
             /\ pc[q] \in {"created", "waiting", "matching"} => Working(q)
      BY <2>14 DEF TypeOK, WorkersConsistent, Working
    <3> QED
      BY <2>3, <2>14, <3>1, <3>2 DEF WorkersConsistent, SameButLocked
  <2>6. \A x \in OrderIds : InFlight(x)' <=> InFlight(x)
    BY <2>14, Zenon DEF InFlight
  <2> QED
    BY <2>14, <2>3, <2>4, <2>5, <2>6, LocksFrame, Zenon
\* Releasing the taker's over-lock and unlocking e.mu (matchOrder) keeps the
\* engine consistent.
<1>14. ASSUME NEW p \in Partitions, FinishSettle(p)
       PROVE  Consistent'
  <2> USE <1>14 DEF Consistent
  <2>0. PICK id \in OrderIds : id = cur[p]
    BY Zenon DEF FinishSettle, TypeOK, WorkersConsistent
  <2>1. /\ pc[p] = "settling" /\ at[p] = Len(trades[p])
        /\ mu' = Unlocked
        /\ at' = [at EXCEPT ![p] = 0]
        /\ pc' = [pc EXCEPT ![p] = "publishing"]
        /\ UNCHANGED <<markets, book, cur, trades, stream>>
    BY Zenon DEF FinishSettle, UnlockMu
  <2>2. orders[id] \in Order /\ Exists(id)
    BY <2>0, <2>1 DEF TypeOK, WorkersConsistent, Working, Exists
  <2>3. \/ releaseOrderLocked(orders[id]) /\ orders' = [orders EXCEPT ![id].locked = 0]
        \/ UNCHANGED <<ledgerVars, orders>>
    BY <2>0, Zenon DEF FinishSettle
  <2>4. /\ cashAvailable' \in [Users -> Nat] /\ cashReserved' \in [Users -> Nat]
        /\ sharesAvailable' \in [PositionKeys -> Nat]
        /\ sharesReserved' \in [PositionKeys -> Nat]
        /\ UNCHANGED <<accounts, granted>>
    <3>1. CASE releaseOrderLocked(orders[id])
      BY <2>2, <3>1, ReleaseType, Zenon
    <3>2. CASE UNCHANGED <<ledgerVars, orders>>
      BY <3>2, Zenon DEF TypeOK, ledgerVars
    <3> QED
      BY <2>3, <3>1, <3>2, Zenon
  <2>5. orders' = [orders EXCEPT ![id].locked = 0] \/ orders' = orders
    BY <2>3, Zenon
  <2>6. orders' \in [OrderIds -> Order \cup {NoOrder}]
    <3>1. [orders[id] EXCEPT !.locked = 0] \in Order
      BY <2>2, Zenon DEF Order
    <3> QED
      BY <2>5, <3>1, Zenon DEF TypeOK
  <2>7. ASSUME NEW x \in OrderIds PROVE SameButLocked(x)
    <3>1. CASE orders'[x] = orders[x]
      BY <3>1, Zenon DEF SameButLocked, Exists
    <3>2. CASE orders'[x] # orders[x]
      <4>1. x = id /\ orders'[x] = [orders[x] EXCEPT !.locked = 0]
        BY <2>5, <3>2, Zenon DEF TypeOK
      <4>2. orders'[x] \in Order /\ orders[x] \in Order
        BY <2>2, <4>1 DEF Order
      <4>3. /\ OwnSide(orders'[x]) = OwnSide(orders[x])
            /\ orders'[x].status = orders[x].status
            /\ orders'[x].quantity = orders[x].quantity
            /\ orders'[x].filled = orders[x].filled
            /\ orders'[x].remaining = orders[x].remaining
        BY <4>1, <4>2, Zenon DEF Order, OwnSide
      <4> QED
        BY <4>2, <4>3, ConstantsAssumption, Zenon DEF SameButLocked, Exists
    <3> QED
      BY <3>1, <3>2, Zenon
  <2>8. TypeOK'
    BY <2>1, <2>4, <2>6, Zenon DEF TypeOK, Stages
  <2>9. WorkersConsistent'
    <3>1. \A q \in Partitions :
             /\ Working(q) => cur[q] \in OrderIds
             /\ Working(q)' <=> Working(q)
             /\ pc[q] \in {"created", "waiting", "matching"} => Working(q)
      BY <2>1, Zenon DEF TypeOK, WorkersConsistent, Working
    <3>2. \A q \in Partitions : q # p => pc'[q] = pc[q] /\ at'[q] = at[q]
      BY <2>1, Zenon DEF TypeOK
    <3>3. pc'[p] = "publishing" /\ at'[p] = 0 /\ Len(trades[p]) \in Nat
      BY <2>1, Zenon DEF TypeOK
    <3>4. \A q \in Partitions : mu' # q /\ pc'[q] \notin {"matching", "settling"}
      BY <2>1, <3>2, <3>3, ConstantsAssumption, Zenon DEF WorkersConsistent
    <3> QED
      BY <2>1, <2>7, <3>1, <3>2, <3>3, <3>4, SMTT(30)
         DEF WorkersConsistent, SameButLocked
  <2>10. \A x \in OrderIds : InFlight(x)' <=> InFlight(x)
    BY <2>1, Zenon DEF InFlight, TypeOK
  <2> QED
    BY <2>1, <2>7, <2>8, <2>9, <2>10, LocksFrame, Zenon
\* Publishing a trade (publishTrade), or failing to, keeps the engine
\* consistent.
<1>15. ASSUME NEW p \in Partitions, publishTrade(p)
       PROVE  Consistent'
  <2> USE <1>15 DEF Consistent, publishTrade, ledgerVars
  <2>1. TypeOK'
    <3> DEFINE t == trades[p][at[p] + 1]
    <3>1. t \in Trade
      BY DEF TypeOK
    <3>2. TradeEvent(t) \in StreamEvent
      BY <3>1, Zenon DEF TradeEvent, StreamEvent
    <3>3. stream' \in Seq(StreamEvent)
      <4>1. stream' = Append(stream, TradeEvent(t)) \/ stream' = stream
        BY Zenon
      <4>2. stream \in Seq(StreamEvent)
        BY Zenon DEF TypeOK
      <4> HIDE DEF t, publishTrade, Consistent
      <4> QED
        BY <3>2, <4>1, <4>2, AppendProperties
    <3> QED
      BY <3>3, SMTT(30) DEF TypeOK
  <2>2. WorkersConsistent'
    BY DEF TypeOK, WorkersConsistent, Working, Exists
  <2>3. \A id \in OrderIds : InFlight(id)' <=> InFlight(id)
    BY Zenon DEF InFlight
  <2> QED
    BY <2>1, <2>2, <2>3, BooksFrame, Zenon
\* Replying to a CREATE_ORDER keeps the engine consistent.
<1>16. ASSUME NEW p \in Partitions, FinishOrder(p)
       PROVE  Consistent'
  <2> USE <1>16 DEF Consistent, FinishOrder, ledgerVars
  <2>1. TypeOK'
    BY SMTT(30) DEF TypeOK, Stages
  <2>2. WorkersConsistent'
    BY ConstantsAssumption DEF TypeOK, WorkersConsistent, Working, Exists
  <2>3. \A id \in OrderIds : InFlight(id)' <=> InFlight(id)
    BY Zenon DEF TypeOK, InFlight
  <2> QED
    BY <2>1, <2>2, <2>3, BooksFrame, Zenon
\* Emitting ORDER_CANCELED, or failing to, keeps the engine consistent.
<1>17. ASSUME NEW p \in Partitions, EmitOrderCanceled(p)
       PROVE  Consistent'
  <2> USE <1>17 DEF Consistent, EmitOrderCanceled, ledgerVars
  <2>1. TypeOK'
    <3>1. cur[p] \in OrderIds
      BY Zenon DEF TypeOK, WorkersConsistent
    <3>2. CanceledEvent(cur[p]) \in StreamEvent
      BY <3>1, Zenon DEF CanceledEvent, StreamEvent
    <3>3. stream' \in Seq(StreamEvent)
      <4>1. stream' = Append(stream, CanceledEvent(cur[p])) \/ stream' = stream
        BY Zenon
      <4>2. stream \in Seq(StreamEvent)
        BY Zenon DEF TypeOK
      <4> HIDE DEF EmitOrderCanceled, Consistent
      <4> QED
        BY <3>2, <4>1, <4>2, AppendProperties
    <3> QED
      BY <3>3, Zenon DEF TypeOK, Stages
  <2>2. WorkersConsistent'
    BY ConstantsAssumption, Zenon DEF TypeOK, WorkersConsistent, Working, Exists
  <2>3. \A id \in OrderIds : InFlight(id)' <=> InFlight(id)
    BY Zenon DEF TypeOK, InFlight
  <2> QED
    BY <2>1, <2>2, <2>3, BooksFrame, Zenon
<1>18. ASSUME NEW p \in Partitions, Command(p) PROVE Consistent'
  BY <1>18, <1>2, <1>3, <1>4, <1>5, <1>6, Zenon DEF Command
<1>19. ASSUME NEW p \in Partitions, Continue(p) PROVE Consistent'
  BY <1>19, <1>7, <1>8, <1>9, <1>10, <1>11, <1>12, <1>13, <1>14, <1>15, <1>16, <1>17, Zenon
     DEF Continue
<1> QED
  BY <1>1, <1>18, <1>19, Zenon DEF Next

\* The engine is consistent in every reachable state: what a worker relies
\* on between the critical sections of handleCreateOrderCore and matchOrder
\* holds, whatever the workers of the other partitions do meanwhile.
THEOREM EngineConsistent == Spec => []Consistent
<1>1. Init => Consistent
  BY InitConsistent, Zenon
<1>2. Consistent /\ [Next]_vars => Consistent'
  BY NextConsistent, Zenon
<1> QED
  BY <1>1, <1>2, PTL DEF Spec

\* No balance, position, lock or quantity of the ledger becomes negative, and
\* every stored order, slice, trade and event is well formed.
THEOREM TypeCorrect == Spec => []TypeOK
<1>1. Consistent => TypeOK
  BY Zenon DEF Consistent
<1> QED
  BY <1>1, EngineConsistent, PTL

\* The book slices hold exactly the open orders that no worker is deciding
\* about: addToBook, removeOrderIndex and removeOrderFromSlice together never
\* lose an order or leave one behind.
THEOREM BooksCorrect == Spec => []BookHoldsOpenOrders
<1>1. Consistent => BookHoldsOpenOrders
  BY Zenon DEF Consistent
<1> QED
  BY <1>1, EngineConsistent, PTL

\* The status of an order agrees with its filled and remaining quantities,
\* which executePair updates on both orders of a pair.
THEOREM FillsCorrect == Spec => []FillsAddUp
<1>1. Consistent => FillsAddUp
  BY Zenon DEF Consistent
<1> QED
  BY <1>1, EngineConsistent, PTL

(***************************************************************************)
(* Terminal orders are final.                                              *)
(***************************************************************************)

\* Every step leaves an order that is filled or canceled that way.
LEMMA StepKeepsTerminal ==
  ASSUME Consistent, [Next]_vars, NEW x \in OrderIds PROVE KeepsTerminal(x)
\* executePair fills two open orders: the incoming one is PENDING, since no
\* cancellation can come between StartMatch and the end of the match, and
\* the resting one is live.  All others stay as they are.
<1>1. ASSUME NEW p \in Partitions, executePair(p)
      PROVE  KeepsTerminal(x)
  <2> USE <1>1 DEF Consistent
  <2>0. PICK id \in OrderIds : id = cur[p] /\ pc[p] = "matching"
    BY Zenon DEF executePair, TypeOK, WorkersConsistent
  <2> DEFINE incoming == orders[id]
             k == OtherSide(incoming)
             s == book[k]
             i == findCounterparty(s, incoming)
  <2>1. incoming \in Order /\ IsOpen(incoming)
    BY <2>0 DEF TypeOK, WorkersConsistent, Working, Exists, IsOpen
  <2>2. k \in BookKeys /\ s \in Seq(OrderIds)
    BY <2>1, Zenon DEF OtherSide, Order, BookKeys, Sides, TypeOK
  <2>3. removeInvalid(s) = s
    BY <2>2, RemoveInvalidIsIdentity, Zenon
  <2>4. i # 0
    BY <2>0, <2>3, Zenon DEF executePair
  <2>5. i \in 1..Len(s) /\ IsLive(orders[s[i]]) /\ s[i] \in OrderIds
    BY <2>2, <2>4, FindCounterpartyProperty, ElementOfSeq, Zenon
  <2>6. \A y \in OrderIds : y # id /\ y # s[i] => orders'[y] = orders[y]
    BY <2>0, <2>3, <2>5, Zenon DEF executePair, TypeOK
  <2> QED
    BY <2>1, <2>5, <2>6, Zenon DEF KeepsTerminal, IsLive
\* Settling a trade changes locked funds only.
<1>2. ASSUME NEW p \in Partitions, settleTradeLocked(p)
      PROVE  KeepsTerminal(x)
  <2> USE <1>2 DEF Consistent
  <2>1. PICK t \in Trade : t = trades[p][at[p] + 1]
    BY SettledTradeType, Zenon
  <2>2. orders'[x] = orders[x] \/ (orders[x] # NoOrder /\ orders'[x] = ReduceLock(orders[x], t))
    BY <2>1, Zenon DEF settleTradeLocked
  <2>3. orders[x] # NoOrder => orders[x] \in Order
    BY Zenon DEF TypeOK
  <2> QED
    BY <2>2, <2>3, ReduceLockProperty, SMTT(30) DEF KeepsTerminal
\* The other steps change one order, which is new, forgotten, open, or loses
\* its locked funds only.
<1>3. ASSUME NEW p \in Partitions
      PROVE  /\ \A id \in OrderIds, r \in Requests : AcceptOrder(p, id, r) => KeepsTerminal(x)
             /\ \A id \in OrderIds, e \in CancelEvents :
                    handleCancelOrder(p, id, e) => KeepsTerminal(x)
             /\ EmitOrderCreatedFails(p) => KeepsTerminal(x)
             /\ FinishMatch(p) => KeepsTerminal(x)
             /\ FinishSettle(p) => KeepsTerminal(x)
  <2> USE DEF Consistent
  <2>1. ASSUME NEW id \in OrderIds, NEW r \in Requests, AcceptOrder(p, id, r)
        PROVE  KeepsTerminal(x)
    BY <2>1, Zenon DEF AcceptOrder, OrderArrives, KeepsTerminal, Exists, TypeOK
  <2>2. ASSUME NEW id \in OrderIds, NEW e \in CancelEvents, handleCancelOrder(p, id, e)
        PROVE  KeepsTerminal(x)
    <3>1. IsOpen(orders[id]) /\ (x # id => orders'[x] = orders[x])
      BY <2>2, Zenon DEF handleCancelOrder, TypeOK
    <3> QED
      BY <3>1, Zenon DEF KeepsTerminal
  <2>3. ASSUME EmitOrderCreatedFails(p) PROVE KeepsTerminal(x)
    BY <2>3 DEF EmitOrderCreatedFails, KeepsTerminal, TypeOK
  <2>4. ASSUME FinishMatch(p) PROVE KeepsTerminal(x)
    <3>1. pc[p] = "matching" /\ (x # cur[p] => orders'[x] = orders[x])
      BY <2>4, Zenon DEF FinishMatch, TypeOK
    <3>2. IsOpen(orders[cur[p]])
      BY <3>1, Zenon DEF WorkersConsistent, IsOpen
    <3> QED
      BY <3>1, <3>2, Zenon DEF KeepsTerminal
  <2>5. ASSUME FinishSettle(p) PROVE KeepsTerminal(x)
    <3>1. \/ orders' = orders
          \/ orders' = [orders EXCEPT ![cur[p]].locked = 0]
      BY <2>5, Zenon DEF FinishSettle
    <3>2. orders'[x] = orders[x] \/ orders'[x] = [orders[x] EXCEPT !.locked = 0]
      BY <3>1, Zenon DEF TypeOK
    <3>3. orders[x] # NoOrder => orders[x] \in Order
      BY Zenon DEF TypeOK
    <3> QED
      BY <3>2, <3>3, Zenon DEF KeepsTerminal, Exists, Order
  <2> QED
    BY <2>1, <2>2, <2>3, <2>4, <2>5, Zenon
<1>4. CASE UNCHANGED orders
  BY <1>4, Zenon DEF KeepsTerminal
<1>5. ASSUME NEW p \in Partitions, Command(p), ~UNCHANGED orders PROVE KeepsTerminal(x)
  BY <1>5, <1>3, Zenon
     DEF Command, handleUserCreated, handleCreateEvent, RejectUnfundedBuy
<1>6. ASSUME NEW p \in Partitions, Continue(p), ~UNCHANGED orders PROVE KeepsTerminal(x)
  <2>1. \/ executePair(p) \/ settleTradeLocked(p) \/ EmitOrderCreatedFails(p)
        \/ FinishMatch(p) \/ FinishSettle(p)
    BY <1>6, Zenon DEF Continue, EmitOrderCreated, StartMatch, SkipCanceled, publishTrade,
                FinishOrder, EmitOrderCanceled
  <2> QED
    BY <2>1, <1>1, <1>2, <1>3, Zenon
<1> QED
  BY <1>4, <1>5, <1>6, Zenon DEF Next, vars

\* A filled or canceled order is never reopened, filled further or given
\* another end (handleCancelOrder's and matchOrder's status checks suffice,
\* although e.mu is free between storing an order and matching it).
THEOREM TerminalOrdersFinal == Spec => TerminalIsFinal
<1>1. Consistent /\ [Next]_vars => [AllKeepTerminal]_vars
  BY StepKeepsTerminal, Zenon DEF AllKeepTerminal
<1> QED
  BY <1>1, EngineConsistent, PTL DEF Spec, TerminalIsFinal

(***************************************************************************)
(* Without seeded shares nothing is traded.                                *)
(***************************************************************************)

NoSeeds == \A k \in PositionKeys : SeedShares[k] = 0

\* The inductive form: there are no shares to sell, all orders are unfilled
\* BUYs, and no match has produced a trade.
NothingToTrade ==
    /\ \A k \in PositionKeys : sharesAvailable[k] = 0
    /\ \A id \in OrderIds : Exists(id) => orders[id].side = "BUY" /\ orders[id].filled = 0
    /\ \A p \in Partitions : trades[p] = <<>>

\* Orders keep their side, or are forgotten, and nobody's shares or trades
\* change: what the steps that cannot trade have in common.
TradesNothing ==
    /\ UNCHANGED sharesAvailable
    /\ \A id \in OrderIds : Exists(id)' =>
          /\ Exists(id)
          /\ orders'[id].side = orders[id].side
          /\ orders'[id].filled = orders[id].filled
    /\ \A p \in Partitions : trades'[p] \in {trades[p], <<>>}

\* The engine has no step that issues shares, so unless shares are seeded no
\* SELL is accepted and no trade is ever made, for any number of users,
\* markets, orders and partitions.
THEOREM NothingTradesUnseeded == Spec => []NoTradeWithoutShares
<1> DEFINE Inv == NoSeeds => NothingToTrade
<1>1. Init => Inv
  BY DEF Init, NoSeeds, NothingToTrade, Exists
<1>2. ASSUME Consistent, NothingToTrade, [Next]_vars PROVE NothingToTrade'
  <2> USE <1>2
  \* reserveOrderLocked refuses a SELL of shares the user does not have, so the
  \* order that is accepted is a BUY.
  <2>1. ASSUME NEW p \in Partitions, NEW id \in OrderIds, NEW r \in Requests,
               AcceptOrder(p, id, r)
        PROVE  NothingToTrade'
    <3> USE <2>1 DEF Consistent
    <3>1. r \in Request /\ r.quantity > 0
      BY ConstantsAssumption, Zenon DEF AcceptOrder, OrderArrives, validateOrder
    <3>2. r.side = "BUY"
      <4>1. SUFFICES ASSUME r.side = "SELL" PROVE FALSE
        BY <3>1, Zenon DEF Request, Sides
      <4>2. RequiredFunds(r) = r.quantity
        BY <4>1, Zenon DEF RequiredFunds
      <4>3. PositionKey(r) \in PositionKeys
        BY <3>1, Zenon DEF PositionKey, PositionKeys, Request
      <4>4. HasFunds(r)
        BY Zenon DEF AcceptOrder
      <4>5. r.quantity <= sharesAvailable[PositionKey(r)]
        BY <4>1, <4>2, <4>4, Zenon DEF HasFunds
      <4>6. sharesAvailable[PositionKey(r)] = 0
        BY <4>3, Zenon DEF NothingToTrade
      <4>7. r.quantity \in Nat
        BY <3>1, Zenon DEF Request
      <4> QED
        BY <3>1, <4>5, <4>6, <4>7
    <3>3. UNCHANGED <<sharesAvailable, trades>>
      BY <3>2, Zenon DEF AcceptOrder, reserveOrderLocked
    <3>4. NewOrder(r).side = "BUY" /\ NewOrder(r).filled = 0
      BY <3>2, Zenon DEF NewOrder
    <3>5. \A x \in OrderIds : orders'[x] = IF x = id THEN NewOrder(r) ELSE orders[x]
      BY Zenon DEF AcceptOrder, TypeOK
    <3> QED
      BY <3>3, <3>4, <3>5, Zenon DEF NothingToTrade, Exists
  \* A BUY finds nothing to match: what rests on the other side of the book
  \* would be a SELL.
  <2>2. ASSUME NEW p \in Partitions, executePair(p)
        PROVE  FALSE
    <3> USE <2>2 DEF Consistent
    <3>0. PICK id \in OrderIds : id = cur[p] /\ pc[p] = "matching"
      BY Zenon DEF executePair, TypeOK, WorkersConsistent
    <3> DEFINE incoming == orders[id]
               k == OtherSide(incoming)
               s == book[k]
               i == findCounterparty(s, incoming)
    <3>1. incoming \in Order /\ incoming.side = "BUY"
      BY <3>0, SMTT(30) DEF TypeOK, WorkersConsistent, Working, Exists, NothingToTrade
    <3>2. k \in BookKeys /\ s \in Seq(OrderIds)
      BY <3>1, Zenon DEF OtherSide, Order, BookKeys, Sides, TypeOK
    <3>3. removeInvalid(s) = s
      BY <3>2, RemoveInvalidIsIdentity, Zenon
    <3>4. i # 0
      BY <3>0, <3>3, Zenon DEF executePair
    <3>5. i \in 1..Len(s)
      BY <3>2, <3>4, FindCounterpartyProperty, Zenon
    <3>6. s[i] \in OrderIds /\ orders[s[i]] \in Order /\ OwnSide(orders[s[i]]) = k
      BY <3>2, <3>5, BookOrdersLive, Zenon
    <3>7. orders[s[i]].side = "BUY"
      BY <3>6, ConstantsAssumption, Zenon DEF NothingToTrade, Exists
    <3> HIDE DEF s, i
    <3> QED
      BY <3>1, <3>6, <3>7, Zenon DEF OwnSide, OtherSide
  \* Every other step leaves sides, fills and available shares alone.
  <2>3. ASSUME NEW p \in Partitions
        PROVE  /\ \A id \in OrderIds, e \in CancelEvents :
                      handleCancelOrder(p, id, e) => TradesNothing
               /\ EmitOrderCreatedFails(p) => TradesNothing
               /\ FinishMatch(p) => TradesNothing
               /\ ~settleTradeLocked(p)
               /\ FinishSettle(p) => TradesNothing
               /\ FinishOrder(p) => TradesNothing
    <3> USE DEF Consistent
    <3>1. ASSUME NEW id \in OrderIds, NEW e \in CancelEvents, handleCancelOrder(p, id, e)
          PROVE  TradesNothing
      <4>1. orders[id] \in Order /\ orders[id].side = "BUY" /\ Exists(id)
        BY <3>1, Zenon DEF handleCancelOrder, TypeOK, NothingToTrade, Exists
      <4>2. UNCHANGED <<sharesAvailable, trades>>
        BY <3>1, <4>1, Zenon DEF handleCancelOrder, releaseOrderLocked
      <4>3. \A x \in OrderIds : orders'[x] =
               IF x = id THEN [orders[x] EXCEPT !.status = "CANCELED", !.locked = 0] ELSE orders[x]
        BY <3>1, <4>1, Zenon DEF handleCancelOrder, TypeOK
      <4>4. orders'[id].side = orders[id].side /\ orders'[id].filled = orders[id].filled
        BY <4>1, <4>3, Zenon DEF Order
      <4> QED
        BY <4>1, <4>2, <4>3, <4>4, Zenon DEF TradesNothing, Exists
    <3>2. ASSUME EmitOrderCreatedFails(p) PROVE TradesNothing
      BY <3>2, Zenon DEF EmitOrderCreatedFails, TradesNothing, TypeOK, ledgerVars, Exists
    <3>3. ASSUME FinishMatch(p) PROVE TradesNothing
      <4>1. cur[p] \in OrderIds /\ orders[cur[p]] \in Order /\ Exists(cur[p])
        BY <3>3 DEF FinishMatch, WorkersConsistent, Working, TypeOK, Exists
      <4>2. PICK st : \A x \in OrderIds : orders'[x] =
               IF x = cur[p] THEN [orders[x] EXCEPT !.status = st] ELSE orders[x]
        BY <3>3, <4>1, Zenon DEF FinishMatch, TypeOK
      <4>3. UNCHANGED <<sharesAvailable, trades>>
        BY <3>3, Zenon DEF FinishMatch, ledgerVars
      <4>4. /\ orders'[cur[p]].side = orders[cur[p]].side
            /\ orders'[cur[p]].filled = orders[cur[p]].filled
        BY <4>1, <4>2, Zenon DEF Order
      <4> QED
        BY <4>1, <4>2, <4>3, <4>4, Zenon DEF TradesNothing, Exists
    <3>4. ~settleTradeLocked(p)
      <4>1. trades[p] = <<>> /\ at[p] \in Nat
        BY Zenon DEF NothingToTrade, TypeOK
      <4>2. ASSUME settleTradeLocked(p) PROVE at[p] < Len(trades[p])
        BY <4>2, Zenon DEF settleTradeLocked
      <4>3. ~(at[p] < Len(trades[p]))
        BY <4>1
      <4> QED
        BY <4>2, <4>3, Zenon
    <3>5. ASSUME FinishSettle(p) PROVE TradesNothing
      <4>1. cur[p] \in OrderIds /\ orders[cur[p]] \in Order /\ Exists(cur[p])
        BY <3>5 DEF FinishSettle, WorkersConsistent, Working, TypeOK, Exists
      <4>2. \A x \in OrderIds : \/ orders'[x] = orders[x]
                                \/ x = cur[p] /\ orders'[x] = [orders[x] EXCEPT !.locked = 0]
        BY <3>5, <4>1, Zenon DEF FinishSettle, TypeOK
      <4>3. orders[cur[p]].side = "BUY"
        BY <4>1, Zenon DEF NothingToTrade
      <4>4. UNCHANGED <<sharesAvailable, trades>>
        BY <3>5, <4>3, Zenon DEF FinishSettle, releaseOrderLocked, ledgerVars
      <4>5. /\ orders'[cur[p]].side = orders[cur[p]].side
            /\ orders'[cur[p]].filled = orders[cur[p]].filled
        BY <4>1, <4>2, Zenon DEF Order
      <4> QED
        BY <4>1, <4>2, <4>4, <4>5, Zenon DEF TradesNothing, Exists
    <3>6. ASSUME FinishOrder(p) PROVE TradesNothing
      BY <3>6, Zenon DEF FinishOrder, TradesNothing, TypeOK, ledgerVars, Exists
    <3> QED
      BY <3>1, <3>2, <3>3, <3>4, <3>5, <3>6, Zenon
  \* Such a step keeps NothingToTrade.
  <2>4. TradesNothing => NothingToTrade'
    BY Zenon DEF NothingToTrade, TradesNothing
  <2>5. CASE UNCHANGED <<orders, sharesAvailable, trades>>
    BY <2>5, Zenon DEF NothingToTrade, Exists
  <2>6. ASSUME NEW p \in Partitions, Command(p),
               ~UNCHANGED <<orders, sharesAvailable, trades>>
        PROVE  NothingToTrade'
    BY <2>6, <2>1, <2>3, <2>4, Zenon
       DEF Command, handleUserCreated, handleCreateEvent, RejectUnfundedBuy,
           ledgerVars, workerVars
  <2>7. ASSUME NEW p \in Partitions, Continue(p),
               ~UNCHANGED <<orders, sharesAvailable, trades>>
        PROVE  NothingToTrade'
    <3>1. \/ executePair(p) \/ settleTradeLocked(p) \/ EmitOrderCreatedFails(p)
          \/ FinishMatch(p) \/ FinishSettle(p) \/ FinishOrder(p)
      BY <2>7, Zenon DEF Continue, EmitOrderCreated, StartMatch, SkipCanceled, publishTrade,
                  EmitOrderCanceled, ledgerVars
    <3> QED
      BY <3>1, <2>2, <2>3, <2>4, Zenon
  <2> QED
    BY <2>5, <2>6, <2>7, Zenon DEF Next, vars, ledgerVars, workerVars
<1>3. Consistent /\ Inv /\ [Next]_vars => Inv'
  BY <1>2, Zenon DEF NoSeeds
<1>4. Inv => NoTradeWithoutShares
  BY Zenon DEF NoSeeds, NothingToTrade, NoTradeWithoutShares
<1> QED
  BY <1>1, <1>3, <1>4, EngineConsistent, PTL DEF Spec

(***************************************************************************)
(* What executePair does, for the proofs about the ledger and the books.   *)
(***************************************************************************)

\* findCounterparty returns 0 or the first place of an order that may be
\* matched.
LEMMA FindCounterpartyFirst ==
  ASSUME NEW s \in Seq(OrderIds), NEW o, findCounterparty(s, o) # 0
  PROVE  /\ findCounterparty(s, o) \in 1..Len(s)
         /\ IsLive(orders[s[findCounterparty(s, o)]])
         /\ orders[s[findCounterparty(s, o)]].user # o.user
         /\ canMatch(o, orders[s[findCounterparty(s, o)]])
         /\ \A j \in 1..Len(s) :
               /\ IsLive(orders[s[j]]) /\ orders[s[j]].user # o.user /\ canMatch(o, orders[s[j]])
               => findCounterparty(s, o) <= j
<1> DEFINE I == {i \in 1..Len(s) : /\ IsLive(orders[s[i]])
                                  /\ orders[s[i]].user # o.user
                                  /\ canMatch(o, orders[s[i]])}
<1>1. findCounterparty(s, o) = IF I # {} THEN Min(I) ELSE 0
  BY Zenon DEF findCounterparty, FirstIndex
<1>2. I \in SUBSET Nat
  OBVIOUS
<1>3. I # {}
  BY <1>1, Zenon
<1>4. findCounterparty(s, o) \in I /\ \A j \in I : findCounterparty(s, o) <= j
  <2> HIDE DEF I
  <2> QED
    BY <1>1, <1>2, <1>3, MinProperty
<1> QED
  BY <1>4, Zenon

\* A fill leaves alone what the order is for and what it has locked.
LEMMA FillKeeps ==
  ASSUME NEW o \in Order, NEW q
  PROVE  /\ FillIncoming(o, q).user = o.user /\ FillResting(o, q).user = o.user
         /\ FillIncoming(o, q).event = o.event /\ FillResting(o, q).event = o.event
         /\ FillIncoming(o, q).outcome = o.outcome /\ FillResting(o, q).outcome = o.outcome
         /\ FillIncoming(o, q).side = o.side /\ FillResting(o, q).side = o.side
         /\ FillIncoming(o, q).type = o.type /\ FillResting(o, q).type = o.type
         /\ FillIncoming(o, q).price = o.price /\ FillResting(o, q).price = o.price
         /\ FillIncoming(o, q).locked = o.locked /\ FillResting(o, q).locked = o.locked
  BY Zenon DEF FillIncoming, FillResting, Order

\* What one iteration of matchAgainstBook does, in a consistent state: it
\* makes a trade of q between the incoming order x and the resting order m,
\* the first in its slice that x can trade with.
Pairs(p, x, m, q, i) ==
    /\ x = cur[p] /\ mu = p /\ pc[p] = "matching"
    /\ orders[x] \in Order /\ orders[x].status = "PENDING"
    /\ orders[m] \in Order /\ IsLive(orders[m])
    /\ OwnSide(orders[m]) = OtherSide(orders[x])
    /\ x # m /\ orders[m].user # orders[x].user /\ canMatch(orders[x], orders[m])
    /\ i \in 1..Len(book[OtherSide(orders[x])])
    /\ m = book[OtherSide(orders[x])][i]
    /\ \A j \in 1..Len(book[OtherSide(orders[x])]) :
          /\ IsLive(orders[book[OtherSide(orders[x])][j]])
          /\ orders[book[OtherSide(orders[x])][j]].user # orders[x].user
          /\ canMatch(orders[x], orders[book[OtherSide(orders[x])][j]])
          => i <= j
    /\ q = Smaller(orders[x].remaining, orders[m].remaining)
    /\ q > 0 /\ orders[x].remaining - q \in Nat /\ orders[m].remaining - q \in Nat
    /\ orders'[x] = FillIncoming(orders[x], q)
    /\ orders'[m] = FillResting(orders[m], q)
    /\ \A y \in OrderIds : y # x /\ y # m => orders'[y] = orders[y]
    /\ trades' = [trades EXCEPT ![p] = Append(@, buildTrade(x, orders[x], m, orders[m], q))]
    /\ book' = [book EXCEPT ![OtherSide(orders[x])] =
                   IF orders[m].remaining = q THEN removeOrderIndex(@, i) ELSE @]
    /\ UNCHANGED <<markets, ledgerVars, mu, pc, cur, at, stream>>

\* Every executePair step is of that form.
LEMMA ExecutePairEffect ==
  ASSUME Consistent, NEW p \in Partitions, executePair(p)
  PROVE  \E x, m \in OrderIds, q, i \in Nat : Pairs(p, x, m, q, i)
<1> USE DEF Consistent
<1>0. PICK x \in OrderIds : x = cur[p]
  BY Zenon DEF executePair, TypeOK, WorkersConsistent
<1>1. pc[p] = "matching" /\ UNCHANGED <<markets, ledgerVars, mu, pc, cur, at, stream>>
  BY Zenon DEF executePair
<1> DEFINE incoming == orders[x]
           k == OtherSide(incoming)
           s == book[k]
           i == findCounterparty(s, incoming)
<1>2. /\ incoming \in Order /\ incoming.status = "PENDING" /\ InFlight(x) /\ mu = p
      /\ incoming.remaining > 0
  <2>1. incoming \in Order /\ incoming.status = "PENDING" /\ mu = p
    BY <1>0, <1>1 DEF TypeOK, WorkersConsistent, Working, Exists
  <2>2. InFlight(x)
    BY <1>0, <1>1, Zenon DEF InFlight
  <2>3. incoming.remaining > 0
    BY <1>0, Zenon DEF executePair
  <2> QED
    BY <2>1, <2>2, <2>3, Zenon
<1>3. k \in BookKeys /\ s \in Seq(OrderIds)
  BY <1>2, Zenon DEF OtherSide, Order, BookKeys, Sides, TypeOK
<1>4. removeInvalid(s) = s
  BY <1>3, RemoveInvalidIsIdentity, Zenon
<1>5. i # 0
  BY <1>0, <1>4, Zenon DEF executePair
<1>6. /\ i \in 1..Len(s) /\ orders[s[i]].user # incoming.user /\ canMatch(incoming, orders[s[i]])
      /\ \A j \in 1..Len(s) :
            /\ IsLive(orders[s[j]]) /\ orders[s[j]].user # incoming.user
            /\ canMatch(incoming, orders[s[j]])
            => i <= j
  BY <1>3, <1>5, FindCounterpartyFirst, Zenon
<1>7. PICK m \in OrderIds : m = s[i]
  BY <1>3, <1>6, ElementOfSeq, Zenon
<1> DEFINE maker == orders[m]
<1>8. maker \in Order /\ IsLive(maker) /\ OwnSide(maker) = k /\ ~InFlight(m)
  BY <1>3, <1>6, <1>7, BookOrdersLive, Zenon
<1>9. m # x
  BY <1>2, <1>8, Zenon
<1>10. PICK q \in Nat : /\ q = Smaller(incoming.remaining, maker.remaining) /\ q > 0
                       /\ incoming.remaining - q \in Nat /\ maker.remaining - q \in Nat
  <2>1. PICK a \in Nat, b \in Nat : a = incoming.remaining /\ b = maker.remaining
    BY <1>2, <1>8, Zenon DEF Order
  <2>2. a > 0 /\ b > 0
    BY <1>2, <1>8, <2>1, Zenon DEF IsLive
  <2>3. Smaller(a, b) \in Nat /\ Smaller(a, b) > 0 /\ a - Smaller(a, b) \in Nat /\ b - Smaller(a, b) \in Nat
    BY <2>2 DEF Smaller
  <2> QED
    BY <2>1, <2>3, Zenon
<1>11. q > 0 /\ incoming.remaining - q \in Nat /\ maker.remaining - q \in Nat
  BY <1>10, Zenon
<1>14. orders' = [orders EXCEPT ![x] = FillIncoming(incoming, q), ![m] = FillResting(maker, q)]
  BY <1>0, <1>4, <1>7, <1>9, <1>10, Zenon DEF executePair, TypeOK
<1>15. book' = [book EXCEPT ![k] = IF maker.remaining = q THEN removeOrderIndex(s, i) ELSE s]
  BY <1>0, <1>4, <1>7, <1>10, Zenon DEF executePair
<1>16. trades' = [trades EXCEPT ![p] = Append(@, buildTrade(x, incoming, m, maker, q))]
  BY <1>0, <1>4, <1>7, <1>10, Zenon DEF executePair
<1>20. /\ orders'[x] = FillIncoming(incoming, q) /\ orders'[m] = FillResting(maker, q)
       /\ \A y \in OrderIds : y # x /\ y # m => orders'[y] = orders[y]
  BY <1>9, <1>14, Zenon DEF TypeOK
<1>22. PICK n \in Nat : n = i
  <2>1. Len(s) \in Nat
    BY <1>3, LenProperties, Zenon
  <2> HIDE DEF i, s
  <2> QED
    BY <1>6, <2>1
<1>23. Pairs(p, x, m, q, n)
  <2> HIDE DEF i
  <2> QED
    BY <1>0, <1>1, <1>2, <1>6, <1>7, <1>8, <1>9, <1>10, <1>11, <1>15, <1>16, <1>20, <1>22, Zenon
       DEF Pairs
<1> QED
  BY <1>23, Zenon

=============================================================================
