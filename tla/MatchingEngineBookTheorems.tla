--------------------- MODULE MatchingEngineBookTheorems ---------------------
(***************************************************************************)
(* The order books of MatchingEngine and the story of its events stream:   *)
(* books are in price-time order and not crossed, every trade is with the  *)
(* best resting order of another user, and no event about an order comes   *)
(* before its ORDER_CREATED or after its ORDER_CANCELED.                   *)
(*                                                                         *)
(* That a slice is in order is not inductive.  addToBook puts an order     *)
(* behind those of its price, which is right only if it was announced      *)
(* after all of them; BookInv relates the books, the workers and the       *)
(* places of the ORDER_CREATED events in the stream.  Story does the same  *)
(* for the events about trades and cancellations.                          *)
(***************************************************************************)
EXTENDS MatchingEngineProofs

(***************************************************************************)
(* The inductive invariant.                                                *)
(***************************************************************************)

\* The ORDER_CREATED of the order is on the stream.
Announced(id) == Contains(stream, CreatedEvent(id))

\* A worker has stored the order and not yet emitted its ORDER_CREATED.
BeingCreated(id) == \E p \in Partitions : cur[p] = id /\ pc[p] = "created"

\* The commands about the order's market go to the worker of partition p.
OwnedBy(id, p) == PartitionOf[orders[id].event] = p

\* A worker stores and matches orders of its own markets.
WorkersOwn == \A p \in Partitions : Working(p) => OwnedBy(cur[p], p)

\* The announced orders are the stored ones that are not still being created.
StoredIsAnnounced ==
    \A id \in OrderIds : Announced(id) <=> Exists(id) /\ ~BeingCreated(id)

\* The order a worker is about to rest is newer than all that rest in its
\* market, so putting it behind those of its price is right.
NewestLast ==
    \A p \in Partitions : pc[p] \in {"waiting", "matching"} =>
        \A k \in BookKeys : k[1] = orders[cur[p]].event =>
            \A i \in 1..Len(book[k]) : CreatedAt(book[k][i]) < CreatedAt(cur[p])

\* Every slice is in price-time order.
BooksSorted ==
    \A k \in BookKeys : \A i, j \in 1..Len(book[k]) :
        i < j => HasPriority(book[k][i], book[k][j])

\* No bid reaches an ask of another user, while orders are matched either.
NothingCrosses ==
    \A e \in Events, out \in Outcomes :
        \A i \in 1..Len(book[<<e, out, "BUY">>]), j \in 1..Len(book[<<e, out, "SELL">>]) :
            LET b == orders[book[<<e, out, "BUY">>][i]]
                a == orders[book[<<e, out, "SELL">>][j]]
            IN  b.user # a.user => b.price < a.price

BookInv == WorkersOwn /\ StoredIsAnnounced /\ NewestLast /\ BooksSorted /\ NothingCrosses

(***************************************************************************)
(* The stream.                                                             *)
(***************************************************************************)

\* What an Append adds to a sequence.
LEMMA ContainsAppend ==
  ASSUME NEW S, NEW s \in Seq(S), NEW e, NEW x
  PROVE  Contains(Append(s, e), x) <=> Contains(s, x) \/ x = e
<1> DEFINE r == Append(s, e)
<1>1. /\ Len(r) = Len(s) + 1 /\ Len(s) \in Nat
      /\ \A i \in 1..Len(s) : r[i] = s[i]
      /\ r[Len(s) + 1] = e
  OBVIOUS
<1> HIDE DEF r
<1>2. \A i \in 1..Len(r) : i \in 1..Len(s) \/ i = Len(s) + 1
  BY <1>1
<1>3. \A i \in 1..Len(s) : i \in 1..Len(r)
  BY <1>1
<1>4. Len(s) + 1 \in 1..Len(r)
  BY <1>1
<1>5. Contains(r, x) <=> Contains(s, x) \/ x = e
  BY <1>1, <1>2, <1>3, <1>4, Zenon DEF Contains
<1> QED
  BY <1>5, Zenon DEF r

\* CreatedAt is the place of the order's first ORDER_CREATED, 0 without one.
CreatedCounted ==
    \A id \in OrderIds :
        /\ CreatedAt(id) \in 0..Len(stream)
        /\ CreatedAt(id) = 0 <=> ~Announced(id)

\* FirstIndex finds that place.
LEMMA CreatedAtProperty == TypeOK => CreatedCounted
<1> SUFFICES ASSUME TypeOK, NEW id \in OrderIds
             PROVE  /\ CreatedAt(id) \in 0..Len(stream)
                    /\ CreatedAt(id) = 0 <=> ~Announced(id)
  BY Zenon DEF CreatedCounted
<1> DEFINE I == {i \in 1..Len(stream) : stream[i] = CreatedEvent(id)}
<1>1. Len(stream) \in Nat
  BY DEF TypeOK
<1>2. CreatedAt(id) = IF I # {} THEN Min(I) ELSE 0
  BY Zenon DEF CreatedAt, FirstIndex
<1>3. Announced(id) <=> I # {}
  BY Zenon DEF Announced, Contains
<1>4. CASE I = {}
  BY <1>1, <1>2, <1>3, <1>4
<1>5. CASE I # {}
  <2>1. I \in SUBSET Nat
    BY <1>1
  <2>2. Min(I) \in I
    BY <1>5, <2>1, MinProperty, Zenon
  <2>3. Min(I) \in 1..Len(stream)
    BY <2>2, Zenon
  <2> HIDE DEF I
  <2> QED
    BY <1>1, <1>2, <1>3, <1>5, <2>3
<1> QED
  BY <1>4, <1>5, Zenon

\* Another event moves no ORDER_CREATED; the first for an order is last.
LEMMA CreatedAtAppend ==
  ASSUME TypeOK, NEW ev, stream' = Append(stream, ev), NEW id \in OrderIds
  PROVE  /\ Announced(id)' <=> Announced(id) \/ ev = CreatedEvent(id)
         /\ Announced(id) => CreatedAt(id)' = CreatedAt(id)
         /\ ~Announced(id) /\ ev = CreatedEvent(id) => CreatedAt(id)' = Len(stream) + 1
<1> DEFINE I == {i \in 1..Len(stream) : stream[i] = CreatedEvent(id)}
           J == {i \in 1..Len(stream') : stream'[i] = CreatedEvent(id)}
<1>1. stream \in Seq(StreamEvent) /\ Len(stream) \in Nat
  BY DEF TypeOK
<1>2. /\ Len(stream') = Len(stream) + 1
      /\ \A i \in 1..Len(stream) : stream'[i] = stream[i]
      /\ stream'[Len(stream) + 1] = ev
  BY <1>1
<1>3. Announced(id)' <=> Announced(id) \/ ev = CreatedEvent(id)
  <2>1. Contains(stream', CreatedEvent(id)) <=>
           Contains(stream, CreatedEvent(id)) \/ CreatedEvent(id) = ev
    BY <1>1, ContainsAppend, Zenon
  <2> QED
    BY <2>1, Zenon DEF Announced, CreatedEvent
<1>4. /\ CreatedAt(id) = IF I # {} THEN Min(I) ELSE 0
      /\ CreatedAt(id)' = IF J # {} THEN Min(J) ELSE 0
  BY Zenon DEF CreatedAt, FirstIndex, CreatedEvent
<1>5. Announced(id) <=> I # {}
  BY Zenon DEF Announced, Contains
<1>6. I \in SUBSET Nat /\ J \in SUBSET Nat
  BY <1>1, <1>2
<1>7. /\ I \subseteq J /\ \A i \in I : i <= Len(stream)
      /\ \A i \in J : i \in I \/ i = Len(stream) + 1
      /\ Len(stream) + 1 \in J <=> ev = CreatedEvent(id)
  BY <1>1, <1>2
<1> HIDE DEF I, J
<1>8. ASSUME Announced(id) PROVE CreatedAt(id)' = CreatedAt(id)
  <2>1. I # {} /\ J # {}
    BY <1>5, <1>7, <1>8, Zenon
  <2>2. PICK a \in Nat : a = Min(I) /\ a \in I /\ \A y \in I : a <= y
    BY <1>6, <2>1, MinProperty, Zenon
  <2>3. PICK b \in Nat : b = Min(J) /\ b \in J /\ \A y \in J : b <= y
    BY <1>6, <2>1, MinProperty, Zenon
  <2>4. a = b
    BY <1>1, <1>7, <2>2, <2>3
  <2> QED
    BY <1>4, <2>1, <2>2, <2>3, <2>4, Zenon
<1>9. ASSUME ~Announced(id), ev = CreatedEvent(id) PROVE CreatedAt(id)' = Len(stream) + 1
  <2>1. I = {} /\ J # {}
    BY <1>5, <1>7, <1>9, Zenon
  <2>2. PICK b \in Nat : b = Min(J) /\ b \in J
    BY <1>6, <2>1, MinProperty, Zenon
  <2> QED
    BY <1>4, <1>7, <2>1, <2>2, Zenon
<1> QED
  BY <1>3, <1>8, <1>9, Zenon

(***************************************************************************)
(* Steps that add nothing to a book.                                       *)
(***************************************************************************)

\* Slice r is s without some of its orders; the others keep their order.
Thins(r, s) ==
    /\ \A i \in 1..Len(r) : \E m \in 1..Len(s) : r[i] = s[m]
    /\ \A i, j \in 1..Len(r) : i < j =>
          \E m, n \in 1..Len(s) : m < n /\ r[i] = s[m] /\ r[j] = s[n]

Thinned(k) == Thins(book'[k], book[k])

\* The order is still stored, and what it asks for is the same.
SameTerms(id) ==
    /\ orders'[id] # NoOrder
    /\ orders'[id].user = orders[id].user
    /\ orders'[id].event = orders[id].event
    /\ orders'[id].outcome = orders[id].outcome
    /\ orders'[id].side = orders[id].side
    /\ orders'[id].price = orders[id].price

\* The orders of the books, and those that workers may match, are announced.
LEMMA BookOrdersAnnounced ==
  ASSUME Consistent, StoredIsAnnounced
  PROVE  /\ \A k \in BookKeys : \A i \in 1..Len(book[k]) :
               book[k][i] \in OrderIds /\ Announced(book[k][i])
         /\ \A p \in Partitions : Working(p) /\ pc[p] # "created" =>
               cur[p] \in OrderIds /\ Announced(cur[p])
<1>1. TypeOK /\ WorkersConsistent /\ BookHoldsOpenOrders /\ FillsAddUp
  BY Zenon DEF Consistent
<1>2. ASSUME NEW k \in BookKeys, NEW i \in 1..Len(book[k])
      PROVE  book[k][i] \in OrderIds /\ Announced(book[k][i])
  <2>1. /\ book[k][i] \in OrderIds /\ orders[book[k][i]] \in Order
        /\ ~InFlight(book[k][i])
    BY <1>1, BookOrdersLive, Zenon
  <2>2. Exists(book[k][i])
    BY <2>1, ConstantsAssumption, Zenon DEF Exists
  <2>3. ~BeingCreated(book[k][i])
    BY <2>1, Zenon DEF BeingCreated, InFlight
  <2> QED
    BY <2>1, <2>2, <2>3, Zenon DEF StoredIsAnnounced
<1>3. ASSUME NEW p \in Partitions, Working(p), pc[p] # "created"
      PROVE  cur[p] \in OrderIds /\ Announced(cur[p])
  <2>1. Exists(cur[p]) /\ cur[p] \in OrderIds
    BY <1>1, <1>3, ConstantsAssumption, Zenon DEF WorkersConsistent, TypeOK, Working
  <2>2. ~BeingCreated(cur[p])
    BY <1>1, <1>3, Zenon DEF WorkersConsistent, BeingCreated, Working
  <2> QED
    BY <2>1, <2>2, Zenon DEF StoredIsAnnounced
<1> QED
  BY <1>2, <1>3, Zenon

\* Priority depends on the terms of the orders and their places in the stream.
LEMMA PriorityKept ==
  ASSUME NEW a \in OrderIds, NEW b \in OrderIds, HasPriority(a, b),
         SameTerms(a), SameTerms(b),
         CreatedAt(a)' = CreatedAt(a), CreatedAt(b)' = CreatedAt(b)
  PROVE  HasPriority(a, b)'
<1>1. /\ orders'[a].price = orders[a].price /\ orders'[b].price = orders[b].price
      /\ orders'[a].side = orders[a].side
  BY Zenon DEF SameTerms
<1> QED
  BY <1>1, Zenon DEF HasPriority, SortsAfter

\* The order of a waiting or matching worker stays the newest.
LEMMA NewestKept ==
  ASSUME Consistent, BookInv,
         \A k \in BookKeys : Thinned(k),
         \A id \in OrderIds : Announced(id) => SameTerms(id) /\ CreatedAt(id)' = CreatedAt(id),
         NEW p \in Partitions, pc[p] \in {"waiting", "matching"}, cur'[p] = cur[p],
         NEW k \in BookKeys, k[1] = orders'[cur'[p]].event,
         NEW i \in 1..Len(book'[k])
  PROVE  CreatedAt(book[k][i])' < CreatedAt(cur[p])'
<1>1. /\ \A k2 \in BookKeys : \A i2 \in 1..Len(book[k2]) :
            book[k2][i2] \in OrderIds /\ Announced(book[k2][i2])
      /\ \A p2 \in Partitions : Working(p2) /\ pc[p2] # "created" =>
            cur[p2] \in OrderIds /\ Announced(cur[p2])
  BY BookOrdersAnnounced, Zenon DEF BookInv
<1>2. PICK c \in OrderIds : c = cur[p] /\ Announced(c)
  BY <1>1, Zenon DEF Working
<1>3. orders'[c].event = orders[c].event /\ CreatedAt(c)' = CreatedAt(c)
  BY <1>2, Zenon DEF SameTerms
<1>4. PICK m \in 1..Len(book[k]) : book'[k][i] = book[k][m]
  BY Zenon DEF Thinned, Thins
<1>5. PICK b \in OrderIds : b = book[k][m] /\ Announced(b)
  BY <1>1, Zenon
<1>6. CreatedAt(b) < CreatedAt(c)
  BY <1>2, <1>3, <1>5, Zenon DEF BookInv, NewestLast
<1>7. CreatedAt(b)' = CreatedAt(b)
  BY <1>5, Zenon
<1>8. CreatedAt(b)' < CreatedAt(c)'
  BY <1>3, <1>6, <1>7, Zenon
<1> QED
  BY <1>2, <1>4, <1>5, <1>8, Zenon

\* The slices stay sorted, and nothing comes to cross.
LEMMA ThinnedBooksSound ==
  ASSUME Consistent, BookInv,
         \A k \in BookKeys : Thinned(k),
         \A id \in OrderIds : Announced(id) => SameTerms(id) /\ CreatedAt(id)' = CreatedAt(id)
  PROVE  BooksSorted' /\ NothingCrosses'
<1>1. \A k \in BookKeys : \A i \in 1..Len(book[k]) :
            book[k][i] \in OrderIds /\ Announced(book[k][i])
  BY BookOrdersAnnounced, Zenon DEF BookInv
<1>2. BooksSorted'
  <2> SUFFICES ASSUME NEW k \in BookKeys,
                      NEW i \in 1..Len(book'[k]), NEW j \in 1..Len(book'[k]), i < j
               PROVE  HasPriority(book[k][i], book[k][j])'
    BY Zenon DEF BooksSorted
  <2>1. PICK m, n \in 1..Len(book[k]) :
           m < n /\ book'[k][i] = book[k][m] /\ book'[k][j] = book[k][n]
    BY Zenon DEF Thinned, Thins
  <2>2. PICK a \in OrderIds, b \in OrderIds : a = book[k][m] /\ b = book[k][n]
    BY <1>1, Zenon
  <2>3. HasPriority(a, b)
    BY <2>1, <2>2, Zenon DEF BookInv, BooksSorted
  <2>4. Announced(a) /\ Announced(b)
    BY <1>1, <2>2, Zenon
  <2>5. HasPriority(a, b)'
    BY <2>3, <2>4, PriorityKept, Zenon
  <2> QED
    BY <2>1, <2>2, <2>5, Zenon
<1>3. NothingCrosses'
  <2> SUFFICES ASSUME NEW e \in Events, NEW out \in Outcomes,
                      NEW i \in 1..Len(book'[<<e, out, "BUY">>]),
                      NEW j \in 1..Len(book'[<<e, out, "SELL">>]),
                      orders'[book'[<<e, out, "BUY">>][i]].user
                        # orders'[book'[<<e, out, "SELL">>][j]].user
               PROVE  orders'[book'[<<e, out, "BUY">>][i]].price
                        < orders'[book'[<<e, out, "SELL">>][j]].price
    BY Zenon DEF NothingCrosses
  <2>1. PICK k \in BookKeys, l \in BookKeys : k = <<e, out, "BUY">> /\ l = <<e, out, "SELL">>
    BY Zenon DEF BookKeys, Sides
  <2>2. PICK m \in 1..Len(book[k]) : book'[k][i] = book[k][m]
    BY <2>1, Zenon DEF Thinned, Thins
  <2>3. PICK n \in 1..Len(book[l]) : book'[l][j] = book[l][n]
    BY <2>1, Zenon DEF Thinned, Thins
  <2>4. PICK b \in OrderIds, a \in OrderIds : b = book[k][m] /\ a = book[l][n]
    BY <1>1, Zenon
  <2>5. Announced(a) /\ Announced(b)
    BY <1>1, <2>4, Zenon
  <2>6. /\ orders'[a].user = orders[a].user /\ orders'[a].price = orders[a].price
        /\ orders'[b].user = orders[b].user /\ orders'[b].price = orders[b].price
    BY <2>5, Zenon DEF SameTerms
  <2>7. orders[b].user # orders[a].user => orders[b].price < orders[a].price
    BY <2>1, <2>2, <2>3, <2>4, Zenon DEF BookInv, NothingCrosses
  <2> QED
    BY <2>1, <2>2, <2>3, <2>4, <2>6, <2>7, Zenon
<1> QED
  BY <1>2, <1>3, Zenon

\* A step that adds no order to a book or to the stream.
LEMMA SteadyStep ==
  ASSUME Consistent, Consistent', BookInv,
         \A k \in BookKeys : Thinned(k),
         \A id \in OrderIds : Announced(id) => SameTerms(id) /\ CreatedAt(id)' = CreatedAt(id),
         \A id \in OrderIds :
            /\ Announced(id)' <=> Announced(id)
            /\ Exists(id)' /\ ~BeingCreated(id)' <=> Exists(id) /\ ~BeingCreated(id),
         \A q \in Partitions : Working(q)' =>
            \/ OwnedBy(cur[q], q)'
            \/ /\ Working(q) /\ cur'[q] = cur[q]
               /\ orders'[cur[q]].event = orders[cur[q]].event,
         \A q \in Partitions : pc'[q] \in {"waiting", "matching"} =>
            pc[q] \in {"waiting", "matching"} /\ cur'[q] = cur[q]
  PROVE  BookInv'
<1>1. WorkersOwn'
  <2> SUFFICES ASSUME NEW q \in Partitions, Working(q)' PROVE OwnedBy(cur[q], q)'
    BY Zenon DEF WorkersOwn
  <2>1. CASE /\ Working(q) /\ cur'[q] = cur[q]
             /\ orders'[cur[q]].event = orders[cur[q]].event
    <3>1. OwnedBy(cur[q], q)
      BY <2>1, Zenon DEF BookInv, WorkersOwn
    <3> QED
      BY <2>1, <3>1, Zenon DEF OwnedBy
  <2> QED
    BY <2>1, Zenon
<1>2. StoredIsAnnounced'
  BY Zenon DEF BookInv, StoredIsAnnounced
<1>3. NewestLast'
  <2> SUFFICES ASSUME NEW p \in Partitions, pc'[p] \in {"waiting", "matching"},
                      NEW k \in BookKeys, k[1] = orders'[cur'[p]].event,
                      NEW i \in 1..Len(book'[k])
               PROVE  CreatedAt(book[k][i])' < CreatedAt(cur[p])'
    BY Zenon DEF NewestLast
  <2>1. pc[p] \in {"waiting", "matching"} /\ cur'[p] = cur[p]
    BY Zenon
  <2> QED
    BY <2>1, NewestKept, Zenon
<1>4. BooksSorted' /\ NothingCrosses'
  BY ThinnedBooksSound, Zenon
<1> QED
  BY <1>1, <1>2, <1>3, <1>4, Zenon DEF BookInv

(***************************************************************************)
(* The steps that leave the books alone, or only take orders out.          *)
(***************************************************************************)

\* removeOrderIndex only thins a slice.
LEMMA RemoveThins ==
  ASSUME NEW s \in Seq(OrderIds), NEW i \in 1..Len(s)
  PROVE  Thins(removeOrderIndex(s, i), s)
<1>1. PICK r : r = removeOrderIndex(s, i)
  BY Zenon
<1>2. /\ Len(r) = Len(s) - 1 /\ Len(s) \in Nat
      /\ \A j \in 1..(Len(s) - 1) : r[j] = IF j < i THEN s[j] ELSE s[j + 1]
  BY <1>1, RemoveIndexProperty
<1>3. \A j \in 1..Len(r) : \E m \in 1..Len(s) : r[j] = s[m]
  BY <1>2
<1>4. ASSUME NEW j \in 1..Len(r), NEW l \in 1..Len(r), j < l
      PROVE  \E m, n \in 1..Len(s) : m < n /\ r[j] = s[m] /\ r[l] = s[n]
  <2>1. PICK m \in 1..Len(s) : m = (IF j < i THEN j ELSE j + 1)
    BY <1>2
  <2>2. PICK n \in 1..Len(s) : n = (IF l < i THEN l ELSE l + 1)
    BY <1>2
  <2>3. r[j] = s[m] /\ r[l] = s[n] /\ m < n
    BY <1>2, <1>4, <2>1, <2>2
  <2> QED
    BY <2>3, Zenon
<1>5. Thins(r, s)
  BY <1>3, <1>4, Zenon DEF Thins
<1> QED
  BY <1>1, <1>5, Zenon

\* And so does removeOrderFromSlice.
LEMMA RemoveIdThins ==
  ASSUME NEW s \in Seq(OrderIds), NEW id
  PROVE  Thins(removeOrderFromSlice(s, id), s)
<1> DEFINE I == {j \in 1..Len(s) : s[j] = id}
<1>1. \/ removeOrderFromSlice(s, id) = s
      \/ I # {} /\ removeOrderFromSlice(s, id) = removeOrderIndex(s, Min(I))
  BY Zenon DEF removeOrderFromSlice, FirstIndex
<1>2. CASE removeOrderFromSlice(s, id) = s
  BY <1>2, Zenon DEF Thins
<1>3. CASE I # {} /\ removeOrderFromSlice(s, id) = removeOrderIndex(s, Min(I))
  <2>1. I \in SUBSET Nat
    OBVIOUS
  <2>2. Min(I) \in I
    BY <1>3, <2>1, MinProperty, Zenon
  <2>3. PICK i \in 1..Len(s) : i = Min(I)
    BY <2>2, Zenon
  <2> QED
    BY <1>3, <2>3, RemoveThins, Zenon
<1> QED
  BY <1>1, <1>2, <1>3, Zenon

\* A step of p that stores, drops and announces no order, and adds none to a
\* book.
LEMMA StayStep ==
  ASSUME Consistent, Consistent', BookInv, NEW p \in Partitions,
         \A k \in BookKeys : Thinned(k),
         \A id \in OrderIds : /\ Exists(id)' <=> Exists(id)
                              /\ Exists(id) => SameTerms(id),
         \A id \in OrderIds : /\ Announced(id)' <=> Announced(id)
                              /\ Announced(id) => CreatedAt(id)' = CreatedAt(id),
         \A q \in Partitions : q # p => pc'[q] = pc[q] /\ cur'[q] = cur[q],
         pc[p] # "created", pc'[p] # "created",
         Working(p)' => Working(p) /\ cur'[p] = cur[p],
         pc'[p] \in {"waiting", "matching"} => pc[p] \in {"waiting", "matching"}
  PROVE  BookInv'
<1>1. TypeOK /\ WorkersConsistent
  BY Zenon DEF Consistent
<1>2. \A id \in OrderIds : Announced(id) => SameTerms(id) /\ CreatedAt(id)' = CreatedAt(id)
  BY Zenon DEF BookInv, StoredIsAnnounced
<1>3. \A id \in OrderIds : BeingCreated(id)' <=> BeingCreated(id)
  BY Zenon DEF BeingCreated
<1>4. ASSUME NEW q \in Partitions, Working(q)'
      PROVE  /\ Working(q) /\ cur'[q] = cur[q]
             /\ orders'[cur[q]].event = orders[cur[q]].event
  <2>1. Working(q) /\ cur'[q] = cur[q]
    BY <1>4, Zenon DEF Working
  <2>2. Exists(cur[q]) /\ cur[q] \in OrderIds
    BY <1>1, <2>1, ConstantsAssumption DEF WorkersConsistent, TypeOK, Working
  <2> QED
    BY <2>1, <2>2, Zenon DEF SameTerms
<1>5. \A q \in Partitions : pc'[q] \in {"waiting", "matching"} =>
            pc[q] \in {"waiting", "matching"} /\ cur'[q] = cur[q]
  BY Zenon DEF Working
<1> QED
  BY <1>2, <1>3, <1>4, <1>5, SteadyStep, Zenon

\* What is announced, and when, depends on the stream only.
LEMMA SameStream ==
  ASSUME stream' = stream, NEW id
  PROVE  (Announced(id)' <=> Announced(id)) /\ CreatedAt(id)' = CreatedAt(id)
  BY Zenon DEF Announced, CreatedAt, CreatedEvent, Contains, FirstIndex

\* The steps that change no order and no book.
LEMMA QuietBookSteps ==
  ASSUME Consistent, Consistent', BookInv, NEW p \in Partitions,
         \/ \E u \in Users : handleUserCreated(p, u)
         \/ \E e \in Events : handleCreateEvent(p, e)
         \/ \E id \in OrderIds, r \in Requests : RejectUnfundedBuy(p, id, r)
         \/ StartMatch(p) \/ SkipCanceled(p) \/ publishTrade(p)
         \/ FinishOrder(p) \/ EmitOrderCanceled(p) \/ UNCHANGED vars
  PROVE  BookInv'
<1>1. TypeOK
  BY Zenon DEF Consistent
<1>2. /\ UNCHANGED <<orders, book>>
      /\ \/ stream' = stream
         \/ \E t : stream' = Append(stream, TradeEvent(t))
         \/ \E id : stream' = Append(stream, CanceledEvent(id))
      /\ \/ UNCHANGED <<pc, cur>>
         \/ /\ pc[p] = "waiting" /\ pc' = [pc EXCEPT ![p] = "matching"] /\ cur' = cur
         \/ /\ pc[p] \in {"waiting", "publishing", "canceled"}
            /\ pc' = [pc EXCEPT ![p] = "idle"] /\ cur' = [cur EXCEPT ![p] = NoOrder]
  <2>1. CASE \E u \in Users : handleUserCreated(p, u)
    BY <2>1, Zenon DEF handleUserCreated, workerVars
  <2>2. CASE \E e \in Events : handleCreateEvent(p, e)
    BY <2>2, Zenon DEF handleCreateEvent, workerVars
  <2>3. CASE \E id \in OrderIds, r \in Requests : RejectUnfundedBuy(p, id, r)
    BY <2>3, Zenon DEF RejectUnfundedBuy, workerVars
  <2>4. CASE StartMatch(p)
    BY <2>4, Zenon DEF StartMatch
  <2>5. CASE SkipCanceled(p)
    BY <2>5, Zenon DEF SkipCanceled
  <2>6. CASE publishTrade(p)
    BY <2>6, Zenon DEF publishTrade
  <2>7. CASE FinishOrder(p)
    BY <2>7, Zenon DEF FinishOrder
  <2>8. CASE EmitOrderCanceled(p)
    BY <2>8, Zenon DEF EmitOrderCanceled
  <2>9. CASE UNCHANGED vars
    BY <2>9, Zenon DEF vars, workerVars
  <2> QED
    BY <2>1, <2>2, <2>3, <2>4, <2>5, <2>6, <2>7, <2>8, <2>9, Zenon
<1>3. \/ UNCHANGED <<pc, cur>>
      \/ /\ pc[p] # "created" /\ pc'[p] # "created"
         /\ \A q \in Partitions : q # p => pc'[q] = pc[q] /\ cur'[q] = cur[q]
         /\ Working(p)' => Working(p) /\ cur'[p] = cur[p]
         /\ pc'[p] \in {"waiting", "matching"} => pc[p] \in {"waiting", "matching"}
  BY <1>1, <1>2, Zenon DEF TypeOK, Working
<1>4. \A id \in OrderIds : /\ Announced(id)' <=> Announced(id)
                           /\ Announced(id) => CreatedAt(id)' = CreatedAt(id)
  <2>1. CASE stream' = stream
    BY <2>1, SameStream, Zenon
  <2>2. CASE \E t : stream' = Append(stream, TradeEvent(t))
    <3>1. PICK t : stream' = Append(stream, TradeEvent(t))
      BY <2>2, Zenon
    <3>2. \A id : TradeEvent(t) # CreatedEvent(id)
      BY Zenon DEF TradeEvent, CreatedEvent
    <3> QED
      BY <1>1, <3>1, <3>2, CreatedAtAppend, Zenon
  <2>3. CASE \E id : stream' = Append(stream, CanceledEvent(id))
    <3>1. PICK id : stream' = Append(stream, CanceledEvent(id))
      BY <2>3, Zenon
    <3>2. \A y : CanceledEvent(id) # CreatedEvent(y)
      BY Zenon DEF CanceledEvent, CreatedEvent
    <3> QED
      BY <1>1, <3>1, <3>2, CreatedAtAppend, Zenon
  <2> QED
    BY <1>2, <2>1, <2>2, <2>3, Zenon
<1>5. \A id \in OrderIds : /\ Exists(id)' <=> Exists(id)
                           /\ Exists(id) => SameTerms(id)
  BY <1>2, Zenon DEF Exists, SameTerms
<1>6. \A k \in BookKeys : Thinned(k)
  BY <1>2, Zenon DEF Thinned, Thins
<1>7. CASE ~UNCHANGED <<pc, cur>>
  BY <1>3, <1>4, <1>5, <1>6, <1>7, StayStep, Zenon
<1>8. CASE UNCHANGED <<pc, cur>>
  <2>1. \A id \in OrderIds : BeingCreated(id)' <=> BeingCreated(id)
    BY <1>8, Zenon DEF BeingCreated
  <2>2. \A id \in OrderIds : Announced(id) => SameTerms(id) /\ CreatedAt(id)' = CreatedAt(id)
    BY <1>4, <1>5, Zenon DEF BookInv, StoredIsAnnounced
  <2>3. \A q \in Partitions : Working(q)' =>
            /\ Working(q) /\ cur'[q] = cur[q]
            /\ orders'[cur[q]].event = orders[cur[q]].event
    BY <1>2, <1>8, Zenon DEF Working
  <2>4. \A q \in Partitions : pc'[q] \in {"waiting", "matching"} =>
            pc[q] \in {"waiting", "matching"} /\ cur'[q] = cur[q]
    BY <1>8, Zenon
  <2> QED
    BY <1>4, <1>5, <1>6, <2>1, <2>2, <2>3, <2>4, SteadyStep, Zenon
<1> QED
  BY <1>7, <1>8, Zenon

\* A stored order is not announced yet and rests nowhere.
LEMMA AcceptOrderBooks ==
  ASSUME Consistent, Consistent', BookInv, NEW p \in Partitions,
         NEW x \in OrderIds, NEW r \in Requests, AcceptOrder(p, x, r)
  PROVE  BookInv'
<1>1. /\ pc[p] = "idle" /\ orders[x] = NoOrder /\ PartitionOf[r.event] = p
      /\ orders' = [orders EXCEPT ![x] = NewOrder(r)]
      /\ pc' = [pc EXCEPT ![p] = "created"] /\ cur' = [cur EXCEPT ![p] = x]
      /\ UNCHANGED <<book, stream>>
  BY Zenon DEF AcceptOrder, OrderArrives
<1>2. TypeOK /\ WorkersConsistent
  BY Zenon DEF Consistent
<1>3. /\ orders'[x] = NewOrder(r) /\ \A y \in OrderIds : y # x => orders'[y] = orders[y]
      /\ pc'[p] = "created" /\ cur'[p] = x
      /\ \A q \in Partitions : q # p => pc'[q] = pc[q] /\ cur'[q] = cur[q]
  BY <1>1, <1>2, Zenon DEF TypeOK
<1>4. \A k \in BookKeys : Thinned(k)
  BY <1>1, Zenon DEF Thinned, Thins
<1>5. \A id \in OrderIds : (Announced(id)' <=> Announced(id)) /\ CreatedAt(id)' = CreatedAt(id)
  BY <1>1, SameStream, Zenon
<1>6. \A id \in OrderIds : Announced(id) => id # x /\ Exists(id)
  BY <1>1, Zenon DEF BookInv, StoredIsAnnounced, Exists
<1>7. \A id \in OrderIds : Announced(id) => SameTerms(id)
  BY <1>3, <1>6, Zenon DEF SameTerms, Exists
<1>8. ASSUME NEW id \in OrderIds
      PROVE  Exists(id)' /\ ~BeingCreated(id)' <=> Exists(id) /\ ~BeingCreated(id)
  <2>1. CASE id = x
    <3>1. BeingCreated(x)'
      BY <1>3, Zenon DEF BeingCreated
    <3> QED
      BY <1>1, <2>1, <3>1, Zenon DEF Exists
  <2>2. CASE id # x
    <3>1. BeingCreated(id)' <=> BeingCreated(id)
      BY <1>1, <1>3, <2>2 DEF BeingCreated
    <3>2. Exists(id)' <=> Exists(id)
      BY <1>3, <2>2, Zenon DEF Exists
    <3> QED
      BY <3>1, <3>2, Zenon
  <2> QED
    BY <2>1, <2>2, Zenon
<1>9. ASSUME NEW q \in Partitions, Working(q)'
      PROVE  \/ OwnedBy(cur[q], q)'
             \/ /\ Working(q) /\ cur'[q] = cur[q]
                /\ orders'[cur[q]].event = orders[cur[q]].event
  <2>1. CASE q = p
    <3>1. orders'[cur'[q]].event = r.event
      BY <1>3, <2>1 DEF NewOrder
    <3> QED
      BY <1>1, <2>1, <3>1, Zenon DEF OwnedBy
  <2>2. CASE q # p
    <3>1. Working(q) /\ cur'[q] = cur[q]
      BY <1>3, <1>9, <2>2, Zenon DEF Working
    <3>2. Exists(cur[q]) /\ cur[q] \in OrderIds
      BY <1>2, <3>1, ConstantsAssumption, Zenon DEF WorkersConsistent, TypeOK, Working
    <3> QED
      BY <1>1, <1>3, <3>1, <3>2, Zenon DEF Exists
  <2> QED
    BY <2>1, <2>2, Zenon
<1>10. \A q \in Partitions : pc'[q] \in {"waiting", "matching"} =>
            pc[q] \in {"waiting", "matching"} /\ cur'[q] = cur[q]
  BY <1>3, Zenon
<1> QED
  BY <1>4, <1>5, <1>7, <1>8, <1>9, <1>10, SteadyStep, Zenon

\* The order that is dropped was not announced and rests nowhere.
LEMMA EmitOrderCreatedFailsBooks ==
  ASSUME Consistent, Consistent', BookInv, NEW p \in Partitions, EmitOrderCreatedFails(p)
  PROVE  BookInv'
<1>1. /\ pc[p] = "created" /\ orders' = [orders EXCEPT ![cur[p]] = NoOrder]
      /\ pc' = [pc EXCEPT ![p] = "idle"] /\ cur' = [cur EXCEPT ![p] = NoOrder]
      /\ UNCHANGED <<book, stream>>
  BY Zenon DEF EmitOrderCreatedFails
<1>2. TypeOK /\ WorkersConsistent
  BY Zenon DEF Consistent
<1>3. PICK x \in OrderIds : x = cur[p]
  BY <1>1, <1>2, ConstantsAssumption, Zenon DEF WorkersConsistent, TypeOK, Working
<1>4. /\ orders'[x] = NoOrder /\ \A y \in OrderIds : y # x => orders'[y] = orders[y]
      /\ pc'[p] = "idle" /\ cur'[p] = NoOrder
      /\ \A q \in Partitions : q # p => pc'[q] = pc[q] /\ cur'[q] = cur[q]
  BY <1>1, <1>2, <1>3, Zenon DEF TypeOK
<1>5. \A k \in BookKeys : Thinned(k)
  BY <1>1, Zenon DEF Thinned, Thins
<1>6. \A id \in OrderIds : (Announced(id)' <=> Announced(id)) /\ CreatedAt(id)' = CreatedAt(id)
  BY <1>1, SameStream, Zenon
<1>7. BeingCreated(x)
  BY <1>1, <1>3, Zenon DEF BeingCreated
<1>8. \A id \in OrderIds : Announced(id) => id # x /\ Exists(id)
  BY <1>7, Zenon DEF BookInv, StoredIsAnnounced
<1>9. \A id \in OrderIds : Announced(id) => SameTerms(id)
  BY <1>4, <1>8, Zenon DEF SameTerms, Exists
<1>10. \A q \in Partitions : q # p /\ Working(q) => cur[q] # x
  BY <1>1, <1>2, <1>3, Zenon DEF WorkersConsistent, Working
<1>11. ASSUME NEW id \in OrderIds
       PROVE  Exists(id)' /\ ~BeingCreated(id)' <=> Exists(id) /\ ~BeingCreated(id)
  <2>1. CASE id = x
    BY <1>4, <1>7, <2>1, Zenon DEF Exists
  <2>2. CASE id # x
    <3>1. BeingCreated(id)' <=> BeingCreated(id)
      BY <1>3, <1>4, <2>2, Zenon DEF BeingCreated
    <3>2. Exists(id)' <=> Exists(id)
      BY <1>4, <2>2, Zenon DEF Exists
    <3> QED
      BY <3>1, <3>2, Zenon
  <2> QED
    BY <2>1, <2>2, Zenon
<1>12. ASSUME NEW q \in Partitions, Working(q)'
       PROVE  /\ Working(q) /\ cur'[q] = cur[q]
              /\ orders'[cur[q]].event = orders[cur[q]].event
  <2>1. q # p
    BY <1>4, <1>12, Zenon DEF Working
  <2>2. Working(q) /\ cur'[q] = cur[q]
    BY <1>4, <1>12, <2>1, Zenon DEF Working
  <2>3. cur[q] \in OrderIds
    BY <1>2, <2>2, ConstantsAssumption, Zenon DEF WorkersConsistent, TypeOK, Working
  <2> QED
    BY <1>4, <1>10, <2>1, <2>2, <2>3, Zenon
<1>13. \A q \in Partitions : pc'[q] \in {"waiting", "matching"} =>
            pc[q] \in {"waiting", "matching"} /\ cur'[q] = cur[q]
  BY <1>4, Zenon
<1> QED
  BY <1>5, <1>6, <1>9, <1>11, <1>12, <1>13, SteadyStep, Zenon

\* The order that is announced is now the newest.
LEMMA EmitOrderCreatedBooks ==
  ASSUME Consistent, Consistent', BookInv, NEW p \in Partitions, EmitOrderCreated(p)
  PROVE  BookInv'
<1>1. /\ pc[p] = "created" /\ stream' = Append(stream, CreatedEvent(cur[p]))
      /\ pc' = [pc EXCEPT ![p] = "waiting"] /\ UNCHANGED <<book, orders, cur>>
  BY Zenon DEF EmitOrderCreated
<1>2. TypeOK /\ TypeOK' /\ WorkersConsistent
  BY Zenon DEF Consistent
<1>3. PICK x \in OrderIds : x = cur[p] /\ Exists(x)
  BY <1>1, <1>2, ConstantsAssumption, Zenon DEF WorkersConsistent, TypeOK, Working
<1>4. pc'[p] = "waiting" /\ \A q \in Partitions : q # p => pc'[q] = pc[q]
  BY <1>1, <1>2, Zenon DEF TypeOK
<1>5. \A k \in BookKeys : Thinned(k)
  BY <1>1, Zenon DEF Thinned, Thins
<1>6. BeingCreated(x) /\ ~Announced(x)
  BY <1>1, <1>3, Zenon DEF BeingCreated, BookInv, StoredIsAnnounced
<1>7. /\ \A id \in OrderIds : Announced(id)' <=> Announced(id) \/ id = x
      /\ \A id \in OrderIds : Announced(id) => CreatedAt(id)' = CreatedAt(id)
      /\ CreatedAt(x)' = Len(stream) + 1
  <2>1. \A id : CreatedEvent(x) = CreatedEvent(id) <=> id = x
    BY Zenon DEF CreatedEvent
  <2>2. stream' = Append(stream, CreatedEvent(x))
    BY <1>1, <1>3, Zenon
  <2> QED
    BY <1>2, <1>6, <2>1, <2>2, CreatedAtAppend, Zenon
<1>8. \A id \in OrderIds : Announced(id) => SameTerms(id) /\ CreatedAt(id)' = CreatedAt(id)
  BY <1>1, <1>7, Zenon DEF SameTerms, BookInv, StoredIsAnnounced, Exists
<1>9. BooksSorted' /\ NothingCrosses'
  BY <1>5, <1>8, ThinnedBooksSound, Zenon
<1>10. WorkersOwn'
  <2>1. \A q \in Partitions : Working(q)' => Working(q)
    BY <1>1, <1>4, Zenon DEF Working
  <2> QED
    BY <1>1, <2>1, Zenon DEF BookInv, WorkersOwn, OwnedBy
<1>11. StoredIsAnnounced'
  <2> SUFFICES ASSUME NEW id \in OrderIds
               PROVE  Announced(id)' <=> Exists(id)' /\ ~BeingCreated(id)'
    BY Zenon DEF StoredIsAnnounced
  <2>1. Exists(id)' <=> Exists(id)
    BY <1>1, Zenon DEF Exists
  <2>2. CASE id = x
    <3>1. \A q \in Partitions : cur[q] = x /\ pc[q] = "created" => q = p
      BY <1>1, <1>2, <1>3, Zenon DEF WorkersConsistent, Working
    <3>2. ~BeingCreated(x)'
      BY <1>1, <1>4, <3>1, Zenon DEF BeingCreated
    <3> QED
      BY <1>3, <1>7, <2>1, <2>2, <3>2, Zenon
  <2>3. CASE id # x
    <3>1. BeingCreated(id)' <=> BeingCreated(id)
      BY <1>1, <1>3, <1>4, <2>3, Zenon DEF BeingCreated
    <3> QED
      BY <1>7, <2>1, <2>3, <3>1, Zenon DEF BookInv, StoredIsAnnounced
  <2> QED
    BY <2>2, <2>3, Zenon
<1>12. NewestLast'
  <2> SUFFICES ASSUME NEW q \in Partitions, pc'[q] \in {"waiting", "matching"},
                      NEW k \in BookKeys, k[1] = orders'[cur'[q]].event,
                      NEW i \in 1..Len(book'[k])
               PROVE  CreatedAt(book[k][i])' < CreatedAt(cur[q])'
    BY Zenon DEF NewestLast
  <2>1. CASE q = p
    <3>1. PICK b \in OrderIds : b = book[k][i] /\ Announced(b)
      BY <1>1, BookOrdersAnnounced, Zenon DEF BookInv
    <3>2. CreatedAt(b) \in 0..Len(stream) /\ Len(stream) \in Nat
      <4>1. CreatedAt(b) \in 0..Len(stream)
        BY <1>2, CreatedAtProperty, Zenon DEF CreatedCounted
      <4>2. Len(stream) \in Nat
        BY <1>2 DEF TypeOK
      <4> QED
        BY <4>1, <4>2, Zenon
    <3>3. CreatedAt(b)' < CreatedAt(x)'
      BY <1>7, <3>1, <3>2
    <3> QED
      BY <1>1, <1>3, <2>1, <3>1, <3>3, Zenon
  <2>2. CASE q # p
    BY <1>1, <1>4, <1>5, <1>8, <2>2, NewestKept, Zenon
  <2> QED
    BY <2>1, <2>2, Zenon
<1> QED
  BY <1>9, <1>10, <1>11, <1>12, Zenon DEF BookInv

\* A step of the matching loop takes at most the maker from its slice.
LEMMA ExecutePairBooks ==
  ASSUME Consistent, Consistent', BookInv, NEW p \in Partitions, executePair(p)
  PROVE  BookInv'
<1>1. PICK x \in OrderIds, m \in OrderIds, q \in Nat, i \in Nat : Pairs(p, x, m, q, i)
  BY ExecutePairEffect, Zenon
<1>2. TypeOK
  BY Zenon DEF Consistent
<1>3. /\ orders[x] \in Order /\ orders[m] \in Order /\ pc[p] = "matching"
      /\ orders'[x] = FillIncoming(orders[x], q) /\ orders'[m] = FillResting(orders[m], q)
      /\ \A y \in OrderIds : y # x /\ y # m => orders'[y] = orders[y]
      /\ UNCHANGED <<pc, cur, stream>>
  BY <1>1, Zenon DEF Pairs
<1>4. PICK k \in BookKeys : k = OtherSide(orders[x])
  <2>1. OtherSide(orders[x]) \in BookKeys
    BY <1>3, Zenon DEF OtherSide, Order, BookKeys, Sides
  <2> QED
    BY <2>1, Zenon
<1>5. /\ i \in 1..Len(book[k])
      /\ book' = [book EXCEPT ![k] = IF orders[m].remaining = q
                                     THEN removeOrderIndex(book[k], i) ELSE book[k]]
  BY <1>1, <1>4, Zenon DEF Pairs
<1>6. ASSUME NEW l \in BookKeys PROVE Thinned(l)
  <2>1. book'[l] = book[l] \/ (l = k /\ book'[l] = removeOrderIndex(book[l], i))
    BY <1>2, <1>5, Zenon DEF TypeOK
  <2>2. CASE book'[l] = book[l]
    BY <2>2, Zenon DEF Thinned, Thins
  <2>3. CASE l = k /\ book'[l] = removeOrderIndex(book[l], i)
    <3>1. book[l] \in Seq(OrderIds)
      BY <1>2, Zenon DEF TypeOK
    <3>2. Thins(removeOrderIndex(book[l], i), book[l])
      BY <1>5, <2>3, <3>1, RemoveThins, Zenon
    <3> QED
      BY <2>3, <3>2, Zenon DEF Thinned
  <2> QED
    BY <2>1, <2>2, <2>3, Zenon
<1>10. orders'[x] \in Order /\ orders'[m] \in Order
  <2>1. q > 0 /\ orders[x].remaining - q \in Nat /\ orders[m].remaining - q \in Nat
    BY <1>1, Zenon DEF Pairs
  <2> QED
    BY <1>3, <2>1, FillProperty
<1>7. ASSUME NEW id \in OrderIds
      PROVE  (Exists(id)' <=> Exists(id)) /\ (Exists(id) => SameTerms(id))
  <2>1. \A o \in Order :
           /\ FillIncoming(o, q).user = o.user /\ FillResting(o, q).user = o.user
           /\ FillIncoming(o, q).event = o.event /\ FillResting(o, q).event = o.event
           /\ FillIncoming(o, q).outcome = o.outcome /\ FillResting(o, q).outcome = o.outcome
           /\ FillIncoming(o, q).side = o.side /\ FillResting(o, q).side = o.side
           /\ FillIncoming(o, q).price = o.price /\ FillResting(o, q).price = o.price
    BY FillKeeps, Zenon
  <2>3. CASE id \in {x, m}
    <3>1. /\ orders'[id].user = orders[id].user /\ orders'[id].event = orders[id].event
          /\ orders'[id].outcome = orders[id].outcome /\ orders'[id].side = orders[id].side
          /\ orders'[id].price = orders[id].price
      BY <1>3, <2>1, <2>3
    <3>2. Exists(id)
      BY <1>3, <2>3, ConstantsAssumption, Zenon DEF Exists
    <3>3. Exists(id)'
      BY <1>10, <2>3, ConstantsAssumption, Zenon DEF Exists
    <3> QED
      BY <3>1, <3>2, <3>3, Zenon DEF SameTerms, Exists
  <2>4. CASE id \notin {x, m}
    BY <1>3, <2>4, Zenon DEF SameTerms, Exists
  <2> QED
    BY <2>3, <2>4, Zenon
<1>8. \A id \in OrderIds : /\ Announced(id)' <=> Announced(id)
                           /\ Announced(id) => CreatedAt(id)' = CreatedAt(id)
  BY <1>3, SameStream, Zenon
<1>9. /\ \A r \in Partitions : r # p => pc'[r] = pc[r] /\ cur'[r] = cur[r]
      /\ pc[p] # "created" /\ pc'[p] # "created"
      /\ Working(p)' => Working(p) /\ cur'[p] = cur[p]
      /\ pc'[p] \in {"waiting", "matching"} => pc[p] \in {"waiting", "matching"}
  BY <1>3, Zenon DEF Working
<1> QED
  BY <1>6, <1>7, <1>8, <1>9, StayStep, Zenon

\* Settling a trade changes locked funds only.
LEMMA SettleTradeBooks ==
  ASSUME Consistent, Consistent', BookInv, NEW p \in Partitions, settleTradeLocked(p)
  PROVE  BookInv'
<1>1. PICK t : t = trades[p][at[p] + 1]
  BY Zenon
<1>2. /\ pc[p] = "settling" /\ UNCHANGED <<book, stream, pc, cur>>
      /\ orders' = [x \in OrderIds |->
            IF x \in {t.taker, t.maker} /\ orders[x] # NoOrder
            THEN ReduceLock(orders[x], t) ELSE orders[x]]
  BY <1>1, Zenon DEF settleTradeLocked
<1>3. TypeOK /\ TypeOK' /\ at[p] < Len(trades[p])
  BY Zenon DEF Consistent, settleTradeLocked
<1>4. t \in Trade
  BY <1>1, <1>3 DEF TypeOK
<1>5. ASSUME NEW id \in OrderIds
      PROVE  (Exists(id)' <=> Exists(id)) /\ (Exists(id) => SameTerms(id))
  <2>1. CASE orders'[id] = orders[id]
    BY <2>1, Zenon DEF Exists, SameTerms
  <2>2. CASE orders[id] # NoOrder /\ orders'[id] = ReduceLock(orders[id], t)
    <3>1. orders[id] \in Order
      BY <1>3, <2>2, Zenon DEF TypeOK
    <3>2. orders'[id] \in Order
      BY <1>4, <2>2, <3>1, ReduceLockProperty, Zenon
    <3>3. PICK l : orders'[id] = [orders[id] EXCEPT !.locked = l]
      BY <2>2, Zenon DEF ReduceLock
    <3>4. /\ orders'[id].user = orders[id].user /\ orders'[id].event = orders[id].event
          /\ orders'[id].outcome = orders[id].outcome /\ orders'[id].side = orders[id].side
          /\ orders'[id].price = orders[id].price
      BY <3>1, <3>3, Zenon DEF Order
    <3> QED
      BY <2>2, <3>2, <3>4, ConstantsAssumption, Zenon DEF Exists, SameTerms
  <2> QED
    BY <1>2, <2>1, <2>2, Zenon
<1>6. \A k \in BookKeys : Thinned(k)
  BY <1>2, Zenon DEF Thinned, Thins
<1>7. \A id \in OrderIds : /\ Announced(id)' <=> Announced(id)
                           /\ Announced(id) => CreatedAt(id)' = CreatedAt(id)
  BY <1>2, SameStream, Zenon
<1>8. /\ \A r \in Partitions : r # p => pc'[r] = pc[r] /\ cur'[r] = cur[r]
      /\ pc[p] # "created" /\ pc'[p] # "created"
      /\ Working(p)' => Working(p) /\ cur'[p] = cur[p]
      /\ pc'[p] \in {"waiting", "matching"} => pc[p] \in {"waiting", "matching"}
  BY <1>2, Zenon DEF Working
<1> QED
  BY <1>5, <1>6, <1>7, <1>8, StayStep, Zenon

\* And so does the release after the last trade.
LEMMA FinishSettleBooks ==
  ASSUME Consistent, Consistent', BookInv, NEW p \in Partitions, FinishSettle(p)
  PROVE  BookInv'
<1>1. /\ pc[p] = "settling" /\ UNCHANGED <<book, stream, cur>>
      /\ \/ orders' = orders
         \/ orders' = [orders EXCEPT ![cur[p]].locked = 0]
      /\ pc' = [pc EXCEPT ![p] = "publishing"]
  BY Zenon DEF FinishSettle
<1>2. TypeOK /\ TypeOK' /\ WorkersConsistent
  BY Zenon DEF Consistent
<1>3. PICK x \in OrderIds : x = cur[p] /\ orders[x] \in Order
  BY <1>1, <1>2, ConstantsAssumption DEF WorkersConsistent, TypeOK, Working, Exists
<1>4. ASSUME NEW id \in OrderIds
      PROVE  (Exists(id)' <=> Exists(id)) /\ (Exists(id) => SameTerms(id))
  <2>1. CASE orders'[id] = orders[id]
    BY <2>1, Zenon DEF Exists, SameTerms
  <2>2. CASE id = x /\ orders'[id] = [orders[id] EXCEPT !.locked = 0]
    <3>1. orders'[id] \in Order
      BY <1>3, <2>2 DEF Order
    <3>2. /\ orders'[id].user = orders[id].user /\ orders'[id].event = orders[id].event
          /\ orders'[id].outcome = orders[id].outcome /\ orders'[id].side = orders[id].side
          /\ orders'[id].price = orders[id].price
      BY <1>3, <2>2, Zenon DEF Order
    <3> QED
      BY <1>3, <2>2, <3>1, <3>2, ConstantsAssumption, Zenon DEF Exists, SameTerms
  <2> QED
    BY <1>1, <1>2, <1>3, <2>1, <2>2, Zenon DEF TypeOK
<1>5. \A k \in BookKeys : Thinned(k)
  BY <1>1, Zenon DEF Thinned, Thins
<1>6. \A id \in OrderIds : /\ Announced(id)' <=> Announced(id)
                           /\ Announced(id) => CreatedAt(id)' = CreatedAt(id)
  BY <1>1, SameStream, Zenon
<1>7. /\ \A r \in Partitions : r # p => pc'[r] = pc[r] /\ cur'[r] = cur[r]
      /\ pc[p] # "created" /\ pc'[p] # "created"
      /\ Working(p)' => Working(p) /\ cur'[p] = cur[p]
      /\ pc'[p] \in {"waiting", "matching"} => pc[p] \in {"waiting", "matching"}
  BY <1>1, <1>2, Zenon DEF Working, TypeOK
<1> QED
  BY <1>4, <1>5, <1>6, <1>7, StayStep, Zenon

\* A cancellation takes an order out of its slice.
LEMMA CancelBooks ==
  ASSUME Consistent, Consistent', BookInv, NEW p \in Partitions,
         NEW x \in OrderIds, NEW e \in CancelEvents, handleCancelOrder(p, x, e)
  PROVE  BookInv'
<1>1. /\ pc[p] = "idle" /\ stream' = stream /\ orders[x] # NoOrder
      /\ book' = [book EXCEPT ![OwnSide(orders[x])] = removeOrderFromSlice(@, x)]
      /\ orders' = [orders EXCEPT ![x].status = "CANCELED", ![x].locked = 0]
      /\ pc' = [pc EXCEPT ![p] = "canceled"] /\ cur' = [cur EXCEPT ![p] = x]
  BY Zenon DEF handleCancelOrder
<1>2. TypeOK /\ TypeOK' /\ WorkersConsistent
  BY Zenon DEF Consistent
<1>3. orders[x] \in Order
  BY <1>1, <1>2, Zenon DEF TypeOK
<1>4. /\ orders'[x] = [orders[x] EXCEPT !.status = "CANCELED", !.locked = 0]
      /\ \A y \in OrderIds : y # x => orders'[y] = orders[y]
  BY <1>1, <1>2, Zenon DEF TypeOK
<1>5. ASSUME NEW id \in OrderIds
      PROVE  (Exists(id)' <=> Exists(id)) /\ (Exists(id) => SameTerms(id))
  <2>1. CASE orders'[id] = orders[id]
    BY <2>1, Zenon DEF Exists, SameTerms
  <2>2. CASE id = x
    <3>1. orders'[x] \in Order
      <4>1. "CANCELED" \in Statuses /\ 0 \in Nat
        BY Zenon DEF Statuses
      <4> QED
        BY <1>3, <1>4, <4>1, Zenon DEF Order
    <3>2. /\ orders'[x].user = orders[x].user /\ orders'[x].event = orders[x].event
          /\ orders'[x].outcome = orders[x].outcome /\ orders'[x].side = orders[x].side
          /\ orders'[x].price = orders[x].price
      BY <1>3, <1>4, Zenon DEF Order
    <3> QED
      BY <1>1, <2>2, <3>1, <3>2, ConstantsAssumption, Zenon DEF Exists, SameTerms
  <2> QED
    BY <1>4, <2>1, <2>2, Zenon
<1>6. ASSUME NEW k \in BookKeys PROVE Thinned(k)
  <2>1. book'[k] = book[k] \/ book'[k] = removeOrderFromSlice(book[k], x)
    BY <1>1, <1>2, Zenon DEF TypeOK
  <2>2. book[k] \in Seq(OrderIds)
    BY <1>2, Zenon DEF TypeOK
  <2>3. Thins(book[k], book[k])
    BY Zenon DEF Thins
  <2> QED
    BY <2>1, <2>2, <2>3, RemoveIdThins, Zenon DEF Thinned
<1>7. \A id \in OrderIds : /\ Announced(id)' <=> Announced(id)
                           /\ Announced(id) => CreatedAt(id)' = CreatedAt(id)
  BY <1>1, SameStream, Zenon
<1>8. /\ \A r \in Partitions : r # p => pc'[r] = pc[r] /\ cur'[r] = cur[r]
      /\ pc[p] # "created" /\ pc'[p] # "created"
      /\ Working(p)' => Working(p) /\ cur'[p] = cur[p]
      /\ pc'[p] \in {"waiting", "matching"} => pc[p] \in {"waiting", "matching"}
  BY <1>1, <1>2, Zenon DEF Working, TypeOK
<1> QED
  BY <1>5, <1>6, <1>7, <1>8, StayStep, Zenon

\* At first there are no orders.
LEMMA InitBooks == Init => BookInv
<1> SUFFICES ASSUME Init PROVE BookInv
  BY Zenon
<1>1. /\ stream = <<>> /\ \A id \in OrderIds : orders[id] = NoOrder
      /\ \A k \in BookKeys : book[k] = <<>>
      /\ \A p \in Partitions : pc[p] = "idle"
  BY Zenon DEF Init
<1>2. WorkersOwn /\ NewestLast
  BY <1>1, Zenon DEF WorkersOwn, NewestLast, Working
<1>3. StoredIsAnnounced
  BY <1>1 DEF StoredIsAnnounced, Announced, Contains, Exists
<1>4. BooksSorted
  BY <1>1 DEF BooksSorted
<1>5. NothingCrosses
  <2>1. \A e \in Events, out \in Outcomes : Len(book[<<e, out, "BUY">>]) = 0
    BY <1>1 DEF BookKeys, Sides
  <2> QED
    BY <2>1 DEF NothingCrosses
<1> QED
  BY <1>2, <1>3, <1>4, <1>5, Zenon DEF BookInv

(***************************************************************************)
(* The end of the matching loop: addToBook puts the rest of a LIMIT order  *)
(* in its slice.                                                           *)
(***************************************************************************)

\* Where addToBook puts an order: behind those that do not sort after it, in
\* front of one that does.
Places(r, s, x, o, n) ==
    /\ n \in 1..(Len(s) + 1) /\ Len(r) = Len(s) + 1
    /\ \A j \in 1..(Len(s) + 1) :
          r[j] = IF j < n THEN s[j] ELSE IF j = n THEN x ELSE s[j - 1]
    /\ \A j \in 1..Len(s) : j < n => ~SortsAfter(orders[s[j]], o)
    /\ n <= Len(s) => SortsAfter(orders[s[n]], o)

\* addToBook finds such a place.
LEMMA AddToBookPlaces ==
  ASSUME NEW s \in Seq(OrderIds), NEW x \in OrderIds, NEW o
  PROVE  \E n \in Nat : Places(addToBook(s, x, o), s, x, o, n)
<1> DEFINE I == {i \in 1..Len(s) : SortsAfter(orders[s[i]], o)}
<1>1. addToBook(s, x, o) = IF I = {} THEN Append(s, x) ELSE
                           IF Min(I) = 0 THEN Append(s, x) ELSE InsertAt(s, Min(I), x)
  BY Zenon DEF addToBook, FirstIndex
<1>2. Len(s) \in Nat
  OBVIOUS
<1>0. /\ Len(Append(s, x)) = Len(s) + 1 /\ Append(s, x)[Len(s) + 1] = x
      /\ \A j \in 1..Len(s) : Append(s, x)[j] = s[j]
  <2> HIDE DEF I
  <2> QED
    OBVIOUS
<1>3. CASE I = {}
  <2>1. PICK r : r = Append(s, x) /\ r = addToBook(s, x, o)
    BY <1>1, <1>3, Zenon
  <2>2. /\ Len(r) = Len(s) + 1 /\ \A j \in 1..Len(s) : r[j] = s[j]
        /\ r[Len(s) + 1] = x
    BY <1>0, <2>1, Zenon
  <2>3. PICK n \in Nat : n = Len(s) + 1
    BY <1>2
  <2>4. \A j \in 1..Len(s) : ~SortsAfter(orders[s[j]], o)
    BY <1>3, Zenon
  <2>5. /\ n \in 1..(Len(s) + 1) /\ ~(n <= Len(s))
        /\ \A j \in 1..(Len(s) + 1) :
             r[j] = IF j < n THEN s[j] ELSE IF j = n THEN x ELSE s[j - 1]
    BY <1>2, <2>2, <2>3
  <2>6. Places(r, s, x, o, n)
    BY <2>2, <2>4, <2>5, Zenon DEF Places
  <2> QED
    BY <2>1, <2>6, Zenon
<1>4. CASE I # {}
  <2>1. I \in SUBSET Nat
    BY <1>2
  <2>2. Min(I) \in I /\ \A y \in I : Min(I) <= y
    BY <1>4, <2>1, MinProperty, Zenon
  <2>3. PICK n \in 1..Len(s) : n = Min(I) /\ SortsAfter(orders[s[n]], o)
    BY <2>2, Zenon
  <2>4. n # 0 /\ n \in Nat
    BY <1>2, <2>3
  <2>5. PICK r : r = InsertAt(s, n, x) /\ r = addToBook(s, x, o)
    BY <1>1, <1>4, <2>3, <2>4, Zenon
  <2>6. /\ Len(r) = Len(s) + 1
        /\ \A j \in 1..(Len(s) + 1) :
              r[j] = IF j < n THEN s[j] ELSE IF j = n THEN x ELSE s[j - 1]
    <3> HIDE DEF I
    <3>1. Inserted(InsertAt(s, n, x), s, n, x)
      BY InsertAtInserts, Zenon
    <3> QED
      BY <2>5, <3>1, Zenon DEF Inserted
  <2>7. \A j \in 1..Len(s) : j < n => ~SortsAfter(orders[s[j]], o)
    <3> SUFFICES ASSUME NEW j \in 1..Len(s), j < n, SortsAfter(orders[s[j]], o) PROVE FALSE
      BY Zenon
    <3>1. j \in I
      BY Zenon
    <3>2. n <= j
      BY <2>2, <2>3, <3>1, Zenon
    <3> QED
      BY <1>2, <2>4, <3>2
  <2>8. n \in 1..(Len(s) + 1)
    BY <1>2, <2>3
  <2>9. Places(r, s, x, o, n)
    BY <2>3, <2>6, <2>7, <2>8, Zenon DEF Places
  <2> QED
    BY <2>4, <2>5, <2>9, Zenon
<1> QED
  BY <1>3, <1>4, Zenon

\* Without a counterparty, no live order of another user can be matched.
LEMMA NoCounterparty ==
  ASSUME NEW s \in Seq(OrderIds), NEW o, findCounterparty(s, o) = 0
  PROVE  \A j \in 1..Len(s) :
            ~(IsLive(orders[s[j]]) /\ orders[s[j]].user # o.user /\ canMatch(o, orders[s[j]]))
<1> DEFINE I == {i \in 1..Len(s) : /\ IsLive(orders[s[i]])
                                  /\ orders[s[i]].user # o.user
                                  /\ canMatch(o, orders[s[i]])}
<1>1. findCounterparty(s, o) = IF I # {} THEN Min(I) ELSE 0
  BY Zenon DEF findCounterparty, FirstIndex
<1>2. I \in SUBSET Nat
  OBVIOUS
<1>3. I = {}
  <2> SUFFICES ASSUME I # {} PROVE FALSE
    BY Zenon
  <2>1. Min(I) \in I
    BY <1>2, MinProperty, Zenon
  <2>2. Min(I) \in 1..Len(s) /\ Min(I) = 0
    BY <1>1, <2>1, Zenon
  <2> QED
    BY <2>2
<1> QED
  BY <1>3, Zenon

\* What the end of the matching loop does, in a consistent state.
Rests(p, x) ==
    /\ x \in OrderIds /\ x = cur[p] /\ pc[p] = "matching" /\ orders[x] \in Order
    /\ InFlight(x)
    /\ orders' = [orders EXCEPT ![x].status = StatusAfterMatch(orders[x])]
    /\ pc' = [pc EXCEPT ![p] = "settling"]
    /\ UNCHANGED <<cur, stream>>
    /\ \/ book' = book
       \/ /\ book' = [book EXCEPT ![OwnSide(orders[x])] = addToBook(@, x, orders[x])]
          /\ orders[x].type = "LIMIT"
          /\ findCounterparty(book[OtherSide(orders[x])], orders[x]) = 0

\* Every FinishMatch step is of that form.
LEMMA FinishMatchEffect ==
  ASSUME Consistent, NEW p \in Partitions, FinishMatch(p)
  PROVE  \E x : Rests(p, x)
<1>1. /\ TypeOK /\ WorkersConsistent /\ BookHoldsOpenOrders /\ FillsAddUp
      /\ pc[p] = "matching"
  BY Zenon DEF Consistent, FinishMatch
<1>2. PICK x \in OrderIds : x = cur[p] /\ orders[x] \in Order
  BY <1>1, ConstantsAssumption DEF WorkersConsistent, TypeOK, Working, Exists
<1>3. InFlight(x)
  BY <1>1, <1>2, Zenon DEF InFlight
<1>4. OtherSide(orders[x]) \in BookKeys
  BY <1>2, Zenon DEF OtherSide, Order, BookKeys, Sides
<1>5. removeInvalid(book[OtherSide(orders[x])]) = book[OtherSide(orders[x])]
  BY <1>1, <1>4, RemoveInvalidIsIdentity, Zenon
<1>6. [book EXCEPT ![OtherSide(orders[x])] = book[OtherSide(orders[x])]] = book
  BY <1>1, <1>4, Zenon DEF TypeOK
<1>7. /\ orders[x].remaining > 0 =>
            findCounterparty(book[OtherSide(orders[x])], orders[x]) = 0
      /\ orders' = [orders EXCEPT ![x].status = StatusAfterMatch(orders[x])]
      /\ pc' = [pc EXCEPT ![p] = "settling"]
      /\ UNCHANGED <<cur, stream>>
  BY <1>2, <1>5, Zenon DEF FinishMatch
<1>8. book' = IF StatusAfterMatch(orders[x]) \in {"PENDING", "PARTIAL"}
              THEN [book EXCEPT ![OwnSide(orders[x])] = addToBook(@, x, orders[x])]
              ELSE book
  BY <1>2, <1>5, <1>6, Zenon DEF FinishMatch
<1>9. StatusAfterMatch(orders[x]) \in {"PENDING", "PARTIAL"} =>
         orders[x].remaining > 0 /\ orders[x].type = "LIMIT"
  <2>1. orders[x].remaining \in Nat /\ orders[x].type \in {"LIMIT", "MARKET"}
    BY <1>2, Zenon DEF Order
  <2> QED
    BY <2>1 DEF StatusAfterMatch
<1>10. Rests(p, x)
  BY <1>1, <1>2, <1>3, <1>7, <1>8, <1>9, Zenon DEF Rests
<1> QED
  BY <1>10, Zenon

\* The terms of the orders stay as they are; only a status changes.
LEMMA RestsTerms ==
  ASSUME Consistent, NEW p \in Partitions, NEW x, Rests(p, x), NEW id \in OrderIds
  PROVE  /\ Exists(id)' <=> Exists(id)
         /\ Exists(id) => SameTerms(id)
<1>1. TypeOK /\ x \in OrderIds /\ orders[x] \in Order
  BY Zenon DEF Consistent, Rests
<1>2. orders' = [orders EXCEPT ![x].status = StatusAfterMatch(orders[x])]
  BY Zenon DEF Rests
<1>3. CASE id = x
  <2>1. orders'[x] = [orders[x] EXCEPT !.status = StatusAfterMatch(orders[x])]
    BY <1>1, <1>2, Zenon DEF TypeOK
  <2>2. StatusAfterMatch(orders[x]) \in Statuses
    BY <1>1, Zenon DEF StatusAfterMatch, Order, Statuses
  <2>3. orders'[x] \in Order
    BY <1>1, <2>1, <2>2, Zenon DEF Order
  <2>4. /\ orders'[x].user = orders[x].user /\ orders'[x].event = orders[x].event
        /\ orders'[x].outcome = orders[x].outcome /\ orders'[x].side = orders[x].side
        /\ orders'[x].price = orders[x].price
    BY <1>1, <2>1, Zenon DEF Order
  <2> QED
    BY <1>1, <1>3, <2>3, <2>4, ConstantsAssumption, Zenon DEF Exists, SameTerms
<1>4. CASE id # x
  <2>1. orders'[id] = orders[id]
    BY <1>1, <1>2, <1>4, Zenon DEF TypeOK
  <2> QED
    BY <2>1, Zenon DEF Exists, SameTerms
<1> QED
  BY <1>3, <1>4, Zenon

\* In the slice the order is put into, everyone has priority over those
\* behind.
LEMMA PlacedInOrder ==
  ASSUME Consistent, BookInv, NEW p \in Partitions, NEW x, Rests(p, x),
         NEW r, NEW n \in Nat,
         Places(r, book[OwnSide(orders[x])], x, orders[x], n)
  PROVE  \A i, j \in 1..Len(r) : i < j =>
            r[i] \in OrderIds /\ r[j] \in OrderIds /\ HasPriority(r[i], r[j])
<1>1. /\ x \in OrderIds /\ x = cur[p] /\ pc[p] = "matching" /\ orders[x] \in Order
      /\ TypeOK /\ WorkersConsistent /\ BookHoldsOpenOrders /\ FillsAddUp
  BY Zenon DEF Consistent, Rests
<1>2. PICK k \in BookKeys : k = OwnSide(orders[x])
  BY <1>1, Zenon DEF OwnSide, Order, BookKeys, Sides
<1>3. PICK s : s = book[k]
  BY Zenon
<1>4. Len(s) \in Nat
  BY <1>1, <1>3 DEF TypeOK
<1>5. /\ n \in 1..(Len(s) + 1) /\ Len(r) = Len(s) + 1
      /\ \A j \in 1..(Len(s) + 1) :
            r[j] = IF j < n THEN s[j] ELSE IF j = n THEN x ELSE s[j - 1]
      /\ \A j \in 1..Len(s) : j < n => ~SortsAfter(orders[s[j]], orders[x])
      /\ n <= Len(s) => SortsAfter(orders[s[n]], orders[x])
  BY <1>2, <1>3, Zenon DEF Places
<1>6. \A j \in 1..Len(s) : s[j] \in OrderIds /\ orders[s[j]] \in Order
                           /\ OwnSide(orders[s[j]]) = k
  BY <1>1, <1>3, BookOrdersLive, Zenon
<1>7. ASSUME NEW y \in Order, OwnSide(y) = k
      PROVE  y.side = orders[x].side /\ y.price \in Nat /\ y.event = orders[x].event
  BY <1>2, <1>7 DEF OwnSide, Order
<1>8. orders[x].price \in Nat
  BY <1>1, Zenon DEF Order
<1>9. \A j \in 1..Len(s) : orders[s[j]].side = orders[x].side /\ orders[s[j]].price \in Nat
  BY <1>6, <1>7, Zenon
<1>10. \A j \in 1..Len(s) : CreatedAt(s[j]) < CreatedAt(x)
  <2>1. k[1] = orders[x].event
    BY <1>2, Zenon DEF OwnSide
  <2> QED
    BY <1>1, <1>3, <2>1, Zenon DEF BookInv, NewestLast
<1>11. \A i, j \in 1..Len(s) : i < j => HasPriority(s[i], s[j])
  BY <1>3, Zenon DEF BookInv, BooksSorted
<1>12. ASSUME NEW i \in 1..Len(s), i < n PROVE HasPriority(s[i], x)
  <2>1. ~SortsAfter(orders[s[i]], orders[x]) /\ CreatedAt(s[i]) < CreatedAt(x)
    BY <1>5, <1>10, <1>12, Zenon
  <2>2. orders[s[i]].side = orders[x].side /\ orders[s[i]].price \in Nat
    BY <1>9, Zenon
  <2> QED
    BY <1>8, <2>1, <2>2 DEF HasPriority, SortsAfter
<1>13. ASSUME NEW j \in 1..Len(s), n <= j PROVE HasPriority(x, s[j])
  <2>1. n \in 1..Len(s) /\ SortsAfter(orders[s[n]], orders[x])
    BY <1>4, <1>5, <1>13
  <2>2. /\ orders[s[j]].side = orders[x].side /\ orders[s[j]].price \in Nat
        /\ orders[s[n]].side = orders[x].side /\ orders[s[n]].price \in Nat
    BY <1>9, <2>1, Zenon
  <2>3. n = j \/ HasPriority(s[n], s[j])
    BY <1>4, <1>11, <1>13, <2>1
  <2> QED
    BY <1>8, <2>1, <2>2, <2>3 DEF HasPriority, SortsAfter
<1> SUFFICES ASSUME NEW i \in 1..Len(r), NEW j \in 1..Len(r), i < j
             PROVE  r[i] \in OrderIds /\ r[j] \in OrderIds /\ HasPriority(r[i], r[j])
  BY Zenon
<1>14. CASE j < n
  <2>1. i \in 1..Len(s) /\ j \in 1..Len(s) /\ r[i] = s[i] /\ r[j] = s[j]
    BY <1>4, <1>5, <1>14
  <2> QED
    BY <1>6, <1>11, <2>1, Zenon
<1>15. CASE j = n
  <2>1. i \in 1..Len(s) /\ i < n /\ r[i] = s[i] /\ r[j] = x
    BY <1>4, <1>5, <1>15
  <2> QED
    BY <1>1, <1>6, <1>12, <2>1, Zenon
<1>16. CASE i = n
  <2>1. j - 1 \in 1..Len(s) /\ n <= j - 1 /\ r[i] = x /\ r[j] = s[j - 1]
    BY <1>4, <1>5, <1>16
  <2> QED
    BY <1>1, <1>6, <1>13, <2>1, Zenon
<1>17. CASE i < n /\ n < j
  <2>1. /\ i \in 1..Len(s) /\ j - 1 \in 1..Len(s) /\ i < j - 1
        /\ r[i] = s[i] /\ r[j] = s[j - 1]
    BY <1>4, <1>5, <1>17
  <2> QED
    BY <1>6, <1>11, <2>1, Zenon
<1>18. CASE n < i
  <2>1. /\ i - 1 \in 1..Len(s) /\ j - 1 \in 1..Len(s) /\ i - 1 < j - 1
        /\ r[i] = s[i - 1] /\ r[j] = s[j - 1]
    BY <1>4, <1>5, <1>18
  <2> QED
    BY <1>6, <1>11, <2>1, Zenon
<1>19. j < n \/ j = n \/ i = n \/ (i < n /\ n < j) \/ n < i
  BY <1>4, <1>5
<1> QED
  BY <1>14, <1>15, <1>16, <1>17, <1>18, <1>19, Zenon

\* The slices after the end of the matching loop: in order, with x the only
\* order that may be new.
SlicesPlaced(x) ==
    /\ \A k \in BookKeys : \A i, j \in 1..Len(book'[k]) : i < j =>
          /\ book'[k][i] \in OrderIds /\ book'[k][j] \in OrderIds
          /\ HasPriority(book'[k][i], book'[k][j])
    /\ \A k \in BookKeys : \A i \in 1..Len(book'[k]) :
          \/ \E m \in 1..Len(book[k]) : book'[k][i] = book[k][m]
          \/ k = OwnSide(orders[x]) /\ book'[k][i] = x

\* The end of the matching loop leaves them so.
LEMMA PlacedSlices ==
  ASSUME Consistent, BookInv, NEW p \in Partitions, NEW x, Rests(p, x), book' # book
  PROVE  SlicesPlaced(x)
<1>1. /\ TypeOK /\ WorkersConsistent /\ BookHoldsOpenOrders /\ FillsAddUp
      /\ x \in OrderIds /\ orders[x] \in Order
      /\ book' = [book EXCEPT ![OwnSide(orders[x])] = addToBook(@, x, orders[x])]
  BY Zenon DEF Consistent, Rests
<1>2. PICK l \in BookKeys : l = OwnSide(orders[x])
  BY <1>1, Zenon DEF OwnSide, Order, BookKeys, Sides
<1>3. PICK s \in Seq(OrderIds) : s = book[l]
  BY <1>1, <1>2, Zenon DEF TypeOK
<1>4. /\ book'[l] = addToBook(s, x, orders[x])
      /\ \A k \in BookKeys : k # l => book'[k] = book[k]
  BY <1>1, <1>2, <1>3, Zenon DEF TypeOK
<1>5. PICK n \in Nat : Places(book'[l], s, x, orders[x], n)
  BY <1>1, <1>3, <1>4, AddToBookPlaces
<1>6. ASSUME NEW k \in BookKeys, NEW i \in 1..Len(book'[k]), NEW j \in 1..Len(book'[k]), i < j
      PROVE  /\ book'[k][i] \in OrderIds /\ book'[k][j] \in OrderIds
             /\ HasPriority(book'[k][i], book'[k][j])
  <2>1. CASE k = l
    <3>1. \A a, b \in 1..Len(book'[l]) : a < b =>
             /\ book'[l][a] \in OrderIds /\ book'[l][b] \in OrderIds
             /\ HasPriority(book'[l][a], book'[l][b])
      BY <1>2, <1>3, <1>5, PlacedInOrder, Zenon
    <3> QED
      BY <1>6, <2>1, <3>1, Zenon
  <2>2. CASE k # l
    <3>1. book'[k] = book[k]
      BY <1>4, <2>2, Zenon
    <3>2. book[k][i] \in OrderIds /\ book[k][j] \in OrderIds
      BY <1>1, <3>1, BookOrdersLive, Zenon
    <3>3. HasPriority(book[k][i], book[k][j])
      BY <1>6, <3>1, Zenon DEF BookInv, BooksSorted
    <3> QED
      BY <3>1, <3>2, <3>3, Zenon
  <2> QED
    BY <2>1, <2>2, Zenon
<1>7. ASSUME NEW k \in BookKeys, NEW i \in 1..Len(book'[k])
      PROVE  \/ \E m \in 1..Len(book[k]) : book'[k][i] = book[k][m]
             \/ k = OwnSide(orders[x]) /\ book'[k][i] = x
  <2>1. CASE k = l
    <3>1. PICK r : r = book'[l]
      BY Zenon
    <3>2. /\ n \in 1..(Len(s) + 1) /\ Len(r) = Len(s) + 1 /\ i \in 1..Len(r)
          /\ \A j \in 1..(Len(s) + 1) :
                r[j] = IF j < n THEN s[j] ELSE IF j = n THEN x ELSE s[j - 1]
      BY <1>5, <2>1, <3>1, Zenon DEF Places
    <3>3. r[i] = x \/ \E m \in 1..Len(s) : r[i] = s[m]
      <4>1. CASE i < n
        <5>1. i \in 1..Len(s) /\ r[i] = s[i]
          BY <3>2, <4>1
        <5> QED
          BY <5>1, Zenon
      <4>2. CASE i = n
        BY <3>2, <4>2
      <4>3. CASE n < i
        <5>1. i - 1 \in 1..Len(s) /\ r[i] = s[i - 1]
          BY <3>2, <4>3
        <5> QED
          BY <5>1, Zenon
      <4>4. i < n \/ i = n \/ n < i
        BY <3>2
      <4> QED
        BY <4>1, <4>2, <4>3, <4>4, Zenon
    <3> QED
      BY <1>2, <1>3, <2>1, <3>1, <3>3, Zenon
  <2>2. CASE k # l
    BY <1>4, <2>2, Zenon
  <2> QED
    BY <2>1, <2>2, Zenon
<1> QED
  BY <1>6, <1>7, Zenon DEF SlicesPlaced

\* The order that comes to rest crosses no order of another user.
LEMMA RestsUncrossed ==
  ASSUME Consistent, BookInv, NEW p \in Partitions, NEW x, Rests(p, x), book' # book,
         NEW e \in Events, NEW out \in Outcomes
  PROVE  /\ <<e, out, "BUY">> = OwnSide(orders[x]) =>
              \A j \in 1..Len(book[<<e, out, "SELL">>]) :
                 orders[book[<<e, out, "SELL">>][j]].user # orders[x].user =>
                   orders[x].price < orders[book[<<e, out, "SELL">>][j]].price
         /\ <<e, out, "SELL">> = OwnSide(orders[x]) =>
              \A j \in 1..Len(book[<<e, out, "BUY">>]) :
                 orders[book[<<e, out, "BUY">>][j]].user # orders[x].user =>
                   orders[book[<<e, out, "BUY">>][j]].price < orders[x].price
<1>1. /\ TypeOK /\ WorkersConsistent /\ BookHoldsOpenOrders /\ FillsAddUp
      /\ x \in OrderIds /\ orders[x] \in Order /\ orders[x].type = "LIMIT"
      /\ findCounterparty(book[OtherSide(orders[x])], orders[x]) = 0
  BY Zenon DEF Consistent, Rests
<1>2. PICK o \in Order : o = orders[x]
  BY <1>1, Zenon
<1>0. OtherSide(o) \in BookKeys
  BY <1>2, Zenon DEF OtherSide, Order, BookKeys, Sides
<1>3. PICK k \in BookKeys : k = OtherSide(o)
  BY <1>0, Zenon
<1>4. PICK s \in Seq(OrderIds) : s = book[k]
  BY <1>1, <1>3, Zenon DEF TypeOK
<1>5. findCounterparty(s, o) = 0
  BY <1>1, <1>2, <1>3, <1>4, Zenon
<1>6. \A j \in 1..Len(s) :
         ~(IsLive(orders[s[j]]) /\ orders[s[j]].user # o.user /\ canMatch(o, orders[s[j]]))
  BY <1>5, NoCounterparty, Zenon
<1>7. \A j \in 1..Len(s) : /\ IsLive(orders[s[j]]) /\ orders[s[j]] \in Order
                           /\ OwnSide(orders[s[j]]) = k
  BY <1>1, <1>4, BookOrdersLive, Zenon
<1>8. ASSUME NEW j \in 1..Len(s), orders[s[j]].user # o.user
      PROVE  /\ o.side = "BUY" => o.price < orders[s[j]].price
             /\ o.side = "SELL" => orders[s[j]].price < o.price
  <2>1. PICK a \in Order : a = orders[s[j]] /\ OwnSide(a) = k
    BY <1>7, Zenon
  <2>2. ~canMatch(o, a)
    BY <1>6, <1>7, <1>8, <2>1, Zenon
  <2>3. a.outcome = o.outcome /\ a.price \in Nat /\ o.price \in Nat
    BY <1>3, <2>1 DEF OwnSide, OtherSide, Order
  <2>4. o.type # "MARKET"
    BY <1>1, <1>2, Zenon
  <2>5. /\ o.side = "BUY" => o.price < a.price
        /\ o.side = "SELL" => a.price < o.price
    BY <2>2, <2>3, <2>4 DEF canMatch
  <2> QED
    BY <2>1, <2>5, Zenon
<1>9. <<e, out, "BUY">> = OwnSide(o) => o.side = "BUY" /\ k = <<e, out, "SELL">>
  BY <1>3, Zenon DEF OwnSide, OtherSide, Order
<1>10. <<e, out, "SELL">> = OwnSide(o) => o.side = "SELL" /\ k = <<e, out, "BUY">>
  BY <1>3, Zenon DEF OwnSide, OtherSide, Order
<1> QED
  BY <1>2, <1>4, <1>8, <1>9, <1>10, Zenon

\* An order that comes to rest keeps the books sound.
LEMMA FinishMatchBooks ==
  ASSUME Consistent, Consistent', BookInv, NEW p \in Partitions, FinishMatch(p)
  PROVE  BookInv'
<1>1. PICK x : Rests(p, x)
  BY FinishMatchEffect, Zenon
<1>2. /\ x \in OrderIds /\ x = cur[p] /\ orders[x] \in Order /\ TypeOK
      /\ pc[p] = "matching" /\ pc' = [pc EXCEPT ![p] = "settling"]
      /\ cur' = cur /\ stream' = stream
  BY <1>1, Zenon DEF Consistent, Rests
<1>3. \A id \in OrderIds : (Exists(id)' <=> Exists(id)) /\ (Exists(id) => SameTerms(id))
  BY <1>1, RestsTerms, Zenon
<1>4. \A id \in OrderIds : /\ Announced(id)' <=> Announced(id)
                           /\ CreatedAt(id)' = CreatedAt(id)
  BY <1>2, SameStream, Zenon
<1>5. pc'[p] = "settling" /\ \A q \in Partitions : q # p => pc'[q] = pc[q]
  BY <1>2, Zenon DEF TypeOK
<1>6. CASE book' = book
  <2>1. \A k \in BookKeys : Thinned(k)
    BY <1>6, Zenon DEF Thinned, Thins
  <2>2. /\ \A q \in Partitions : q # p => pc'[q] = pc[q] /\ cur'[q] = cur[q]
        /\ pc[p] # "created" /\ pc'[p] # "created"
        /\ Working(p)' => Working(p) /\ cur'[p] = cur[p]
        /\ pc'[p] \in {"waiting", "matching"} => pc[p] \in {"waiting", "matching"}
    BY <1>2, <1>5, Zenon DEF Working
  <2> QED
    BY <1>3, <1>4, <2>1, <2>2, StayStep, Zenon
<1>7. CASE book' # book
  <2>1. /\ \A k \in BookKeys : \A i, j \in 1..Len(book'[k]) : i < j =>
               /\ book'[k][i] \in OrderIds /\ book'[k][j] \in OrderIds
               /\ HasPriority(book'[k][i], book'[k][j])
        /\ \A k \in BookKeys : \A i \in 1..Len(book'[k]) :
               \/ \E m \in 1..Len(book[k]) : book'[k][i] = book[k][m]
               \/ k = OwnSide(orders[x]) /\ book'[k][i] = x
    <3>1. SlicesPlaced(x)
      BY <1>1, <1>7, PlacedSlices, Zenon
    <3> QED
      BY <3>1, Zenon DEF SlicesPlaced
  <2>2. \A k \in BookKeys : \A i \in 1..Len(book[k]) :
            book[k][i] \in OrderIds /\ Exists(book[k][i])
    <3>1. TypeOK /\ BookHoldsOpenOrders /\ FillsAddUp
      BY Zenon DEF Consistent
    <3>2. \A k \in BookKeys : \A i \in 1..Len(book[k]) :
             book[k][i] \in OrderIds /\ orders[book[k][i]] \in Order
      BY <3>1, BookOrdersLive, Zenon
    <3> QED
      BY <3>2, ConstantsAssumption, Zenon DEF Exists
  <2>3. Exists(x)
    BY <1>2, ConstantsAssumption, Zenon DEF Exists
  <2>4. \A k \in BookKeys : \A i \in 1..Len(book'[k]) :
            book'[k][i] \in OrderIds /\ Exists(book'[k][i])
    BY <1>2, <2>1, <2>2, <2>3, Zenon
  <2>5. WorkersOwn'
    <3> SUFFICES ASSUME NEW q \in Partitions, Working(q)' PROVE OwnedBy(cur[q], q)'
      BY Zenon DEF WorkersOwn
    <3>1. Working(q)
      BY <1>2, <1>5, Zenon DEF Working
    <3>2. cur[q] \in OrderIds /\ Exists(cur[q])
      BY <3>1, ConstantsAssumption DEF Consistent, WorkersConsistent, TypeOK, Working
    <3>3. OwnedBy(cur[q], q)
      BY <3>1, Zenon DEF BookInv, WorkersOwn
    <3>4. orders'[cur[q]].event = orders[cur[q]].event
      BY <1>3, <3>2, Zenon DEF SameTerms
    <3> QED
      BY <1>2, <3>3, <3>4, Zenon DEF OwnedBy
  <2>6. StoredIsAnnounced'
    <3>1. \A id \in OrderIds : BeingCreated(id)' <=> BeingCreated(id)
      BY <1>2, <1>5, Zenon DEF BeingCreated
    <3> QED
      BY <1>3, <1>4, <3>1, Zenon DEF BookInv, StoredIsAnnounced
  <2>7. NewestLast'
    <3> SUFFICES ASSUME NEW q \in Partitions, pc'[q] \in {"waiting", "matching"},
                        NEW k \in BookKeys, k[1] = orders'[cur'[q]].event,
                        NEW i \in 1..Len(book'[k])
                 PROVE  CreatedAt(book[k][i])' < CreatedAt(cur[q])'
      BY Zenon DEF NewestLast
    <3>1. q # p /\ pc[q] \in {"waiting", "matching"}
      BY <1>5, Zenon
    <3>2. Working(q)
      BY <3>1, Zenon DEF Working
    <3>0. cur[q] \in OrderIds /\ Exists(cur[q])
      <4>1. TypeOK /\ WorkersConsistent
        BY Zenon DEF Consistent
      <4> QED
        BY <3>2, <4>1, ConstantsAssumption, Zenon DEF WorkersConsistent, TypeOK, Working
    <3>3. PICK c \in OrderIds : c = cur[q] /\ Exists(c)
      BY <3>0, Zenon
    <3>4. k[1] = orders[c].event
      BY <1>2, <1>3, <3>3, Zenon DEF SameTerms
    <3>5. PartitionOf[orders[c].event] = q
      BY <3>2, <3>3, Zenon DEF BookInv, WorkersOwn, OwnedBy
    <3>6. PartitionOf[orders[x].event] = p
      BY <1>2, Zenon DEF BookInv, WorkersOwn, OwnedBy, Working
    <3>7. k # OwnSide(orders[x])
      BY <3>1, <3>4, <3>5, <3>6 DEF OwnSide
    <3>8. PICK m \in 1..Len(book[k]) : book'[k][i] = book[k][m]
      BY <2>1, <3>7, Zenon
    <3>9. PICK b \in OrderIds : b = book[k][m]
      BY <2>2, Zenon
    <3>10. CreatedAt(b) < CreatedAt(c)
      BY <3>1, <3>3, <3>4, <3>9, Zenon DEF BookInv, NewestLast
    <3>11. CreatedAt(b)' < CreatedAt(c)'
      BY <1>4, <3>10, Zenon
    <3> QED
      BY <1>2, <3>3, <3>8, <3>9, <3>11, Zenon
  <2>8. BooksSorted'
    <3> SUFFICES ASSUME NEW k \in BookKeys,
                        NEW i \in 1..Len(book'[k]), NEW j \in 1..Len(book'[k]), i < j
                 PROVE  HasPriority(book[k][i], book[k][j])'
      BY Zenon DEF BooksSorted
    <3>1. PICK a \in OrderIds, b \in OrderIds :
             a = book'[k][i] /\ b = book'[k][j] /\ HasPriority(a, b)
      BY <2>1, Zenon
    <3>2. SameTerms(a) /\ SameTerms(b)
      BY <1>3, <2>4, <3>1, Zenon
    <3>3. HasPriority(a, b)'
      BY <1>4, <3>1, <3>2, PriorityKept, Zenon
    <3> QED
      BY <3>1, <3>3, Zenon
  <2>9. NothingCrosses'
    <3> SUFFICES ASSUME NEW e \in Events, NEW out \in Outcomes,
                        NEW i \in 1..Len(book'[<<e, out, "BUY">>]),
                        NEW j \in 1..Len(book'[<<e, out, "SELL">>]),
                        orders'[book'[<<e, out, "BUY">>][i]].user
                          # orders'[book'[<<e, out, "SELL">>][j]].user
                 PROVE  orders'[book'[<<e, out, "BUY">>][i]].price
                          < orders'[book'[<<e, out, "SELL">>][j]].price
      BY Zenon DEF NothingCrosses
    <3>1. PICK k \in BookKeys, l \in BookKeys : k = <<e, out, "BUY">> /\ l = <<e, out, "SELL">>
      BY Zenon DEF BookKeys, Sides
    <3>2. PICK b \in OrderIds, a \in OrderIds :
             b = book'[k][i] /\ a = book'[l][j] /\ Exists(b) /\ Exists(a)
      BY <2>4, <3>1, Zenon
    <3>3. /\ orders'[a].user = orders[a].user /\ orders'[a].price = orders[a].price
          /\ orders'[b].user = orders[b].user /\ orders'[b].price = orders[b].price
      BY <1>3, <3>2, Zenon DEF SameTerms
    <3>4. orders[b].user # orders[a].user
      BY <3>1, <3>2, <3>3, Zenon
    <3>5. /\ \/ \E m \in 1..Len(book[k]) : b = book[k][m]
             \/ k = OwnSide(orders[x]) /\ b = x
          /\ \/ \E m \in 1..Len(book[l]) : a = book[l][m]
             \/ l = OwnSide(orders[x]) /\ a = x
      <4>1. i \in 1..Len(book'[k]) /\ j \in 1..Len(book'[l])
        BY <3>1, Zenon
      <4>2. \/ \E m \in 1..Len(book[k]) : book'[k][i] = book[k][m]
            \/ k = OwnSide(orders[x]) /\ book'[k][i] = x
        BY <2>1, <4>1, Zenon
      <4>3. \/ \E m \in 1..Len(book[l]) : book'[l][j] = book[l][m]
            \/ l = OwnSide(orders[x]) /\ book'[l][j] = x
        BY <2>1, <4>1, Zenon
      <4> QED
        BY <3>2, <4>2, <4>3, Zenon
    <3>6. k # l
      BY <3>1, Zenon
    <3>7. CASE k = OwnSide(orders[x]) /\ b = x
      <4>1. PICK m \in 1..Len(book[l]) : a = book[l][m]
        BY <3>5, <3>6, <3>7, Zenon
      <4>2. orders[b].price < orders[a].price
        BY <1>1, <1>7, <3>1, <3>4, <3>7, <4>1, RestsUncrossed, Zenon
      <4> QED
        BY <3>1, <3>2, <3>3, <4>2, Zenon
    <3>8. CASE l = OwnSide(orders[x]) /\ a = x
      <4>1. PICK m \in 1..Len(book[k]) : b = book[k][m]
        BY <3>5, <3>6, <3>8, Zenon
      <4>2. orders[b].price < orders[a].price
        BY <1>1, <1>7, <3>1, <3>4, <3>8, <4>1, RestsUncrossed, Zenon
      <4> QED
        BY <3>1, <3>2, <3>3, <4>2, Zenon
    <3>9. CASE (\E m \in 1..Len(book[k]) : b = book[k][m]) /\ (\E m \in 1..Len(book[l]) : a = book[l][m])
      <4>1. orders[b].price < orders[a].price
        BY <3>1, <3>4, <3>9, Zenon DEF BookInv, NothingCrosses
      <4> QED
        BY <3>1, <3>2, <3>3, <4>1, Zenon
    <3> QED
      BY <3>5, <3>7, <3>8, <3>9, Zenon
  <2> QED
    BY <2>5, <2>6, <2>7, <2>8, <2>9, Zenon DEF BookInv
<1> QED
  BY <1>6, <1>7, Zenon

\* Every step keeps the books sound.
LEMMA NextBooks == Consistent /\ Consistent' /\ BookInv /\ [Next]_vars => BookInv'
<1> SUFFICES ASSUME Consistent, Consistent', BookInv, [Next]_vars PROVE BookInv'
  BY Zenon
<1>1. CASE UNCHANGED vars
  <2>1. DefaultPartition \in Partitions
    BY ConstantsAssumption, Zenon
  <2> QED
    BY <1>1, <2>1, QuietBookSteps, Zenon
<1>2. ASSUME NEW p \in Partitions, Command(p) PROVE BookInv'
  <2>1. ASSUME NEW u \in Users, handleUserCreated(p, u) PROVE BookInv'
    BY <2>1, QuietBookSteps, Zenon
  <2>2. ASSUME NEW e \in Events, handleCreateEvent(p, e) PROVE BookInv'
    BY <2>2, QuietBookSteps, Zenon
  <2>3. ASSUME NEW id \in OrderIds, NEW r \in Requests, AcceptOrder(p, id, r)
        PROVE  BookInv'
    BY <2>3, AcceptOrderBooks, Zenon
  <2>4. ASSUME NEW id \in OrderIds, NEW r \in Requests, RejectUnfundedBuy(p, id, r)
        PROVE  BookInv'
    BY <2>4, QuietBookSteps, Zenon
  <2>5. ASSUME NEW id \in OrderIds, NEW e \in CancelEvents, handleCancelOrder(p, id, e)
        PROVE  BookInv'
    BY <2>5, CancelBooks, Zenon
  <2> QED
    BY <1>2, <2>1, <2>2, <2>3, <2>4, <2>5, Zenon DEF Command
<1>3. ASSUME NEW p \in Partitions, Continue(p) PROVE BookInv'
  <2>1. ASSUME \/ StartMatch(p) \/ SkipCanceled(p) \/ publishTrade(p)
               \/ FinishOrder(p) \/ EmitOrderCanceled(p)
        PROVE  BookInv'
    BY <2>1, QuietBookSteps, Zenon
  <2>2. CASE EmitOrderCreated(p)
    BY <2>2, EmitOrderCreatedBooks, Zenon
  <2>3. CASE EmitOrderCreatedFails(p)
    BY <2>3, EmitOrderCreatedFailsBooks, Zenon
  <2>4. CASE executePair(p)
    BY <2>4, ExecutePairBooks, Zenon
  <2>5. CASE FinishMatch(p)
    BY <2>5, FinishMatchBooks, Zenon
  <2>6. CASE settleTradeLocked(p)
    BY <2>6, SettleTradeBooks, Zenon
  <2>7. CASE FinishSettle(p)
    BY <2>7, FinishSettleBooks, Zenon
  <2> QED
    BY <1>3, <2>1, <2>2, <2>3, <2>4, <2>5, <2>6, <2>7, Zenon DEF Continue
<1> QED
  BY <1>1, <1>2, <1>3, Zenon DEF Next

\* In every reachable state workers, books and the stream agree on which
\* orders there are and which came first.
THEOREM BooksSound == Spec => []BookInv
  BY InitBooks, NextBooks, EngineConsistent, PTL DEF Spec

\* In every slice of every book the orders are in price-time order, and no
\* bid reaches an ask of another user: addToBook, the removals and the
\* matching loop keep this for any users, markets, orders and partitions.
THEOREM BooksStayOrdered == Spec => []BooksOrdered
<1>1. TypeOK /\ BookInv => BooksOrdered
  <2> SUFFICES ASSUME TypeOK, BookInv PROVE BooksOrdered
    BY Zenon
  <2>1. \A k \in BookKeys : \A i, j \in 1..Len(book[k]) :
           i < j => HasPriority(book[k][i], book[k][j])
    BY Zenon DEF BookInv, BooksSorted
  <2>2. ASSUME NEW e \in Events, NEW out \in Outcomes,
               NEW b \in Range(book[<<e, out, "BUY">>]), NEW a \in Range(book[<<e, out, "SELL">>]),
               orders[b].user # orders[a].user
        PROVE  orders[b].price < orders[a].price
    <3>1. <<e, out, "BUY">> \in BookKeys /\ <<e, out, "SELL">> \in BookKeys
      BY Zenon DEF BookKeys, Sides
    <3>2. book[<<e, out, "BUY">>] \in Seq(OrderIds) /\ book[<<e, out, "SELL">>] \in Seq(OrderIds)
      BY <3>1, Zenon DEF TypeOK
    <3>3. PICK i \in 1..Len(book[<<e, out, "BUY">>]) : b = book[<<e, out, "BUY">>][i]
      BY <3>2, InRange, Zenon
    <3>4. PICK j \in 1..Len(book[<<e, out, "SELL">>]) : a = book[<<e, out, "SELL">>][j]
      BY <3>2, InRange, Zenon
    <3> QED
      BY <2>2, <3>3, <3>4, Zenon DEF BookInv, NothingCrosses
  <2> QED
    BY <2>1, <2>2, Zenon DEF BooksOrdered
<1>2. Consistent => TypeOK
  BY Zenon DEF Consistent
<1> QED
  BY <1>1, <1>2, BooksSound, EngineConsistent, PTL

\* A trade is made by executePair only; FinishOrder drops the trades.
LEMMA TradeMakers ==
  ASSUME TypeOK, [Next]_vars, NEW p \in Partitions, Len(trades'[p]) > Len(trades[p])
  PROVE  executePair(p)
<1>1. CASE UNCHANGED trades
  BY <1>1 DEF TypeOK
<1>2. ASSUME NEW q \in Partitions, Command(q) PROVE UNCHANGED trades
  BY <1>2, Zenon DEF Command, handleUserCreated, handleCreateEvent, AcceptOrder,
     RejectUnfundedBuy, handleCancelOrder, workerVars
<1>3. ASSUME NEW q \in Partitions, Continue(q)
      PROVE  UNCHANGED trades \/ executePair(q) \/ FinishOrder(q)
  BY <1>3, Zenon DEF Continue, EmitOrderCreated, EmitOrderCreatedFails, StartMatch,
     SkipCanceled, FinishMatch, settleTradeLocked, FinishSettle, publishTrade, EmitOrderCanceled
<1>4. ASSUME NEW q \in Partitions, executePair(q) PROVE executePair(p)
  <2>1. PICK t : trades' = [trades EXCEPT ![q] = Append(@, t)]
    BY <1>4, Zenon DEF executePair
  <2>2. CASE q # p
    BY <2>1, <2>2 DEF TypeOK
  <2> QED
    BY <1>4, <2>2, Zenon
<1>5. ASSUME NEW q \in Partitions, FinishOrder(q) PROVE executePair(p)
  <2>1. trades' = [trades EXCEPT ![q] = <<>>]
    BY <1>5, Zenon DEF FinishOrder
  <2> QED
    BY <2>1 DEF TypeOK
<1>6. CASE UNCHANGED vars
  BY <1>1, <1>6, Zenon DEF vars, workerVars
<1> QED
  BY <1>1, <1>2, <1>3, <1>4, <1>5, <1>6, Zenon DEF Next

\* findCounterparty takes the first order of the slice that the incoming one
\* may trade with, and the slice is in price-time order: every trade is made
\* with the order that has priority.
THEOREM TradesByPriority == Spec => PriceTimePriority
<1>1. ASSUME Consistent, BookInv, [Next]_vars PROVE TradesWithFirst
  <2> SUFFICES ASSUME NEW p \in Partitions, Len(trades'[p]) > Len(trades[p]),
                      NEW t, t = trades'[p][Len(trades'[p])],
                      NEW id \in OrderIds,
                      Contains(book[OtherSide(orders[t.taker])], id),
                      orders[id].user # orders[t.taker].user,
                      canMatch(orders[t.taker], orders[id])
               PROVE  id = t.maker \/ HasPriority(t.maker, id)
    BY Zenon DEF TradesWithFirst
  <2>1. TypeOK /\ BookHoldsOpenOrders /\ FillsAddUp
    BY <1>1, Zenon DEF Consistent
  <2>2. executePair(p)
    BY <1>1, <2>1, TradeMakers, Zenon
  <2>3. PICK x \in OrderIds, m \in OrderIds, q \in Nat, i \in Nat : Pairs(p, x, m, q, i)
    BY <1>1, <2>2, ExecutePairEffect, Zenon
  <2>4. PICK b : b = buildTrade(x, orders[x], m, orders[m], q)
    BY Zenon
  <2>5. trades'[p] = Append(trades[p], b) /\ trades[p] \in Seq(Trade)
    BY <2>1, <2>3, <2>4, Zenon DEF Pairs, TypeOK
  <2>6. t = b
    BY <2>5
  <2>7. t.taker = x /\ t.maker = m
    BY <2>4, <2>6 DEF buildTrade
  <2>8. orders[x] \in Order
    BY <2>3, Zenon DEF Pairs
  <2>9. OtherSide(orders[x]) \in BookKeys
    BY <2>8, Zenon DEF OtherSide, Order, BookKeys, Sides
  <2>10. PICK k \in BookKeys : k = OtherSide(orders[x])
    BY <2>9, Zenon
  <2>11. PICK j \in 1..Len(book[k]) : book[k][j] = id
    BY <2>7, <2>10, Zenon DEF Contains
  <2>12. IsLive(orders[id])
    BY <2>1, <2>11, BookOrdersLive, Zenon
  <2>13. i <= j /\ i \in 1..Len(book[k]) /\ m = book[k][i]
    BY <2>3, <2>7, <2>10, <2>11, <2>12, Zenon DEF Pairs
  <2>14. i = j \/ i < j
    BY <2>13
  <2>15. i < j => HasPriority(m, id)
    BY <1>1, <2>11, <2>13, Zenon DEF BookInv, BooksSorted
  <2> QED
    BY <2>7, <2>11, <2>13, <2>14, <2>15, Zenon
<1>2. Consistent /\ BookInv /\ [Next]_vars => [TradesWithFirst]_vars
  BY <1>1, Zenon
<1> QED
  BY <1>2, BooksSound, EngineConsistent, PTL DEF Spec, PriceTimePriority

(***************************************************************************)
(* The story on the events stream.                                         *)
(***************************************************************************)

\* Every CANCEL_ORDER names the order's market, and so goes to its worker.
CancelsNamed == NoEvent \notin CancelEvents

\* An order that a worker has canceled, and not yet told of, is its own and
\* was announced.
CancelsOwn ==
    \A p \in Partitions : pc[p] = "canceled" =>
        /\ Announced(cur[p]) /\ OwnedBy(cur[p], p)
        /\ orders[cur[p]].status = "CANCELED"
        /\ ~Contains(stream, CanceledEvent(cur[p]))

\* And so are the orders of its trades, which nobody has told to be canceled.
TradesOwn ==
    \A p \in Partitions : \A j \in 1..Len(trades[p]) :
        \A id \in {trades[p][j].taker, trades[p][j].maker} :
            Announced(id) /\ OwnedBy(id, p) /\ ~Contains(stream, CanceledEvent(id))

\* What was told to be canceled is.
CanceledAreFinal ==
    \A id \in OrderIds : Contains(stream, CanceledEvent(id)) =>
        Announced(id) /\ orders[id].status = "CANCELED"

\* The inductive invariant of the stream, where cancels name their market.
Story == CancelsOwn /\ TradesOwn /\ CanceledAreFinal /\ EventsInOrder

\* An order that was announced keeps its event, and stays canceled once it is.
Lasts(id) ==
    /\ orders'[id] # NoOrder
    /\ orders'[id].event = orders[id].event
    /\ orders[id].status = "CANCELED" => orders'[id].status = "CANCELED"

\* No step changes the event of a stored order.
LEMMA EventKept ==
  ASSUME Consistent, [Next]_vars, NEW id \in OrderIds, Exists(id), Exists(id)'
  PROVE  orders'[id].event = orders[id].event
<1>1. TypeOK /\ WorkersConsistent
  BY Zenon DEF Consistent
<1>2. orders[id] \in Order
  BY <1>1, Zenon DEF TypeOK, Exists
<1>3. CASE UNCHANGED orders
  BY <1>3, Zenon
<1>4. ASSUME NEW x \in OrderIds, NEW st, NEW l,
             orders' = [orders EXCEPT ![x].status = st, ![x].locked = l]
      PROVE  orders'[id].event = orders[id].event
  <2>1. CASE id # x
    BY <1>1, <1>4, <2>1, Zenon DEF TypeOK
  <2>2. CASE id = x
    <3>1. orders'[id] = [orders[id] EXCEPT !.status = st, !.locked = l]
      BY <1>1, <1>4, <2>2, Zenon DEF TypeOK
    <3> QED
      BY <1>2, <3>1, Zenon DEF Order
  <2> QED
    BY <2>1, <2>2, Zenon
<1>5. ASSUME NEW p \in Partitions, Command(p) PROVE orders'[id].event = orders[id].event
  <2>1. ASSUME NEW x \in OrderIds, NEW r \in Requests, AcceptOrder(p, x, r)
        PROVE  orders'[id].event = orders[id].event
    <3>1. orders[x] = NoOrder /\ orders' = [orders EXCEPT ![x] = NewOrder(r)]
      BY <2>1, Zenon DEF AcceptOrder, OrderArrives
    <3>2. id # x
      BY <3>1, Zenon DEF Exists
    <3> QED
      BY <1>1, <3>1, <3>2, Zenon DEF TypeOK
  <2>2. ASSUME NEW x \in OrderIds, NEW e \in CancelEvents, handleCancelOrder(p, x, e)
        PROVE  orders'[id].event = orders[id].event
    <3>1. orders' = [orders EXCEPT ![x].status = "CANCELED", ![x].locked = 0]
      BY <2>2, Zenon DEF handleCancelOrder
    <3> QED
      BY <1>4, <3>1, Zenon
  <2>3. ASSUME \/ \E u \in Users : handleUserCreated(p, u)
               \/ \E e \in Events : handleCreateEvent(p, e)
               \/ \E x \in OrderIds, r \in Requests : RejectUnfundedBuy(p, x, r)
        PROVE  UNCHANGED orders
    BY <2>3, Zenon DEF handleUserCreated, handleCreateEvent, RejectUnfundedBuy
  <2> QED
    BY <1>3, <1>5, <2>1, <2>2, <2>3, Zenon DEF Command
<1>6. ASSUME NEW p \in Partitions, Continue(p) PROVE orders'[id].event = orders[id].event
  <2>1. CASE EmitOrderCreatedFails(p)
    <3>1. orders' = [orders EXCEPT ![cur[p]] = NoOrder]
      BY <2>1, Zenon DEF EmitOrderCreatedFails
    <3>2. id # cur[p]
      BY <1>1, <3>1, Zenon DEF TypeOK, Exists
    <3> QED
      BY <1>1, <3>1, <3>2, Zenon DEF TypeOK
  <2>2. CASE executePair(p)
    <3>1. PICK x \in OrderIds, m \in OrderIds, q \in Nat, i \in Nat : Pairs(p, x, m, q, i)
      BY <2>2, ExecutePairEffect, Zenon
    <3>2. /\ orders[x] \in Order /\ orders[m] \in Order
          /\ orders'[x] = FillIncoming(orders[x], q)
          /\ orders'[m] = FillResting(orders[m], q)
          /\ \A y \in OrderIds : y # x /\ y # m => orders'[y] = orders[y]
      BY <3>1, Zenon DEF Pairs
    <3>3. \A o \in Order : FillIncoming(o, q).event = o.event /\ FillResting(o, q).event = o.event
      BY FillKeeps, Zenon
    <3> QED
      BY <3>2, <3>3, Zenon
  <2>3. CASE FinishMatch(p)
    <3>1. PICK x : Rests(p, x)
      BY <2>3, FinishMatchEffect, Zenon
    <3>2. SameTerms(id)
      BY <3>1, RestsTerms, Zenon
    <3> QED
      BY <3>2, Zenon DEF SameTerms
  <2>4. CASE settleTradeLocked(p)
    <3>1. PICK t : t = trades[p][at[p] + 1]
      BY Zenon
    <3>2. orders'[id] = orders[id] \/ orders'[id] = ReduceLock(orders[id], t)
      BY <2>4, <3>1, Zenon DEF settleTradeLocked
    <3>3. orders'[id] = ReduceLock(orders[id], t) =>
             \E l : orders'[id] = [orders[id] EXCEPT !.locked = l]
      BY Zenon DEF ReduceLock
    <3> QED
      BY <1>2, <3>2, <3>3 DEF Order
  <2>5. CASE FinishSettle(p)
    <3>1. \/ orders' = orders
          \/ orders' = [orders EXCEPT ![cur[p]].locked = 0]
      BY <2>5, Zenon DEF FinishSettle
    <3>2. orders'[id] = orders[id] \/ orders'[id] = [orders[id] EXCEPT !.locked = 0]
      BY <1>1, <3>1, Zenon DEF TypeOK
    <3> QED
      BY <1>2, <3>2 DEF Order
  <2>6. ASSUME \/ EmitOrderCreated(p) \/ StartMatch(p) \/ SkipCanceled(p) \/ publishTrade(p)
               \/ FinishOrder(p) \/ EmitOrderCanceled(p)
        PROVE  UNCHANGED orders
    BY <2>6, Zenon DEF EmitOrderCreated, StartMatch, SkipCanceled, publishTrade,
       FinishOrder, EmitOrderCanceled
  <2> QED
    BY <1>3, <1>6, <2>1, <2>2, <2>3, <2>4, <2>5, <2>6, Zenon DEF Continue
<1>7. CASE UNCHANGED vars
  BY <1>3, <1>7, Zenon DEF vars
<1> QED
  BY <1>5, <1>6, <1>7, Zenon DEF Next

\* The stream only grows, so what was announced stays announced and stored.
LEMMA AnnouncedLasts ==
  ASSUME Consistent, BookInv, BookInv', [Next]_vars, NEW id \in OrderIds,
         Announced(id), Announced(id)'
  PROVE  Lasts(id)
<1>1. Exists(id) /\ Exists(id)'
  BY Zenon DEF BookInv, StoredIsAnnounced
<1>2. orders'[id].event = orders[id].event
  BY <1>1, EventKept, Zenon
<1>3. KeepsTerminal(id)
  BY StepKeepsTerminal, Zenon
<1>4. orders[id].status = "CANCELED" => ~IsOpen(orders[id])
  BY Zenon DEF IsOpen
<1> QED
  BY <1>1, <1>2, <1>3, <1>4, Zenon DEF Lasts, KeepsTerminal, Exists

\* An order p may trade or cancel: its own, announced, and its cancellation
\* not told of.
Tradable(id, p) ==
    /\ id \in OrderIds /\ Announced(id) /\ OwnedBy(id, p)
    /\ ~Contains(stream, CanceledEvent(id))

\* Steps that add nothing to the stream, and trade or cancel only such orders.
LEMMA StoryKept ==
  ASSUME Consistent, BookInv, BookInv', Story, [Next]_vars, stream' = stream,
         \A q \in Partitions : pc'[q] = "canceled" =>
            Tradable(cur'[q], q) /\ orders'[cur'[q]].status = "CANCELED",
         \A q \in Partitions : \A j \in 1..Len(trades'[q]) :
            Tradable(trades'[q][j].taker, q) /\ Tradable(trades'[q][j].maker, q)
  PROVE  Story'
<1>1. /\ \A id : Announced(id)' <=> Announced(id)
      /\ \A id : Contains(stream, CanceledEvent(id))' <=> Contains(stream, CanceledEvent(id))
  BY Zenon DEF Announced, CreatedEvent, CanceledEvent, Contains
<1>2. \A id \in OrderIds : Announced(id) => Lasts(id)
  BY <1>1, AnnouncedLasts, Zenon
<1>3. ASSUME NEW id, NEW q, Tradable(id, q)
      PROVE  /\ Announced(id)' /\ OwnedBy(id, q)'
             /\ ~Contains(stream, CanceledEvent(id))'
  BY <1>1, <1>2, <1>3, Zenon DEF Tradable, Lasts, OwnedBy
<1>4. CancelsOwn'
  <2> SUFFICES ASSUME NEW p \in Partitions, pc'[p] = "canceled"
               PROVE  /\ Announced(cur[p])' /\ OwnedBy(cur[p], p)'
                      /\ orders'[cur'[p]].status = "CANCELED"
                      /\ ~Contains(stream, CanceledEvent(cur[p]))'
    BY Zenon DEF CancelsOwn
  <2>1. PICK c : c = cur'[p] /\ Tradable(c, p) /\ orders'[c].status = "CANCELED"
    BY Zenon
  <2>2. Announced(c)' /\ OwnedBy(c, p)' /\ ~Contains(stream, CanceledEvent(c))'
    BY <1>3, <2>1, Zenon
  <2> QED
    BY <2>1, <2>2, Zenon DEF CanceledEvent, Announced, CreatedEvent, OwnedBy
<1>5. TradesOwn'
  <2> SUFFICES ASSUME NEW p \in Partitions, NEW j \in 1..Len(trades'[p]),
                      NEW id \in {trades'[p][j].taker, trades'[p][j].maker}
               PROVE  /\ Announced(id)' /\ OwnedBy(id, p)'
                      /\ ~Contains(stream, CanceledEvent(id))'
    BY Zenon DEF TradesOwn
  <2>1. Tradable(id, p)
    BY Zenon
  <2> QED
    BY <1>3, <2>1, Zenon
<1>6. CanceledAreFinal'
  <2> SUFFICES ASSUME NEW id \in OrderIds, Contains(stream, CanceledEvent(id))'
               PROVE  Announced(id)' /\ orders'[id].status = "CANCELED"
    BY Zenon DEF CanceledAreFinal
  <2>1. Announced(id) /\ orders[id].status = "CANCELED"
    BY <1>1, Zenon DEF Story, CanceledAreFinal
  <2> QED
    BY <1>1, <1>2, <2>1, Zenon DEF Lasts
<1>7. EventsInOrder'
  <2> SUFFICES ASSUME NEW i \in DOMAIN stream', NEW id \in OrderIds,
                      Mentions(stream'[i], id)
               PROVE  /\ \E j \in 1..i : stream'[j] = CreatedEvent(id)
                      /\ \A j \in 1..(i - 1) : stream'[j] # CanceledEvent(id)
    BY Zenon DEF EventsInOrder, Mentions, CreatedEvent, CanceledEvent
  <2>1. /\ \E j \in 1..i : stream[j] = CreatedEvent(id)
        /\ \A j \in 1..(i - 1) : stream[j] # CanceledEvent(id)
    BY Zenon DEF Story, EventsInOrder
  <2> QED
    BY <2>1, Zenon
<1> QED
  BY <1>4, <1>5, <1>6, <1>7, Zenon DEF Story

\* The orders of the trades at hand are such orders.
LEMMA TradedOrders ==
  ASSUME TypeOK, TradesOwn, NEW q \in Partitions, NEW j \in 1..Len(trades[q])
  PROVE  Tradable(trades[q][j].taker, q) /\ Tradable(trades[q][j].maker, q)
<1>1. trades[q][j] \in Trade
  BY DEF TypeOK
<1>2. trades[q][j].taker \in OrderIds /\ trades[q][j].maker \in OrderIds
  BY <1>1, Zenon DEF Trade
<1> QED
  BY <1>2, Zenon DEF TradesOwn, Tradable

\* And so are those that have just been canceled.
LEMMA CanceledOrders ==
  ASSUME TypeOK, WorkersConsistent, CancelsOwn, NEW q \in Partitions, pc[q] = "canceled"
  PROVE  Tradable(cur[q], q) /\ orders[cur[q]].status = "CANCELED"
<1>1. cur[q] \in OrderIds
  BY Zenon DEF TypeOK, WorkersConsistent
<1> QED
  BY <1>1, Zenon DEF CancelsOwn, Tradable

\* Steps that add nothing to the stream, trade nothing and cancel nothing.
LEMMA StoryFrame ==
  ASSUME Consistent, BookInv, BookInv', Story, [Next]_vars, stream' = stream,
         \A q \in Partitions : pc'[q] = "canceled" => pc[q] = "canceled" /\ cur'[q] = cur[q],
         \A q \in Partitions : trades'[q] = trades[q] \/ trades'[q] = <<>>
  PROVE  Story'
<1>1. TypeOK /\ WorkersConsistent /\ CancelsOwn /\ TradesOwn
  BY Zenon DEF Consistent, Story
<1>2. ASSUME NEW q \in Partitions, pc'[q] = "canceled"
      PROVE  Tradable(cur'[q], q) /\ orders'[cur'[q]].status = "CANCELED"
  <2>1. PICK c : c = cur[q] /\ c = cur'[q]
    BY <1>2, Zenon
  <2>2. Tradable(c, q) /\ orders[c].status = "CANCELED"
    BY <1>1, <1>2, <2>1, CanceledOrders, Zenon
  <2>3. Announced(c)' <=> Announced(c)
    BY Zenon DEF Announced, CreatedEvent, Contains
  <2>4. Lasts(c)
    BY <2>2, <2>3, AnnouncedLasts, Zenon DEF Tradable
  <2> QED
    BY <2>1, <2>2, <2>4, Zenon DEF Lasts
<1>3. ASSUME NEW q \in Partitions, NEW j \in 1..Len(trades'[q])
      PROVE  Tradable(trades'[q][j].taker, q) /\ Tradable(trades'[q][j].maker, q)
  <2>1. trades'[q] # <<>>
    BY <1>3
  <2>2. trades'[q] = trades[q]
    BY <2>1, Zenon
  <2> QED
    BY <1>1, <2>2, TradedOrders, Zenon
<1> QED
  BY <1>2, <1>3, StoryKept, Zenon

\* One more event leaves the story in order if its orders were announced and
\* not canceled.
LEMMA OrderKept ==
  ASSUME TypeOK, EventsInOrder, NEW ev, stream' = Append(stream, ev),
         \A id \in OrderIds : Mentions(ev, id) =>
            Announced(id)' /\ ~Contains(stream, CanceledEvent(id))
  PROVE  EventsInOrder'
<1>1. stream \in Seq(StreamEvent) /\ Len(stream) \in Nat
  BY DEF TypeOK
<1>2. /\ Len(stream') = Len(stream) + 1 /\ DOMAIN stream' = 1..(Len(stream) + 1)
      /\ \A i \in 1..Len(stream) : stream'[i] = stream[i]
      /\ stream'[Len(stream) + 1] = ev
      /\ DOMAIN stream = 1..Len(stream)
  BY <1>1
<1> SUFFICES ASSUME NEW i \in 1..(Len(stream) + 1), NEW id \in OrderIds,
                    Mentions(stream'[i], id)
             PROVE  /\ \E j \in 1..i : stream'[j] = CreatedEvent(id)
                    /\ \A j \in 1..(i - 1) : stream'[j] # CanceledEvent(id)
  BY <1>2, Zenon DEF EventsInOrder, Mentions, CreatedEvent, CanceledEvent
<1>3. CASE i \in 1..Len(stream)
  <2>1. /\ \E j \in 1..i : stream[j] = CreatedEvent(id)
        /\ \A j \in 1..(i - 1) : stream[j] # CanceledEvent(id)
    BY <1>2, <1>3, Zenon DEF EventsInOrder
  <2>2. /\ \A j \in 1..i : stream'[j] = stream[j]
        /\ \A j \in 1..(i - 1) : stream'[j] = stream[j]
    BY <1>1, <1>2, <1>3
  <2> QED
    BY <2>1, <2>2, Zenon
<1>4. CASE i = Len(stream) + 1
  <2>1. Announced(id)' /\ ~Contains(stream, CanceledEvent(id))
    BY <1>2, <1>4, Zenon
  <2>2. \E j \in 1..Len(stream') : stream'[j] = CreatedEvent(id)
    BY <2>1, Zenon DEF Announced, Contains, CreatedEvent
  <2>3. \A j \in 1..Len(stream) : stream'[j] # CanceledEvent(id)
    BY <1>2, <2>1, Zenon DEF Contains
  <2>4. i - 1 = Len(stream) /\ i = Len(stream')
    BY <1>1, <1>2, <1>4
  <2> QED
    BY <2>2, <2>3, <2>4, Zenon
<1> QED
  BY <1>1, <1>3, <1>4

\* An ORDER_CANCELED is about an order that is canceled and in no trade at
\* hand.
EndsStory(ev) ==
    \A id \in OrderIds : ev = CanceledEvent(id) =>
        /\ Announced(id) /\ orders[id].status = "CANCELED"
        /\ \A q \in Partitions : \A j \in 1..Len(trades[q]) :
              id \notin {trades[q][j].taker, trades[q][j].maker}

\* Steps that add an event to the stream and change no order and no trade.
LEMMA StoryAppend ==
  ASSUME Consistent, Story, NEW ev, stream' = Append(stream, ev),
         orders' = orders, trades' = trades,
         \A q \in Partitions : pc'[q] = "canceled" =>
            pc[q] = "canceled" /\ cur'[q] = cur[q] /\ ev # CanceledEvent(cur[q]),
         \A id \in OrderIds : Mentions(ev, id) =>
            Announced(id)' /\ ~Contains(stream, CanceledEvent(id)),
         EndsStory(ev)
  PROVE  Story'
<1>1. TypeOK /\ WorkersConsistent /\ stream \in Seq(StreamEvent)
  BY Zenon DEF Consistent, TypeOK
<1>2. /\ \A id : Announced(id) => Announced(id)'
      /\ \A id : Contains(stream, CanceledEvent(id))' <=>
                Contains(stream, CanceledEvent(id)) \/ ev = CanceledEvent(id)
  <2>1. \A x : Contains(Append(stream, ev), x) <=> Contains(stream, x) \/ x = ev
    BY <1>1, ContainsAppend, Zenon
  <2> QED
    BY <2>1, Zenon DEF Announced, CreatedEvent, CanceledEvent
<1>3. \A id, q : OwnedBy(id, q)' <=> OwnedBy(id, q)
  BY Zenon DEF OwnedBy
<1>4. CancelsOwn'
  <2> SUFFICES ASSUME NEW p \in Partitions, pc'[p] = "canceled"
               PROVE  /\ Announced(cur[p])' /\ OwnedBy(cur[p], p)'
                      /\ orders'[cur'[p]].status = "CANCELED"
                      /\ ~Contains(stream, CanceledEvent(cur[p]))'
    BY Zenon DEF CancelsOwn
  <2>1. pc[p] = "canceled" /\ cur'[p] = cur[p] /\ ev # CanceledEvent(cur[p])
    BY Zenon
  <2>2. PICK c : c = cur[p]
    BY Zenon
  <2>3. /\ Announced(c) /\ OwnedBy(c, p) /\ orders[c].status = "CANCELED"
        /\ ~Contains(stream, CanceledEvent(c))
    BY <2>1, <2>2, Zenon DEF Story, CancelsOwn
  <2>4. /\ Announced(c)' /\ ~Contains(stream, CanceledEvent(c))'
        /\ orders'[c].status = "CANCELED" /\ OwnedBy(c, p)'
    BY <1>2, <1>3, <2>1, <2>2, <2>3, Zenon
  <2> QED
    BY <2>1, <2>2, <2>4, Zenon DEF CanceledEvent, Announced, CreatedEvent, OwnedBy
<1>5. TradesOwn'
  <2> SUFFICES ASSUME NEW p \in Partitions, NEW j \in 1..Len(trades'[p]),
                      NEW id \in {trades'[p][j].taker, trades'[p][j].maker}
               PROVE  /\ Announced(id)' /\ OwnedBy(id, p)'
                      /\ ~Contains(stream, CanceledEvent(id))'
    BY Zenon DEF TradesOwn
  <2>1. trades[p][j] \in Trade
    BY <1>1 DEF TypeOK
  <2>2. id \in OrderIds
    BY <2>1, Zenon DEF Trade
  <2>3. Announced(id) /\ OwnedBy(id, p) /\ ~Contains(stream, CanceledEvent(id))
    BY Zenon DEF Story, TradesOwn
  <2>4. ev # CanceledEvent(id)
    BY <2>2, Zenon DEF EndsStory
  <2> QED
    BY <1>2, <1>3, <2>3, <2>4, Zenon
<1>6. CanceledAreFinal'
  <2> SUFFICES ASSUME NEW id \in OrderIds, Contains(stream, CanceledEvent(id))'
               PROVE  Announced(id)' /\ orders'[id].status = "CANCELED"
    BY Zenon DEF CanceledAreFinal
  <2>1. Announced(id) /\ orders[id].status = "CANCELED"
    BY <1>2, Zenon DEF Story, CanceledAreFinal, EndsStory
  <2> QED
    BY <1>2, <2>1, Zenon
<1>7. EventsInOrder'
  BY <1>1, OrderKept, Zenon DEF Story
<1> QED
  BY <1>4, <1>5, <1>6, <1>7, Zenon DEF Story

\* emitOrderCreated announces an order that was not announced before, so it
\* was not canceled on the stream either.
LEMMA EmitOrderCreatedStory ==
  ASSUME Consistent, BookInv, Story, NEW p \in Partitions, EmitOrderCreated(p)
  PROVE  Story'
<1>1. /\ pc[p] = "created" /\ stream' = Append(stream, CreatedEvent(cur[p]))
      /\ pc' = [pc EXCEPT ![p] = "waiting"] /\ UNCHANGED <<orders, cur, trades>>
  BY Zenon DEF EmitOrderCreated
<1>2. TypeOK /\ WorkersConsistent /\ stream \in Seq(StreamEvent)
  BY Zenon DEF Consistent, TypeOK
<1>3. cur[p] \in OrderIds
  BY <1>1, <1>2, Zenon DEF WorkersConsistent, TypeOK
<1>4. PICK c \in OrderIds : c = cur[p]
  BY <1>3, Zenon
<1>5. PICK ev : ev = CreatedEvent(c)
  BY Zenon
<1>6. stream' = Append(stream, ev)
  BY <1>1, <1>4, <1>5, Zenon
<1>7. ~Announced(c)
  BY <1>1, <1>4, Zenon DEF BookInv, StoredIsAnnounced, BeingCreated
<1>8. ~Contains(stream, CanceledEvent(c))
  BY <1>7, Zenon DEF Story, CanceledAreFinal
<1>9. Announced(c)'
  BY <1>2, <1>4, <1>5, <1>6, CreatedAtAppend, Zenon
<1>10. \A id : ev # CanceledEvent(id)
  BY <1>5, Zenon DEF CreatedEvent, CanceledEvent
<1>11. \A id : Mentions(ev, id) => id = c
  BY <1>5, Zenon DEF CreatedEvent, Mentions
<1>12. \A q \in Partitions : pc'[q] = "canceled" => pc[q] = "canceled" /\ cur'[q] = cur[q]
  BY <1>1, <1>2, Zenon DEF TypeOK
<1> QED
  BY <1>1, <1>6, <1>8, <1>9, <1>10, <1>11, <1>12, StoryAppend, Zenon DEF EndsStory

\* publishTrade tells of a trade between announced orders that no
\* ORDER_CANCELED has been sent for.
LEMMA PublishTradeStory ==
  ASSUME Consistent, BookInv, BookInv', Story, NEW p \in Partitions, publishTrade(p),
         [Next]_vars
  PROVE  Story'
<1>1. /\ pc[p] = "publishing" /\ at[p] < Len(trades[p])
      /\ \/ stream' = Append(stream, TradeEvent(trades[p][at[p] + 1]))
         \/ stream' = stream
      /\ UNCHANGED <<orders, pc, cur, trades>>
  BY Zenon DEF publishTrade
<1>2. TypeOK /\ WorkersConsistent /\ stream \in Seq(StreamEvent)
  BY Zenon DEF Consistent, TypeOK
<1>3. CASE stream' = stream
  BY <1>1, <1>3, StoryFrame, Zenon
<1>4. CASE stream' = Append(stream, TradeEvent(trades[p][at[p] + 1]))
  <2>1. PICK j \in 1..Len(trades[p]) : j = at[p] + 1
    BY <1>1, <1>2 DEF TypeOK
  <2>2. PICK t : t = trades[p][j]
    BY Zenon
  <2>3. PICK ev : ev = TradeEvent(t)
    BY Zenon
  <2>4. stream' = Append(stream, ev)
    BY <1>4, <2>1, <2>2, <2>3, Zenon
  <2>5. \A id \in {t.taker, t.maker} :
           Announced(id) /\ ~Contains(stream, CanceledEvent(id))
    BY <2>1, <2>2, Zenon DEF Story, TradesOwn
  <2>6. \A id \in OrderIds : Announced(id) => Announced(id)'
    BY <1>2, <2>4, CreatedAtAppend, Zenon
  <2>7. \A id : ev # CanceledEvent(id)
    BY <2>3, Zenon DEF TradeEvent, CanceledEvent
  <2>8. \A id : Mentions(ev, id) => id \in {t.taker, t.maker}
    BY <2>3, Zenon DEF TradeEvent, Mentions
  <2>9. \A id \in OrderIds : Mentions(ev, id) =>
            Announced(id)' /\ ~Contains(stream, CanceledEvent(id))
    BY <2>5, <2>6, <2>8, Zenon
  <2> QED
    BY <1>1, <2>4, <2>7, <2>9, StoryAppend, Zenon DEF EndsStory
<1> QED
  BY <1>1, <1>3, <1>4, Zenon

\* emitOrderCanceled tells of the cancellation of an order that the worker
\* itself would trade, and has no trade of at the moment.
LEMMA EmitOrderCanceledStory ==
  ASSUME Consistent, BookInv, BookInv', Story, NEW p \in Partitions, EmitOrderCanceled(p),
         [Next]_vars
  PROVE  Story'
<1>1. /\ pc[p] = "canceled" /\ pc' = [pc EXCEPT ![p] = "idle"]
      /\ cur' = [cur EXCEPT ![p] = NoOrder]
      /\ \/ stream' = Append(stream, CanceledEvent(cur[p]))
         \/ stream' = stream
      /\ UNCHANGED <<orders, trades>>
  BY Zenon DEF EmitOrderCanceled
<1>2. TypeOK /\ WorkersConsistent /\ stream \in Seq(StreamEvent)
  BY Zenon DEF Consistent, TypeOK
<1>3. \A q \in Partitions : pc'[q] = "canceled" =>
         q # p /\ pc[q] = "canceled" /\ cur'[q] = cur[q]
  BY <1>1, <1>2, Zenon DEF TypeOK
<1>4. CASE stream' = stream
  BY <1>1, <1>3, <1>4, StoryFrame, Zenon
<1>5. CASE stream' = Append(stream, CanceledEvent(cur[p]))
  <2>1. cur[p] \in OrderIds
    BY <1>1, <1>2, Zenon DEF WorkersConsistent, TypeOK
  <2>2. PICK c \in OrderIds : c = cur[p]
    BY <2>1, Zenon
  <2>3. PICK ev : ev = CanceledEvent(c)
    BY Zenon
  <2>4. stream' = Append(stream, ev)
    BY <1>5, <2>2, <2>3, Zenon
  <2>5. /\ Announced(c) /\ OwnedBy(c, p) /\ orders[c].status = "CANCELED"
        /\ ~Contains(stream, CanceledEvent(c))
    BY <1>1, <2>2, Zenon DEF Story, CancelsOwn
  <2>6. Announced(c)'
    BY <1>2, <2>4, <2>5, CreatedAtAppend, Zenon
  <2>7. \A id : Mentions(ev, id) => id = c
    BY <2>3, Zenon DEF CanceledEvent, Mentions
  <2>8. \A id : ev = CanceledEvent(id) => id = c
    BY <2>3, Zenon DEF CanceledEvent
  <2>9. \A q \in Partitions : OwnedBy(c, q) => q = p
    BY <2>5, Zenon DEF OwnedBy
  <2>10. \A q \in Partitions : pc'[q] = "canceled" => ev # CanceledEvent(cur[q])
    <3> SUFFICES ASSUME NEW q \in Partitions, pc'[q] = "canceled", ev = CanceledEvent(cur[q])
                 PROVE  FALSE
      BY Zenon
    <3>1. cur[q] = c /\ q # p /\ pc[q] = "canceled"
      BY <1>3, <2>8, Zenon
    <3>2. OwnedBy(cur[q], q)
      BY <3>1, Zenon DEF Story, CancelsOwn
    <3> QED
      BY <2>9, <3>1, <3>2, Zenon
  <2>11. \A q \in Partitions : \A j \in 1..Len(trades[q]) :
            c \notin {trades[q][j].taker, trades[q][j].maker}
    <3> SUFFICES ASSUME NEW q \in Partitions, NEW j \in 1..Len(trades[q]),
                        c \in {trades[q][j].taker, trades[q][j].maker}
                 PROVE  FALSE
      BY Zenon
    <3>1. OwnedBy(c, q)
      BY Zenon DEF Story, TradesOwn
    <3>2. q = p
      BY <2>9, <3>1, Zenon
    <3>3. trades[p] = <<>>
      BY <1>1, <1>2, Zenon DEF WorkersConsistent
    <3> QED
      BY <3>2, <3>3
  <2>12. \A id \in OrderIds : Mentions(ev, id) =>
            Announced(id)' /\ ~Contains(stream, CanceledEvent(id))
    BY <2>5, <2>6, <2>7, Zenon
  <2>13. EndsStory(ev)
    BY <2>5, <2>8, <2>11, Zenon DEF EndsStory
  <2>14. \A q \in Partitions : pc'[q] = "canceled" =>
            pc[q] = "canceled" /\ cur'[q] = cur[q] /\ ev # CanceledEvent(cur[q])
    BY <1>3, <2>10, Zenon
  <2>15. orders' = orders /\ trades' = trades
    BY <1>1, Zenon
  <2> QED
    BY <2>4, <2>12, <2>13, <2>14, <2>15, StoryAppend, Zenon
<1> QED
  BY <1>1, <1>4, <1>5, Zenon

\* executePair trades the worker's own order, which nobody has canceled while
\* e.mu is held, with a live order of the same market.
LEMMA ExecutePairStory ==
  ASSUME Consistent, BookInv, BookInv', Story, NEW p \in Partitions, executePair(p),
         [Next]_vars
  PROVE  Story'
<1>1. PICK x \in OrderIds, m \in OrderIds, n \in Nat, i \in Nat : Pairs(p, x, m, n, i)
  BY ExecutePairEffect, Zenon
<1>2. /\ x = cur[p] /\ pc[p] = "matching" /\ orders[x] \in Order
      /\ orders[x].status = "PENDING" /\ orders[m] \in Order /\ IsLive(orders[m])
      /\ OwnSide(orders[m]) = OtherSide(orders[x])
      /\ i \in 1..Len(book[OtherSide(orders[x])]) /\ m = book[OtherSide(orders[x])][i]
      /\ trades' = [trades EXCEPT ![p] = Append(@, buildTrade(x, orders[x], m, orders[m], n))]
      /\ UNCHANGED <<pc, cur, stream>>
  BY <1>1, Zenon DEF Pairs
<1>3. TypeOK /\ WorkersConsistent
  BY Zenon DEF Consistent
<1>4. PICK t : t = buildTrade(x, orders[x], m, orders[m], n)
  BY Zenon
<1>5. t.taker = x /\ t.maker = m
  BY <1>4, Zenon DEF buildTrade
<1>6. OtherSide(orders[x]) \in BookKeys
  BY <1>2, Zenon DEF OtherSide, Order, BookKeys, Sides
<1>7. Announced(x) /\ Announced(m)
  <2>1. Working(p) /\ pc[p] # "created"
    BY <1>2, Zenon DEF Working
  <2>2. StoredIsAnnounced
    BY Zenon DEF BookInv
  <2> QED
    BY <1>2, <1>6, <2>1, <2>2, BookOrdersAnnounced, Zenon
<1>8. OwnedBy(x, p) /\ OwnedBy(m, p)
  <2>1. OwnedBy(x, p)
    BY <1>2, Zenon DEF BookInv, WorkersOwn, Working
  <2>2. orders[m].event = orders[x].event
    BY <1>2, Zenon DEF OwnSide, OtherSide
  <2> QED
    BY <2>1, <2>2, Zenon DEF OwnedBy
<1>9. ~Contains(stream, CanceledEvent(x)) /\ ~Contains(stream, CanceledEvent(m))
  <2>1. orders[x].status # "CANCELED" /\ orders[m].status # "CANCELED"
    BY <1>2, Zenon DEF IsLive, IsOpen
  <2> QED
    BY <2>1, Zenon DEF Story, CanceledAreFinal
<1>10. Tradable(t.taker, p) /\ Tradable(t.maker, p)
  BY <1>5, <1>7, <1>8, <1>9, Zenon DEF Tradable
<1>11. ASSUME NEW q \in Partitions, NEW j \in 1..Len(trades'[q])
       PROVE  Tradable(trades'[q][j].taker, q) /\ Tradable(trades'[q][j].maker, q)
  <2>1. trades[q] \in Seq(Trade)
    BY <1>3, Zenon DEF TypeOK
  <2>2. q # p => trades'[q] = trades[q]
    BY <1>2, <1>3, Zenon DEF TypeOK
  <2>3. q = p => trades'[q] = Append(trades[q], t)
    BY <1>2, <1>3, <1>4, Zenon DEF TypeOK
  <2>4. \/ j \in 1..Len(trades[q]) /\ trades'[q][j] = trades[q][j]
        \/ q = p /\ trades'[q][j] = t
    BY <1>11, <2>1, <2>2, <2>3
  <2>5. TradesOwn
    BY Zenon DEF Story
  <2> QED
    BY <1>3, <1>10, <2>4, <2>5, TradedOrders, Zenon
<1>12. ASSUME NEW q \in Partitions, pc'[q] = "canceled"
       PROVE  Tradable(cur'[q], q) /\ orders'[cur'[q]].status = "CANCELED"
  <2>1. PICK c : c = cur[q] /\ c = cur'[q] /\ pc[q] = "canceled"
    BY <1>2, <1>12, Zenon
  <2>2. Tradable(c, q) /\ orders[c].status = "CANCELED"
    BY <1>3, <2>1, CanceledOrders, Zenon DEF Story
  <2>3. Announced(c)' <=> Announced(c)
    BY <1>2, Zenon DEF Announced, CreatedEvent, Contains
  <2>4. Lasts(c)
    BY <2>2, <2>3, AnnouncedLasts, Zenon DEF Tradable
  <2> QED
    BY <2>1, <2>2, <2>4, Zenon DEF Lasts
<1> QED
  BY <1>2, <1>11, <1>12, StoryKept, Zenon

\* handleCancelOrder cancels an open order of its own market: the worker is
\* idle, so nobody is still creating the order.
LEMMA CancelStory ==
  ASSUME Consistent, BookInv, BookInv', Story, CancelsNamed, NEW p \in Partitions,
         NEW x \in OrderIds, NEW e \in CancelEvents, handleCancelOrder(p, x, e), [Next]_vars
  PROVE  Story'
<1>1. /\ pc[p] = "idle" /\ CancelPartition(e) = p /\ orders[x] # NoOrder
      /\ e # NoEvent => orders[x].event = e
      /\ IsOpen(orders[x])
      /\ orders' = [orders EXCEPT ![x].status = "CANCELED", ![x].locked = 0]
      /\ pc' = [pc EXCEPT ![p] = "canceled"] /\ cur' = [cur EXCEPT ![p] = x]
      /\ trades' = trades /\ stream' = stream
  BY Zenon DEF handleCancelOrder
<1>2. TypeOK /\ WorkersConsistent /\ CancelsOwn /\ TradesOwn
  BY Zenon DEF Consistent, Story
<1>3. OwnedBy(x, p)
  <2>1. e # NoEvent
    BY Zenon DEF CancelsNamed
  <2> QED
    BY <1>1, <2>1, Zenon DEF CancelPartition, OwnedBy
<1>4. Announced(x)
  <2>1. ~BeingCreated(x)
    <3> SUFFICES ASSUME NEW q \in Partitions, cur[q] = x, pc[q] = "created" PROVE FALSE
      BY Zenon DEF BeingCreated
    <3>1. OwnedBy(x, q)
      BY Zenon DEF BookInv, WorkersOwn, Working
    <3>2. q = p
      BY <1>3, <3>1, Zenon DEF OwnedBy
    <3> QED
      BY <1>1, <3>2, Zenon
  <2> QED
    BY <1>1, <2>1, Zenon DEF BookInv, StoredIsAnnounced, Exists
<1>5. ~Contains(stream, CanceledEvent(x))
  <2>1. orders[x].status # "CANCELED"
    BY <1>1, Zenon DEF IsOpen
  <2> QED
    BY <2>1, Zenon DEF Story, CanceledAreFinal
<1>6. orders'[x].status = "CANCELED"
  <2>1. orders[x] \in Order
    BY <1>1, <1>2, Zenon DEF TypeOK
  <2>2. orders'[x] = [orders[x] EXCEPT !.status = "CANCELED", !.locked = 0]
    BY <1>1, <1>2, Zenon DEF TypeOK
  <2> QED
    BY <2>1, <2>2, Zenon DEF Order
<1>7. ASSUME NEW q \in Partitions, pc'[q] = "canceled"
      PROVE  Tradable(cur'[q], q) /\ orders'[cur'[q]].status = "CANCELED"
  <2>1. CASE q = p
    <3>1. cur'[q] = x
      BY <1>1, <1>2, <2>1, Zenon DEF TypeOK
    <3> QED
      BY <1>3, <1>4, <1>5, <1>6, <2>1, <3>1, Zenon DEF Tradable
  <2>2. CASE q # p
    <3>1. pc[q] = "canceled" /\ cur'[q] = cur[q]
      BY <1>1, <1>2, <1>7, <2>2, Zenon DEF TypeOK
    <3>2. PICK c : c = cur[q] /\ c = cur'[q]
      BY <3>1, Zenon
    <3>3. Tradable(c, q) /\ orders[c].status = "CANCELED"
      BY <1>2, <3>1, <3>2, CanceledOrders, Zenon
    <3>4. Announced(c)' <=> Announced(c)
      BY <1>1, Zenon DEF Announced, CreatedEvent, Contains
    <3>5. Lasts(c)
      BY <3>3, <3>4, AnnouncedLasts, Zenon DEF Tradable
    <3> QED
      BY <3>2, <3>3, <3>5, Zenon DEF Lasts
  <2> QED
    BY <2>1, <2>2, Zenon
<1>8. \A q \in Partitions : \A j \in 1..Len(trades'[q]) :
         Tradable(trades'[q][j].taker, q) /\ Tradable(trades'[q][j].maker, q)
  BY <1>1, <1>2, TradedOrders, Zenon
<1> QED
  BY <1>1, <1>7, <1>8, StoryKept, Zenon

\* No other step touches the stream.
LEMMA QuietStory ==
  ASSUME Consistent, BookInv, BookInv', Story, [Next]_vars, NEW p \in Partitions,
         \/ \E u \in Users : handleUserCreated(p, u)
         \/ \E e \in Events : handleCreateEvent(p, e)
         \/ \E id \in OrderIds, r \in Requests : AcceptOrder(p, id, r)
         \/ \E id \in OrderIds, r \in Requests : RejectUnfundedBuy(p, id, r)
         \/ EmitOrderCreatedFails(p) \/ StartMatch(p) \/ SkipCanceled(p) \/ FinishMatch(p)
         \/ settleTradeLocked(p) \/ FinishSettle(p) \/ FinishOrder(p) \/ UNCHANGED vars
  PROVE  Story'
<1>1. TypeOK
  BY Zenon DEF Consistent
<1>2. /\ stream' = stream
      /\ trades' = trades \/ trades' = [trades EXCEPT ![p] = <<>>]
      /\ \/ UNCHANGED <<pc, cur>>
         \/ /\ \E s \in {"idle", "created", "matching", "settling", "publishing"} :
                  pc' = [pc EXCEPT ![p] = s]
            /\ \/ cur' = cur
               \/ \E c : cur' = [cur EXCEPT ![p] = c]
  <2>1. CASE \E u \in Users : handleUserCreated(p, u)
    BY <2>1, Zenon DEF handleUserCreated, workerVars
  <2>2. CASE \E e \in Events : handleCreateEvent(p, e)
    BY <2>2, Zenon DEF handleCreateEvent, workerVars
  <2>3. CASE \E id \in OrderIds, r \in Requests : AcceptOrder(p, id, r)
    BY <2>3, Zenon DEF AcceptOrder
  <2>4. CASE \E id \in OrderIds, r \in Requests : RejectUnfundedBuy(p, id, r)
    BY <2>4, Zenon DEF RejectUnfundedBuy, workerVars
  <2>5. CASE EmitOrderCreatedFails(p)
    BY <2>5, Zenon DEF EmitOrderCreatedFails
  <2>6. CASE StartMatch(p) \/ SkipCanceled(p)
    BY <2>6, Zenon DEF StartMatch, SkipCanceled
  <2>7. CASE FinishMatch(p)
    BY <2>7, Zenon DEF FinishMatch
  <2>8. CASE settleTradeLocked(p)
    BY <2>8, Zenon DEF settleTradeLocked
  <2>9. CASE FinishSettle(p)
    BY <2>9, Zenon DEF FinishSettle
  <2>10. CASE FinishOrder(p)
    BY <2>10, Zenon DEF FinishOrder
  <2>11. CASE UNCHANGED vars
    BY <2>11, Zenon DEF vars, workerVars
  <2> QED
    BY <2>1, <2>2, <2>3, <2>4, <2>5, <2>6, <2>7, <2>8, <2>9, <2>10, <2>11, Zenon
<1>3. \A q \in Partitions : pc'[q] = "canceled" => pc[q] = "canceled" /\ cur'[q] = cur[q]
  BY <1>1, <1>2, Zenon DEF TypeOK
<1>4. \A q \in Partitions : trades'[q] = trades[q] \/ trades'[q] = <<>>
  BY <1>1, <1>2, Zenon DEF TypeOK
<1> QED
  BY <1>2, <1>3, <1>4, StoryFrame, Zenon

\* At first there is nothing to tell.
LEMMA InitStory == Init => Story
<1> SUFFICES ASSUME Init PROVE Story
  BY Zenon
<1>1. /\ stream = <<>> /\ \A p \in Partitions : pc[p] = "idle" /\ trades[p] = <<>>
  BY Zenon DEF Init
<1>2. \A x : ~Contains(stream, x)
  BY <1>1 DEF Contains
<1>3. CancelsOwn /\ CanceledAreFinal
  BY <1>1, <1>2, Zenon DEF CancelsOwn, CanceledAreFinal
<1>4. TradesOwn
  BY <1>1 DEF TradesOwn
<1>5. EventsInOrder
  BY <1>1 DEF EventsInOrder
<1> QED
  BY <1>3, <1>4, <1>5, Zenon DEF Story

\* Every step keeps the story right.
LEMMA NextStory ==
  CancelsNamed /\ Consistent /\ BookInv /\ BookInv' /\ Story /\ [Next]_vars => Story'
<1> SUFFICES ASSUME CancelsNamed, Consistent, BookInv, BookInv', Story, [Next]_vars
             PROVE  Story'
  BY Zenon
<1>1. CASE UNCHANGED vars
  <2>1. DefaultPartition \in Partitions
    BY ConstantsAssumption, Zenon
  <2> QED
    BY <1>1, <2>1, QuietStory, Zenon
<1>2. ASSUME NEW p \in Partitions, Command(p) PROVE Story'
  <2>1. ASSUME NEW id \in OrderIds, NEW e \in CancelEvents, handleCancelOrder(p, id, e)
        PROVE  Story'
    BY <2>1, CancelStory, Zenon
  <2> QED
    BY <1>2, <2>1, QuietStory, Zenon DEF Command
<1>3. ASSUME NEW p \in Partitions, Continue(p) PROVE Story'
  <2>1. CASE EmitOrderCreated(p)
    BY <2>1, EmitOrderCreatedStory, Zenon
  <2>2. CASE executePair(p)
    BY <2>2, ExecutePairStory, Zenon
  <2>3. CASE publishTrade(p)
    BY <2>3, PublishTradeStory, Zenon
  <2>4. CASE EmitOrderCanceled(p)
    BY <2>4, EmitOrderCanceledStory, Zenon
  <2> QED
    BY <1>3, <2>1, <2>2, <2>3, <2>4, QuietStory, Zenon DEF Continue
<1> QED
  BY <1>1, <1>2, <1>3, Zenon DEF Next

\* Where every CANCEL_ORDER names its market, so that the worker that trades
\* an order also cancels it, the events of an order are on the stream in
\* order: ORDER_CREATED first, and nothing after ORDER_CANCELED.
THEOREM EventsTellInOrder == CancelsNamed => (Spec => []EventsInOrder)
<1> SUFFICES ASSUME CancelsNamed PROVE Spec => []EventsInOrder
  BY Zenon
<1>1. Consistent /\ BookInv /\ BookInv' /\ Story /\ [Next]_vars => Story'
  BY NextStory, Zenon
<1>2. Story => EventsInOrder
  BY Zenon DEF Story
<1> QED
  BY <1>1, <1>2, InitStory, BooksSound, EngineConsistent, PTL DEF Spec
=============================================================================
