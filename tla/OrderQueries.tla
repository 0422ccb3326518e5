---------------------------- MODULE OrderQueries ----------------------------
(***************************************************************************)
(* The read-only commands of the engine, GET_DEPTH and GET_OPEN_ORDERS, as *)
(* functions of its state.  They hold the read lock of e.mu, so they see   *)
(* the state between two critical sections of the workers.                 *)
(***************************************************************************)
EXTENDS MatchingEngine

LOCAL S == INSTANCE SequencesExt

Shown_original(o) == o.quantity

\* What an order adds to its price level.
Shown(o) == o.remaining

\* The slice's positions with live orders at a price.
AtPrice(slice, price) ==
    {i \in DOMAIN slice : IsLive(orders[slice[i]]) /\ orders[slice[i]].price = price}

Level(slice, price) ==
    LET quantity == MapThenSumSet(LAMBDA i : Shown(orders[slice[i]]), AtPrice(slice, price))
    IN  [price |-> price, quantity |-> quantity, total |-> price * quantity,
         orderCount |-> Cardinality(AtPrice(slice, price))]

Levels(slice) ==
    {Level(slice, price) :
        price \in {orders[slice[i]].price : i \in {j \in DOMAIN slice : IsLive(orders[slice[j]])}}}

\* The levels, best price first: the highest bid, the lowest ask.
aggregateBids(slice) == S!SetToSortSeq(Levels(slice), LAMBDA a, b : a.price > b.price)

aggregateAsks(slice) == S!SetToSortSeq(Levels(slice), LAMBDA a, b : a.price < b.price)

handleGetDepth(event) ==
    [out \in Outcomes |-> [bids |-> aggregateBids(book[<<event, out, "BUY">>]),
                           asks |-> aggregateAsks(book[<<event, out, "SELL">>])]]

\* A user's open orders of an event (in the code, sorted by creation time).
handleGetOpenOrders(event, user) ==
    {id \in OrderIds : /\ Exists(id) /\ IsOpen(orders[id])
                       /\ orders[id].event = event /\ orders[id].user = user}

-----------------------------------------------------------------------------
\* All open orders of a market's side that no worker is deciding about, as
\* their owners see them.
OpenInterest(event, out, side) ==
    {id \in UNION {handleGetOpenOrders(event, u) : u \in Users} :
        orders[id].outcome = out /\ orders[id].side = side /\ ~InFlight(id)}

\* The rows of a side of the depth show exactly these orders, level by level
\* and in order of price.
Shows(rows, ids, Better(_, _)) ==
    /\ \A i, j \in DOMAIN rows : i < j => Better(rows[i].price, rows[j].price)
    /\ {rows[i].price : i \in DOMAIN rows} = {orders[id].price : id \in ids}
    /\ \A i \in DOMAIN rows :
         LET here == {id \in ids : orders[id].price = rows[i].price}
             open == MapThenSumSet(LAMBDA id : orders[id].remaining, here)
         IN  /\ rows[i].quantity = open
             /\ rows[i].orderCount = Cardinality(here)
             /\ rows[i].total = open * rows[i].price

\* GET_DEPTH, computed from the books, and GET_OPEN_ORDERS, computed from the
\* order map, agree whenever they can be called: every level shows the open
\* orders at its price with what remains of them, none missing, none stale.
DepthIsOpenInterest ==
    mu = Unlocked =>
      \A event \in markets, out \in Outcomes :
        LET depth == handleGetDepth(event)[out]
        IN  /\ Shows(depth.bids, OpenInterest(event, out, "BUY"), >)
            /\ Shows(depth.asks, OpenInterest(event, out, "SELL"), <)
=============================================================================
