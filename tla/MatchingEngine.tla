--------------------------- MODULE MatchingEngine ---------------------------
(***************************************************************************)
(* The in-memory matching engine: markets, orders, order books and the     *)
(* cash/share ledger that every partition worker of one engine process     *)
(* shares under the mutex e.mu (internal/engine/engine.go, ledger.go,      *)
(* types.go).                                                              *)
(*                                                                         *)
(* One process per partition executes the commands of its stream one at a  *)
(* time.  A CREATE_ORDER releases e.mu between reserving funds and         *)
(* matching, and again before it publishes its trades, so the workers of   *)
(* other partitions run in between.  Inside matchOrder, which holds e.mu   *)
(* throughout, every iteration of the matching loop and of the settlement  *)
(* loop is one step: no other step touches the state mu protects           *)
(* meanwhile, and each step changes one pair of orders.                    *)
(*                                                                         *)
(* Early returns that change nothing (duplicate order id, unknown market,  *)
(* invalid request, order not cancelable) are stuttering steps and have no *)
(* action.  Prices and quantities are scaled integers, as in the code.     *)
(***************************************************************************)
EXTENDS Integers, Sequences, FiniteSets, Slices, Sums

CONSTANTS
    Users, Events, OrderIds,
    Partitions,         \* one worker goroutine each
    PartitionOf,        \* Router.Partition: the partition of an event id
    DefaultPartition,   \* the partition of an empty event id
    Requests,           \* the CREATE_ORDER payloads clients send
    CancelEvents,       \* the eventId values CANCEL_ORDER payloads carry
    StartingBalance,    \* DefaultStartingBalance
    SeedShares,         \* shares held before the first command; the engine
                        \* has no issuance step, so production has none
    RedisMayFail,       \* whether an XADD to the events stream may fail
    NoOrder, NoEvent, Unlocked

Outcomes == {"YES", "NO"}

Sides == {"BUY", "SELL"}

Statuses == {"PENDING", "PARTIAL", "FILLED", "CANCELED"}

Request == [user : Users, event : Events, outcome : Outcomes, side : Sides,
            type : {"LIMIT", "MARKET"}, quantity : Nat, price : Nat]

Order == [user : Users, event : Events, outcome : Outcomes, side : Sides,
          type : {"LIMIT", "MARKET"}, quantity : Nat, price : Nat,
          filled : Nat, remaining : Nat, locked : Nat, status : Statuses]

Trade == [taker : OrderIds, maker : OrderIds, buyer : Users, seller : Users,
          event : Events, outcome : Outcomes, quantity : Nat, price : Nat]

PositionKeys == Users \X Events \X Outcomes

BookKeys == Events \X Outcomes \X Sides

ASSUME ConstantsAssumption ==
    /\ PartitionOf \in [Events -> Partitions]
    /\ DefaultPartition \in Partitions
    /\ Requests \subseteq Request
    /\ CancelEvents \subseteq Events \cup {NoEvent}
    /\ StartingBalance \in Nat
    /\ SeedShares \in [PositionKeys -> Nat]
    /\ RedisMayFail \in BOOLEAN
    /\ NoOrder \notin Order /\ NoOrder \notin OrderIds
    /\ NoEvent \notin Events
    /\ Unlocked \notin Partitions

ASSUME FiniteAssumption ==
    IsFiniteSet(Users) /\ IsFiniteSet(OrderIds)

VARIABLES
    markets,            \* e.markets: the events that have a market
    orders,             \* e.orders: NoOrder where the map has no entry
    book,               \* the Bids/Asks slices of every market
    accounts,           \* the users with an entry in e.balances
    cashAvailable, cashReserved,      \* Balance.Available, .Reserved
    sharesAvailable, sharesReserved,  \* Position.Available, .Reserved
    mu,                 \* e.mu: the partition holding it, or Unlocked
    pc,                 \* where each partition worker is
    cur,                \* the order each worker is working on
    trades,             \* matchOrder's local slice of trades
    at,                 \* how many of them the current loop has handled
    stream,             \* the events:out stream
    granted             \* history: who received the starting balance

ledgerVars == <<accounts, cashAvailable, cashReserved,
                sharesAvailable, sharesReserved, granted>>

workerVars == <<mu, pc, cur, trades, at>>

vars == <<markets, orders, book, ledgerVars, workerVars, stream>>

Stages == {"idle",        \* waiting for the next command
           "created",     \* order stored, ORDER_CREATED not emitted yet
           "waiting",     \* ORDER_CREATED emitted, matchOrder not locked yet
           "matching",    \* in matchAgainstBook, holding mu
           "settling",    \* in the settleTradeLocked loop, holding mu
           "publishing",  \* in the publishTrade loop
           "canceled"}    \* order canceled, ORDER_CANCELED not emitted yet

StreamEvent == [type : {"ORDER_CREATED", "ORDER_CANCELED"}, order : OrderIds]
                 \cup [type : {"TRADE_EXECUTED"}, trade : Trade]

TypeOK ==
    /\ markets \subseteq Events
    /\ orders \in [OrderIds -> Order \cup {NoOrder}]
    /\ book \in [BookKeys -> Seq(OrderIds)]
    /\ accounts \subseteq Users
    /\ cashAvailable \in [Users -> Nat]
    /\ cashReserved \in [Users -> Nat]
    /\ sharesAvailable \in [PositionKeys -> Nat]
    /\ sharesReserved \in [PositionKeys -> Nat]
    /\ mu \in Partitions \cup {Unlocked}
    /\ pc \in [Partitions -> Stages]
    /\ cur \in [Partitions -> OrderIds \cup {NoOrder}]
    /\ trades \in [Partitions -> Seq(Trade)]
    /\ at \in [Partitions -> Nat]
    /\ stream \in Seq(StreamEvent)
    /\ granted \subseteq Users

Init ==
    /\ markets = {}
    /\ orders = [id \in OrderIds |-> NoOrder]
    /\ book = [k \in BookKeys |-> <<>>]
    /\ accounts = {}
    /\ cashAvailable = [u \in Users |-> 0]
    /\ cashReserved = [u \in Users |-> 0]
    /\ sharesAvailable = SeedShares
    /\ sharesReserved = [k \in PositionKeys |-> 0]
    /\ mu = Unlocked
    /\ pc = [p \in Partitions |-> "idle"]
    /\ cur = [p \in Partitions |-> NoOrder]
    /\ trades = [p \in Partitions |-> <<>>]
    /\ at = [p \in Partitions |-> 0]
    /\ stream = <<>>
    /\ granted = {}

-----------------------------------------------------------------------------
(* Helpers.                                                                *)

\* Mutant: the clamps of the ledger are missing.
AtLeastZero_unclamped(n) == n

AtLeastZero(n) == IF n < 0 THEN 0 ELSE n

Smaller(a, b) == IF a < b THEN a ELSE b

PositionKey(o) == <<o.user, o.event, o.outcome>>

OwnSide(o) == <<o.event, o.outcome, o.side>>

OtherSide(o) ==
    <<o.event, o.outcome, IF o.side = "BUY" THEN "SELL" ELSE "BUY">>

IsOpen(o) == o.status \in {"PENDING", "PARTIAL"}

\* Orders that findCounterparty, removeInvalidBids and removeInvalidAsks
\* leave in place.
IsLive(o) == IsOpen(o) /\ o.remaining > 0

\* validateOrder, with the check on quantity that precedes it.
validateOrder(r) ==
    /\ r.quantity > 0
    /\ r.type = "LIMIT" => r.price > 0

\* Mutant: equal prices do not match.
canMatch_strict(incoming, resting) ==
    /\ incoming.outcome = resting.outcome
    /\ \/ incoming.type = "MARKET"
       \/ incoming.side = "BUY" /\ resting.price < incoming.price
       \/ incoming.side = "SELL" /\ resting.price > incoming.price

canMatch(incoming, resting) ==
    /\ incoming.outcome = resting.outcome
    /\ \/ incoming.type = "MARKET"
       \/ incoming.side = "BUY" /\ resting.price <= incoming.price
       \/ incoming.side = "SELL" /\ resting.price >= incoming.price

\* The index of the first resting order of s that incoming can trade with;
\* 0 when there is none.
findCounterparty(s, incoming) ==
    FirstIndex(s, LAMBDA m : /\ IsLive(orders[m])
                             /\ orders[m].user # incoming.user
                             /\ canMatch(incoming, orders[m]))

\* removeInvalidBids and removeInvalidAsks: s without its dead front.
removeInvalid(s) ==
    LET front == FirstIndex(s, LAMBDA m : IsLive(orders[m]))
    IN  IF front = 0 THEN <<>> ELSE SubSeq(s, front, Len(s))

\* Whether resting order a must be matched after b: the strict order that
\* the slices are sorted by, descending for bids and ascending for asks.
SortsAfter(a, b) ==
    IF b.side = "BUY" THEN a.price < b.price ELSE a.price > b.price

\* Mutant: the sort is not stable and puts the newcomer ahead of its equals.
addToBook_unstable(s, id, o) ==
    LET notBefore == FirstIndex(s, LAMBDA m : ~SortsAfter(o, orders[m]))
    IN  IF notBefore = 0 THEN Append(s, id) ELSE InsertAt(s, notBefore, id)

\* Appending order o (named id) to the sorted slice s and sorting it stably
\* puts it behind every order that does not sort after it.
addToBook(s, id, o) ==
    LET after == FirstIndex(s, LAMBDA m : SortsAfter(orders[m], o))
    IN  IF after = 0 THEN Append(s, id) ELSE InsertAt(s, after, id)

buildTrade(takerId, taker, makerId, maker, quantity) ==
    [taker |-> takerId, maker |-> makerId,
     buyer |-> IF taker.side = "BUY" THEN taker.user ELSE maker.user,
     seller |-> IF taker.side = "BUY" THEN maker.user ELSE taker.user,
     event |-> taker.event, outcome |-> taker.outcome,
     quantity |-> quantity, price |-> maker.price]

-----------------------------------------------------------------------------
(* Ledger commands and reservation.                                        *)

\* A zeroed entry that an earlier order created keeps the grant away.
handleUserCreated(p, u) ==
    /\ pc[p] = "idle" /\ mu = Unlocked
    /\ u \notin accounts
    /\ accounts' = accounts \cup {u}
    /\ cashAvailable' = [cashAvailable EXCEPT ![u] = StartingBalance]
    /\ granted' = granted \cup {u}
    /\ UNCHANGED <<markets, orders, book, cashReserved, sharesAvailable,
                   sharesReserved, workerVars, stream>>

handleCreateEvent(p, e) ==
    /\ pc[p] = "idle" /\ mu = Unlocked
    /\ PartitionOf[e] = p
    /\ e \notin markets
    /\ markets' = markets \cup {e}
    /\ UNCHANGED <<orders, book, ledgerVars, workerVars, stream>>

\* Mutant: a limit BUY freezes the price of one share.
RequiredFunds_one(r) ==
    CASE r.side = "SELL"                    -> r.quantity
      [] r.side = "BUY" /\ r.type = "MARKET" -> cashAvailable[r.user]
      [] OTHER                              -> r.price

\* What reserveOrderLocked freezes: cash for a BUY, shares for a SELL.
\* A market BUY freezes all the cash the user has.
RequiredFunds(r) ==
    CASE r.side = "SELL"                    -> r.quantity
      [] r.side = "BUY" /\ r.type = "MARKET" -> cashAvailable[r.user]
      [] OTHER                              -> r.quantity * r.price

HasFunds(r) ==
    IF r.side = "BUY" THEN RequiredFunds(r) <= cashAvailable[r.user]
                      ELSE RequiredFunds(r) <= sharesAvailable[PositionKey(r)]

reserveOrderLocked(r) ==
    IF r.side = "BUY"
    THEN /\ accounts' = accounts \cup {r.user}
         /\ cashAvailable' = [cashAvailable EXCEPT ![r.user] = @ - RequiredFunds(r)]
         /\ cashReserved' = [cashReserved EXCEPT ![r.user] = @ + RequiredFunds(r)]
         /\ UNCHANGED <<sharesAvailable, sharesReserved>>
    ELSE /\ sharesAvailable' =
                [sharesAvailable EXCEPT ![PositionKey(r)] = @ - RequiredFunds(r)]
         /\ sharesReserved' =
                [sharesReserved EXCEPT ![PositionKey(r)] = @ + RequiredFunds(r)]
         /\ UNCHANGED <<accounts, cashAvailable, cashReserved>>

NewOrder(r) ==
    [user |-> r.user, event |-> r.event, outcome |-> r.outcome,
     side |-> r.side, type |-> r.type, quantity |-> r.quantity,
     price |-> r.price, filled |-> 0, remaining |-> r.quantity,
     locked |-> RequiredFunds(r), status |-> "PENDING"]

\* The part of handleCreateOrderCore before its first critical section can
\* have an effect: the worker is free and the request is new and valid.
OrderArrives(p, id, r) ==
    /\ pc[p] = "idle" /\ mu = Unlocked
    /\ PartitionOf[r.event] = p
    /\ validateOrder(r)
    /\ orders[id] = NoOrder
    /\ r.event \in markets

\* handleCreateOrderCore up to its first unlock.
AcceptOrder(p, id, r) ==
    /\ OrderArrives(p, id, r)
    /\ HasFunds(r)
    /\ reserveOrderLocked(r)
    /\ orders' = [orders EXCEPT ![id] = NewOrder(r)]
    /\ pc' = [pc EXCEPT ![p] = "created"]
    /\ cur' = [cur EXCEPT ![p] = id]
    /\ UNCHANGED <<markets, book, mu, trades, at, stream, granted>>

\* A BUY the user cannot pay still opens the user's (zeroed) account.
RejectUnfundedBuy(p, id, r) ==
    /\ OrderArrives(p, id, r)
    /\ r.side = "BUY"
    /\ ~HasFunds(r)
    /\ accounts' = accounts \cup {r.user}
    /\ UNCHANGED <<markets, orders, book, cashAvailable, cashReserved,
                   sharesAvailable, sharesReserved, granted, workerVars, stream>>

-----------------------------------------------------------------------------
(* Emission of ORDER_CREATED, between the two critical sections.           *)

CreatedEvent(id) == [type |-> "ORDER_CREATED", order |-> id]

CanceledEvent(id) == [type |-> "ORDER_CANCELED", order |-> id]

TradeEvent(t) == [type |-> "TRADE_EXECUTED", trade |-> t]

\* Mutant: ORDER_CREATED is not emitted before the match.
EmitOrderCreated_silent(p) ==
    /\ pc[p] = "created"
    /\ pc' = [pc EXCEPT ![p] = "waiting"]
    /\ UNCHANGED <<markets, orders, book, ledgerVars, mu, cur, trades, at, stream>>

EmitOrderCreated(p) ==
    /\ pc[p] = "created"
    /\ stream' = Append(stream, CreatedEvent(cur[p]))
    /\ pc' = [pc EXCEPT ![p] = "waiting"]
    /\ UNCHANGED <<markets, orders, book, ledgerVars, mu, cur, trades, at>>

\* The order is dropped; what it reserved is not given back.
EmitOrderCreatedFails(p) ==
    /\ RedisMayFail
    /\ pc[p] = "created" /\ mu = Unlocked
    /\ orders' = [orders EXCEPT ![cur[p]] = NoOrder]
    /\ pc' = [pc EXCEPT ![p] = "idle"]
    /\ cur' = [cur EXCEPT ![p] = NoOrder]
    /\ UNCHANGED <<markets, book, ledgerVars, mu, trades, at, stream>>

-----------------------------------------------------------------------------
(* matchOrder.                                                             *)

\* Mutant: matchOrder does not look for a cancellation.
StartMatch_unchecked(p) ==
    /\ pc[p] = "waiting" /\ mu = Unlocked
    /\ mu' = p
    /\ pc' = [pc EXCEPT ![p] = "matching"]
    /\ UNCHANGED <<markets, orders, book, ledgerVars, cur, trades, at, stream>>

\* Lock e.mu.  An order canceled since it was stored is left alone.
StartMatch(p) ==
    /\ pc[p] = "waiting" /\ mu = Unlocked
    /\ orders[cur[p]].status # "CANCELED"
    /\ mu' = p
    /\ pc' = [pc EXCEPT ![p] = "matching"]
    /\ UNCHANGED <<markets, orders, book, ledgerVars, cur, trades, at, stream>>

SkipCanceled(p) ==
    /\ pc[p] = "waiting" /\ mu = Unlocked
    /\ orders[cur[p]].status = "CANCELED"
    /\ pc' = [pc EXCEPT ![p] = "idle"]
    /\ cur' = [cur EXCEPT ![p] = NoOrder]
    /\ UNCHANGED <<markets, orders, book, ledgerVars, mu, trades, at, stream>>

\* executePair's effect on the incoming and on the resting order.
FillIncoming(o, q) ==
    [o EXCEPT !.remaining = @ - q, !.filled = @ + q]

FillResting(o, q) ==
    [o EXCEPT !.remaining = @ - q, !.filled = @ + q,
              !.status = IF o.remaining = q THEN "FILLED" ELSE "PARTIAL"]

\* One iteration of matchAgainstBook that finds a counterparty.
executePair(p) ==
    LET id == cur[p]
        incoming == orders[id]
        side == OtherSide(incoming)
        resting == removeInvalid(book[side])
        i == findCounterparty(resting, incoming)
        makerId == resting[i]
        maker == orders[makerId]
        q == Smaller(incoming.remaining, maker.remaining)
    IN  /\ pc[p] = "matching"
        /\ incoming.remaining > 0
        /\ i # 0
        /\ trades' = [trades EXCEPT ![p] =
                         Append(@, buildTrade(id, incoming, makerId, maker, q))]
        /\ orders' = [orders EXCEPT ![id] = FillIncoming(@, q),
                                    ![makerId] = FillResting(@, q)]
        /\ book' = [book EXCEPT ![side] =
                       IF maker.remaining = q THEN removeOrderIndex(resting, i) ELSE resting]
        /\ UNCHANGED <<markets, ledgerVars, mu, pc, cur, at, stream>>

\* Mutant: any fill counts as a complete one.
StatusAfterMatch_anyFill(o) ==
    CASE o.filled > 0                       -> "FILLED"
      [] o.remaining > 0 /\ o.type = "MARKET" -> "CANCELED"
      [] OTHER                              -> "PENDING"

\* The status matchOrder gives the incoming order after the loop.
StatusAfterMatch(o) ==
    CASE o.remaining = 0                    -> "FILLED"
      [] o.remaining > 0 /\ o.type = "MARKET" -> "CANCELED"
      [] OTHER -> IF o.filled > 0 THEN "PARTIAL" ELSE "PENDING"

\* The loop ends: set the status and let the rest of a limit order rest.
FinishMatch(p) ==
    LET id == cur[p]
        o == orders[id]
        resting == removeInvalid(book[OtherSide(o)])
        cleaned == IF o.remaining > 0
                   THEN [book EXCEPT ![OtherSide(o)] = resting] ELSE book
        status == StatusAfterMatch(o)
    IN  /\ pc[p] = "matching"
        /\ o.remaining > 0 => findCounterparty(resting, o) = 0
        /\ orders' = [orders EXCEPT ![id].status = status]
        /\ book' = IF status \in {"PENDING", "PARTIAL"}
                   THEN [cleaned EXCEPT ![OwnSide(o)] = addToBook(@, id, o)]
                   ELSE cleaned
        /\ pc' = [pc EXCEPT ![p] = "settling"]
        /\ UNCHANGED <<markets, ledgerVars, mu, cur, trades, at, stream>>

\* Mutant: the lock of a SELL is not reduced by its fills.
ReduceLock_buyOnly(o, t) ==
    [o EXCEPT !.locked =
        AtLeastZero(@ - (IF o.side = "BUY" THEN t.quantity * t.price ELSE 0))]

\* Mutant: the lock of a BUY is not reduced by its fills.
ReduceLock_sellOnly(o, t) ==
    [o EXCEPT !.locked = AtLeastZero(@ - (IF o.side = "BUY" THEN 0 ELSE t.quantity))]

\* settleTradeLocked's effect on one of the two orders of a trade.
ReduceLock(o, t) ==
    [o EXCEPT !.locked =
        AtLeastZero(@ - (IF o.side = "BUY" THEN t.quantity * t.price ELSE t.quantity))]

\* One iteration of the loop over settleTradeLocked.
settleTradeLocked(p) ==
    LET t == trades[p][at[p] + 1]
        cost == t.quantity * t.price
        bought == <<t.buyer, t.event, t.outcome>>
        sold == <<t.seller, t.event, t.outcome>>
    IN  /\ pc[p] = "settling"
        /\ at[p] < Len(trades[p])
        /\ accounts' = accounts \cup {t.buyer, t.seller}
        /\ cashReserved' = [cashReserved EXCEPT ![t.buyer] = AtLeastZero(@ - cost)]
        /\ sharesAvailable' = [sharesAvailable EXCEPT ![bought] = @ + t.quantity]
        /\ cashAvailable' = [cashAvailable EXCEPT ![t.seller] = @ + cost]
        /\ sharesReserved' =
                [sharesReserved EXCEPT ![sold] = AtLeastZero(@ - t.quantity)]
        /\ orders' = [x \in OrderIds |->
                        IF x \in {t.taker, t.maker} /\ orders[x] # NoOrder
                        THEN ReduceLock(orders[x], t) ELSE orders[x]]
        /\ at' = [at EXCEPT ![p] = @ + 1]
        /\ UNCHANGED <<markets, book, granted, mu, pc, cur, trades, stream>>

\* releaseOrderLocked on order o: give back what it still has locked.  (The
\* caller sets o's locked funds to 0.)
releaseOrderLocked(o) ==
    /\ UNCHANGED <<accounts, granted>>
    /\ IF o.side = "BUY"
       THEN /\ cashReserved' =
                  [cashReserved EXCEPT ![o.user] = AtLeastZero(@ - o.locked)]
            /\ cashAvailable' = [cashAvailable EXCEPT ![o.user] = @ + o.locked]
            /\ UNCHANGED <<sharesAvailable, sharesReserved>>
       ELSE /\ sharesReserved' =
                  [sharesReserved EXCEPT ![PositionKey(o)] = AtLeastZero(@ - o.locked)]
            /\ sharesAvailable' =
                  [sharesAvailable EXCEPT ![PositionKey(o)] = @ + o.locked]
            /\ UNCHANGED <<cashAvailable, cashReserved>>

\* Mutant: the mutex is not released.
UnlockMu_missing == UNCHANGED mu

UnlockMu == mu' = Unlocked

\* After the last settlement: release the over-lock of an order that no
\* longer rests, and unlock.
FinishSettle(p) ==
    LET id == cur[p]
        o == orders[id]
    IN  /\ pc[p] = "settling"
        /\ at[p] = Len(trades[p])
        /\ IF o.status \in {"FILLED", "CANCELED"}
           THEN /\ releaseOrderLocked(o)
                /\ orders' = [orders EXCEPT ![id].locked = 0]
           ELSE UNCHANGED <<ledgerVars, orders>>
        /\ UnlockMu
        /\ at' = [at EXCEPT ![p] = 0]
        /\ pc' = [pc EXCEPT ![p] = "publishing"]
        /\ UNCHANGED <<markets, book, cur, trades, stream>>

\* One iteration of the loop over publishTrade; an error is only logged.
publishTrade(p) ==
    /\ pc[p] = "publishing"
    /\ at[p] < Len(trades[p])
    /\ \/ stream' = Append(stream, TradeEvent(trades[p][at[p] + 1]))
       \/ RedisMayFail /\ UNCHANGED stream
    /\ at' = [at EXCEPT ![p] = @ + 1]
    /\ UNCHANGED <<markets, orders, book, ledgerVars, mu, pc, cur, trades>>

\* The handler replies and the worker takes its next command.
FinishOrder(p) ==
    /\ pc[p] = "publishing"
    /\ at[p] = Len(trades[p])
    /\ pc' = [pc EXCEPT ![p] = "idle"]
    /\ cur' = [cur EXCEPT ![p] = NoOrder]
    /\ trades' = [trades EXCEPT ![p] = <<>>]
    /\ at' = [at EXCEPT ![p] = 0]
    /\ UNCHANGED <<markets, orders, book, ledgerVars, mu, stream>>

-----------------------------------------------------------------------------
(* CANCEL_ORDER.                                                           *)

\* The partition a CANCEL_ORDER is sent to: by its event id when it has one.
CancelPartition(e) == IF e = NoEvent THEN DefaultPartition ELSE PartitionOf[e]

handleCancelOrder(p, id, e) ==
    LET o == orders[id]
    IN  /\ pc[p] = "idle" /\ mu = Unlocked
        /\ CancelPartition(e) = p
        /\ o # NoOrder
        /\ e # NoEvent => o.event = e
        /\ IsOpen(o)
        /\ book' = [book EXCEPT ![OwnSide(o)] = removeOrderFromSlice(@, id)]
        /\ orders' = [orders EXCEPT ![id].status = "CANCELED", ![id].locked = 0]
        /\ releaseOrderLocked(o)
        /\ pc' = [pc EXCEPT ![p] = "canceled"]
        /\ cur' = [cur EXCEPT ![p] = id]
        /\ UNCHANGED <<markets, mu, trades, at, stream>>

EmitOrderCanceled(p) ==
    /\ pc[p] = "canceled"
    /\ \/ stream' = Append(stream, CanceledEvent(cur[p]))
       \/ RedisMayFail /\ UNCHANGED stream
    /\ pc' = [pc EXCEPT ![p] = "idle"]
    /\ cur' = [cur EXCEPT ![p] = NoOrder]
    /\ UNCHANGED <<markets, orders, book, ledgerVars, mu, trades, at>>

-----------------------------------------------------------------------------
(* The specification.                                                      *)

\* A command that the worker of partition p takes from its stream.
Command(p) ==
    \/ \E u \in Users : handleUserCreated(p, u)
    \/ \E e \in Events : handleCreateEvent(p, e)
    \/ \E id \in OrderIds, r \in Requests : AcceptOrder(p, id, r)
    \/ \E id \in OrderIds, r \in Requests : RejectUnfundedBuy(p, id, r)
    \/ \E id \in OrderIds, e \in CancelEvents : handleCancelOrder(p, id, e)

\* A later step of the command that the worker of partition p is executing.
Continue(p) ==
    \/ EmitOrderCreated(p)
    \/ EmitOrderCreatedFails(p)
    \/ StartMatch(p)
    \/ SkipCanceled(p)
    \/ executePair(p)
    \/ FinishMatch(p)
    \/ settleTradeLocked(p)
    \/ FinishSettle(p)
    \/ publishTrade(p)
    \/ FinishOrder(p)
    \/ EmitOrderCanceled(p)

Next == \E p \in Partitions : Command(p) \/ Continue(p)

Spec == Init /\ [][Next]_vars

\* The workers are goroutines: each eventually takes its next step.  Steps
\* that lock e.mu need strong fairness, since mu may be taken and released
\* again and again; Go's sync.Mutex hands over to a starving waiter.  Nothing
\* makes a command arrive, or Redis fail.
Fairness ==
    \A p \in Partitions :
        /\ WF_vars(EmitOrderCreated(p)) /\ WF_vars(executePair(p))
        /\ WF_vars(FinishMatch(p)) /\ WF_vars(settleTradeLocked(p))
        /\ WF_vars(FinishSettle(p)) /\ WF_vars(publishTrade(p))
        /\ WF_vars(FinishOrder(p)) /\ WF_vars(EmitOrderCanceled(p))
        /\ SF_vars(StartMatch(p)) /\ SF_vars(SkipCanceled(p))

FairSpec == Spec /\ Fairness

-----------------------------------------------------------------------------
(* Notions that the properties use.                                        *)

Exists(id) == orders[id] # NoOrder

\* A worker has stored the order and not yet decided whether it rests.
InFlight(id) ==
    \E p \in Partitions : cur[p] = id /\ pc[p] \in {"created", "waiting", "matching"}

\* When an order was announced: its ORDER_CREATED's place in the stream.
CreatedAt(id) == FirstIndex(stream, LAMBDA ev : ev = CreatedEvent(id))

\* Resting order a has priority over b: a better price, or the same price
\* and an earlier creation.
HasPriority(a, b) ==
    \/ SortsAfter(orders[b], orders[a])
    \/ orders[a].price = orders[b].price /\ CreatedAt(a) < CreatedAt(b)

LockedCash(u) ==
    Total([id \in OrderIds |-> orders[id].locked],
          {id \in OrderIds : Exists(id) /\ orders[id].side = "BUY" /\ orders[id].user = u})

LockedShares(k) ==
    Total([id \in OrderIds |-> orders[id].locked],
          {id \in OrderIds : Exists(id) /\ orders[id].side = "SELL"
                               /\ PositionKey(orders[id]) = k})

Mentions(ev, id) ==
    IF ev.type = "TRADE_EXECUTED" THEN id \in {ev.trade.taker, ev.trade.maker}
                                  ELSE id = ev.order

-----------------------------------------------------------------------------
(* Safety.                                                                 *)

\* A book side holds exactly the open orders of its event, outcome and side
\* that no worker is still deciding about: no fill, cancellation or failed
\* emission leaves an order behind in the book or drops an open one.
BookHoldsOpenOrders ==
    \A k \in BookKeys, id \in OrderIds :
        Contains(book[k], id) <=>
            Exists(id) /\ IsOpen(orders[id]) /\ ~InFlight(id) /\ OwnSide(orders[id]) = k

\* The slices stay in price-time order, which addToBook establishes by its
\* stable sort and every removal has to keep, with no order in a slice twice;
\* and matchAgainstBook leaves no trade behind: with mu free, no bid reaches
\* an ask of another user.  (Only same-user orders may cross, since
\* findCounterparty skips them.)
BooksOrdered ==
    /\ \A k \in BookKeys : \A i, j \in 1..Len(book[k]) :
        i < j => HasPriority(book[k][i], book[k][j])
    /\ mu = Unlocked =>
        \A e \in Events, out \in Outcomes :
            \A b \in Range(book[<<e, out, "BUY">>]), a \in Range(book[<<e, out, "SELL">>]) :
                orders[b].user # orders[a].user => orders[b].price < orders[a].price

\* Status and quantities agree: what is filled and what remains add up to
\* the order's quantity, and the status says which of them is zero.
FillsAddUp ==
    \A id \in OrderIds : Exists(id) =>
        LET o == orders[id]
        IN  /\ o.filled + o.remaining = o.quantity
            /\ o.status = "FILLED" => o.remaining = 0
            /\ o.status = "PARTIAL" => o.filled > 0
            /\ IsOpen(o) /\ ~InFlight(id) => o.remaining > 0

\* No sequence of trades, releases and failed emissions creates or destroys
\* shares of a market: what users hold, available or reserved, is what they
\* were seeded with.
SharesConserved ==
    \A e \in Events, out \in Outcomes :
        Total([u \in Users |-> sharesAvailable[<<u, e, out>>] + sharesReserved[<<u, e, out>>]], Users)
            = Total([u \in Users |-> SeedShares[<<u, e, out>>]], Users)

\* Cash is created by the starting grant only: settlement takes from the
\* buyer's reserved cash exactly what it pays the seller.
CashConserved ==
    Total([u \in Users |-> cashAvailable[u] + cashReserved[u]], Users)
        = StartingBalance * Cardinality(granted)

\* Reserved cash and shares cover everything that the user's orders have
\* locked, so no unit backs two orders ("concurrent orders cannot over-commit
\* the same funds", types.go).
LocksBacked ==
    /\ \A u \in Users : LockedCash(u) <= cashReserved[u]
    /\ \A k \in PositionKeys : LockedShares(k) <= sharesReserved[k]

\* While no match is under way, an open limit order has locked what it may
\* still have to deliver: price times remaining for a BUY, exactly the
\* remaining shares for a SELL.
OpenOrdersCovered ==
    mu = Unlocked =>
        \A id \in OrderIds : Exists(id) /\ IsOpen(orders[id]) =>
            LET o == orders[id]
            IN  IF o.side = "SELL" THEN o.locked = o.remaining
                ELSE o.type = "LIMIT" => o.locked >= o.remaining * o.price

\* The events stream tells an order's story in order: ORDER_CREATED before
\* anything else about it ("ahead of any TRADE_EXECUTED for it", engine.go),
\* and no trade of it after its ORDER_CANCELED.
EventsInOrder ==
    \A i \in DOMAIN stream, id \in OrderIds : Mentions(stream[i], id) =>
        /\ \E j \in 1..i : stream[j] = CreatedEvent(id)
        /\ \A j \in 1..(i - 1) : stream[j] # CanceledEvent(id)

\* The engine never issues shares, so without seeded shares no SELL is
\* accepted, and no trade ever happens.
NoTradeWithoutShares ==
    (\A k \in PositionKeys : SeedShares[k] = 0) =>
        /\ \A id \in OrderIds : Exists(id) => orders[id].side = "BUY" /\ orders[id].filled = 0
        /\ \A p \in Partitions : trades[p] = <<>>

-----------------------------------------------------------------------------
(* What comments and tests of the code say and the engine does not keep:   *)
(* each of these is violated in the instance of MCMatchingEngine_ledger.   *)

\* A rejected or failed order holds nothing: with no command under way, the
\* reserved cash of a user is exactly what the user's orders have locked
\* ("rejected order must not lock funds", ledger_test.go).
ReservedIsLocked ==
    (\A p \in Partitions : pc[p] = "idle") =>
        \A u \in Users : cashReserved[u] = LockedCash(u)

\* A filled order has released its over-lock once its trades are settled
\* ("Orders that are no longer resting (filled or canceled) have nothing left
\* to protect; release their over-lock", engine.go).
FilledOrdersHoldNothing ==
    mu = Unlocked =>
        \A id \in OrderIds :
            Exists(id) /\ orders[id].status = "FILLED" => orders[id].locked = 0

\* A user who has not been granted the starting balance still gets it from
\* USER_CREATED ("so the engine grants the starting balance", ledger.go).
GrantStillPossible ==
    \A u \in Users \ granted : u \notin accounts

-----------------------------------------------------------------------------
(* What the invariants above rest on.                                      *)

\* The worker of p is executing a CREATE_ORDER and has stored the order.
Working(p) ==
    pc[p] \in {"created", "waiting", "matching", "settling", "publishing"}

\* What each worker relies on between two steps of a command, whatever the
\* other workers do: its order is still stored and is nobody else's, it holds
\* e.mu exactly while matching and settling, its trades are those of this
\* command, and the order it matches has not been canceled.
WorkersConsistent ==
    /\ \A p \in Partitions :
        /\ cur[p] = NoOrder <=> pc[p] = "idle"
        /\ Working(p) => Exists(cur[p])
        /\ mu = p <=> pc[p] \in {"matching", "settling"}
        /\ at[p] <= Len(trades[p])
        /\ pc[p] \in {"idle", "created", "waiting", "canceled"} => trades[p] = <<>>
        /\ pc[p] \in {"created", "waiting"} =>
              orders[cur[p]].status \in {"PENDING", "CANCELED"}
        /\ pc[p] = "matching" => at[p] = 0 /\ orders[cur[p]].status = "PENDING"
    /\ \A p, q \in Partitions : Working(p) /\ Working(q) /\ cur[p] = cur[q] => p = q

\* No order is in a slice twice, so removing it once removes it.
NoDuplicates == \A k \in BookKeys : IsInjective(book[k])

\* The workers, the order map and the books agree with each other.  This
\* conjunction is inductive: every action keeps all of it.
Consistent ==
    /\ TypeOK
    /\ WorkersConsistent
    /\ BookHoldsOpenOrders
    /\ NoDuplicates
    /\ FillsAddUp

-----------------------------------------------------------------------------
(* Action properties.                                                      *)

\* A step that makes a trade makes it with the resting order that has priority
\* among those the incoming order may trade with.
TradesWithFirst ==
    \A p \in Partitions : Len(trades'[p]) > Len(trades[p]) =>
        LET t == trades'[p][Len(trades'[p])]
            incoming == orders[t.taker]
        IN  \A id \in OrderIds :
              /\ Contains(book[OtherSide(incoming)], id)
              /\ orders[id].user # incoming.user
              /\ canMatch(incoming, orders[id])
              => id = t.maker \/ HasPriority(t.maker, id)

\* Every trade is made in price-time priority, as the README promises.
PriceTimePriority == [][TradesWithFirst]_vars

\* What the next property says of a single step and order.
KeepsTerminal(id) ==
    Exists(id) /\ ~IsOpen(orders[id]) =>
        \/ orders'[id] = NoOrder
        \/ /\ orders'[id].status = orders[id].status
           /\ orders'[id].filled = orders[id].filled

AllKeepTerminal == \A id \in OrderIds : KeepsTerminal(id)

\* A filled or canceled order is never reopened, filled further or given a
\* different end, whatever the other workers do meanwhile; it can only be
\* forgotten, when the emission of its ORDER_CREATED fails.
TerminalIsFinal == [][AllKeepTerminal]_vars

-----------------------------------------------------------------------------
(* Liveness.                                                               *)

\* Every worker finishes the command it has taken, and e.mu is always
\* released again, so the partitions never wait for each other for ever.
CommandsFinish ==
    \A p \in Partitions : pc[p] # "idle" ~> pc[p] = "idle"

=============================================================================
