------------------------------ MODULE DBWorker ------------------------------
(***************************************************************************)
(* The DB worker (internal/dbworker/worker.go): replicas that share a      *)
(* consumer group read events:out and apply it to PostgreSQL through the   *)
(* statements of internal/repository.                                      *)
(*                                                                         *)
(* The engine's events come from a script: what it emits, in its order,    *)
(* each repeated at will by the recovery of its outbox.  A settlement is a *)
(* READ COMMITTED transaction whose statements are steps: a statement that *)
(* writes a row waits for the transaction that has written it, and what it *)
(* has written shows at the commit.  The statements after the seller's     *)
(* are part of the commit: they write rows that only a transaction which   *)
(* has locked the same users can write, and the event's row, the last one. *)
(* An error ends Run; the process then waits for an operator to restart    *)
(* it (cmd/db-worker/main.go).                                             *)
(***************************************************************************)
EXTENDS Integers, Sequences, FiniteSetsExt, Sums

CONSTANTS
    Workers,
    OrderOf, TradeOf, Balance0, NoRow,
    Scenarios,      \* what the engine emits, who works on it, what may fail
    Batch,          \* COUNT of XREADGROUP
    MaxFaults       \* bound on the faults and repetitions of a behaviour

OrderIds == DOMAIN OrderOf

TradeIds == DOMAIN TradeOf

Users == DOMAIN Balance0

FaultKinds ==
    {"fail",        \* a call to Redis or PostgreSQL fails, or a process
     "repeat",      \* the outbox appends an event again
     "skip",        \* entries stay pending while later ones are read
     "failover"}    \* another engine takes the partition over

Event ==
    [type : {"ORDER_CREATED", "ORDER_CANCELED"}, id : OrderIds]
    \cup [type : {"TRADE_EXECUTED"}, id : TradeIds]

Outcomes == {"YES", "NO"}

\* The engine makes trades between different users, and validateTrade
\* refuses the quantities and prices that it would never make.
Trade ==
    [taker : OrderIds, maker : OrderIds, buyer : Users, seller : Users,
     outcome : Outcomes, quantity : Nat \ {0}, price : Nat]

Row == [filled : Nat, status : {"PENDING", "PARTIAL", "FILLED", "CANCELED"}]

Quantity(S) == Total([t \in TradeIds |-> TradeOf[t].quantity], S)

\* The trades of an order that a script of the engine tells of.
Executes(event, o) ==
    /\ event.type = "TRADE_EXECUTED"
    /\ o \in {TradeOf[event.id].taker, TradeOf[event.id].maker}

Told(s, o) == {s[i].id : i \in {j \in DOMAIN s : Executes(s[j], o)}}

\* The engine trades no more of an order than its quantity, and cancels it
\* only while something is left of it, after all of its trades.
WellTold(s) ==
    \A o \in OrderIds :
      /\ Quantity(Told(s, o)) <= OrderOf[o].quantity
      /\ \A i \in DOMAIN s : s[i].type = "ORDER_CANCELED" /\ s[i].id = o =>
           /\ Quantity(Told(s, o)) < OrderOf[o].quantity
           /\ \A j \in DOMAIN s : Executes(s[j], o) => j < i

ASSUME DBWorkerAssumption ==
    /\ \A t \in TradeIds :
         /\ TradeOf[t] \in Trade
         /\ TradeOf[t].taker # TradeOf[t].maker /\ TradeOf[t].buyer # TradeOf[t].seller
    /\ Balance0 \in [Users -> Nat]
    /\ NoRow \notin Row
    /\ \A s \in Scenarios :
         /\ s.script \in Seq(Event)
         /\ s.workers \subseteq Workers
         /\ s.faults \subseteq FaultKinds
    /\ Batch \in Nat \ {0}
    /\ MaxFaults \in Nat

ASSUME EngineAssumption ==
    /\ \A o \in OrderIds : OrderOf[o].quantity \in Nat
    /\ \A s \in Scenarios : WellTold(s.script) /\ IsFiniteSet(s.workers)

VARIABLES
    scenario,       \* one of Scenarios
    emitted,        \* how much of its script the engine has emitted
    fencing,        \* the partition's fencing counter
    out,            \* events:out: positions in the script, with tokens
    delivered,      \* last-delivered-id of the consumer group
    pending,        \* its pending entries
    pc,             \* where each worker is
    queue,          \* entries it has read and not yet acknowledged; it takes
                    \* them in the order of the stream
    status,         \* the statuses its transaction has computed
    orders, trades, balance,                    \* the tables
    shares, transactions, volume,
    faults          \* the number of faults so far

streamVars == <<scenario, emitted, fencing, out>>

groupVars == <<delivered, pending>>

workerVars == <<pc, queue, status>>

tables == <<orders, trades, balance, shares, transactions, volume>>

vars == <<streamVars, groupVars, workerVars, tables, faults>>

Unread == [taker |-> "", maker |-> ""]

Init ==
    /\ scenario \in Scenarios
    /\ emitted = 0 /\ fencing = 1 /\ out = <<>>
    /\ delivered = 0 /\ pending = {}
    /\ pc = [w \in Workers |-> "stopped"]
    /\ queue = [w \in Workers |-> {}]
    /\ status = [w \in Workers |-> Unread]
    /\ orders = [o \in OrderIds |-> NoRow]
    /\ trades = {}
    /\ balance = Balance0
    /\ shares = [k \in Users \X Outcomes |-> 0]
    /\ transactions = {}
    /\ volume = 0
    /\ faults = 0

script == scenario.script

Fault(kind) ==
    /\ kind \in scenario.faults
    /\ faults < MaxFaults
    /\ faults' = faults + 1

Goto(w, label) == pc' = [pc EXCEPT ![w] = label]

\* The entry a worker is processing, its event, and its trade.
HeadOf(w) == Min(queue[w])

Entry(w) == out[HeadOf(w)]

EventAt(i) == script[out[i].n]

EventOf(w) == EventAt(HeadOf(w))

TradeAt(w) == TradeOf[EventOf(w).id]

-----------------------------------------------------------------------------
(* The engine's side of the stream *)

Emit ==
    /\ emitted < Len(script)
    /\ emitted' = emitted + 1
    /\ out' = Append(out, [n |-> emitted', token |-> fencing])
    /\ UNCHANGED <<scenario, fencing, groupVars, workerVars, tables, faults>>

\* Recover appends the same envelope again.
EmitAgain ==
    /\ Fault("repeat")
    /\ \E entry \in Range(out) : out' = Append(out, entry)
    /\ UNCHANGED <<scenario, emitted, fencing, groupVars, workerVars, tables>>

NewOwner ==
    /\ Fault("failover")
    /\ fencing' = fencing + 1
    /\ UNCHANGED <<scenario, emitted, out, groupVars, workerVars, tables>>

-----------------------------------------------------------------------------
(* Run *)

Start(w) ==
    /\ w \in scenario.workers
    /\ pc[w] = "stopped"
    /\ Goto(w, "claim")
    /\ UNCHANGED <<streamVars, groupVars, queue, status, tables,
                   faults>>

\* What XAUTOCLAIM may return.  A worker that is alone, and is restarted
\* later than MinIdle, claims every pending entry.  It claims fewer when it
\* is restarted earlier or the call fails, which Run only logs; and when
\* there are others, it claims what they have worked on for too long.
Claimable ==
    IF "skip" \in scenario.faults \/ Cardinality(scenario.workers) > 1
    THEN SUBSET pending ELSE {pending}

ClaimEntries(w, S) ==
    /\ pc[w] = "claim"
    /\ queue' = [queue EXCEPT ![w] = S]
    /\ Goto(w, IF S = {} THEN "read" ELSE "fence")
    /\ UNCHANGED <<streamVars, groupVars, status, tables, faults>>

Claim_none(w) == ClaimEntries(w, {})

Claim(w) == \E S \in Claimable : ClaimEntries(w, S)

LastRead == Min({delivered + Batch, Len(out)})

NewEntries == (delivered + 1)..LastRead

\* XREADGROUP delivers the next entries and makes them pending.
Deliver(w) ==
    /\ pc[w] = "read"
    /\ delivered < Len(out)
    /\ delivered' = LastRead
    /\ pending' = pending \cup NewEntries

ReadGroup(w) ==
    /\ Deliver(w)
    /\ queue' = [queue EXCEPT ![w] = NewEntries]
    /\ Goto(w, "fence")
    /\ UNCHANGED <<streamVars, status, tables, faults>>

\* The reply is lost: Run logs the error and reads on, from what follows.
ReadFails(w) ==
    /\ Fault("skip")
    /\ Deliver(w)
    /\ UNCHANGED <<streamVars, workerVars, tables>>

\* An error: the transaction is rolled back, and Run returns.
Stop(w) ==
    /\ Goto(w, "stopped")
    /\ queue' = [queue EXCEPT ![w] = {}]
    /\ status' = [status EXCEPT ![w] = Unread]
    /\ UNCHANGED <<streamVars, tables>>

Fail_acked(w) ==
    /\ Fault("fail")
    /\ pc[w] \notin {"stopped", "claim", "read"}
    /\ Stop(w)
    /\ pending' = pending \ {HeadOf(w)}
    /\ UNCHANGED delivered

\* A call that fails, or a crash.  What has been committed stays, and so
\* does the pending entry.
Fail(w) ==
    /\ Fault("fail")
    /\ pc[w] # "stopped"
    /\ Stop(w)
    /\ UNCHANGED groupVars

\* XACK, after the event has been applied or dropped.
Ack(w) ==
    /\ pc[w] = "ack"
    /\ pending' = pending \ {HeadOf(w)}
    /\ queue' = [queue EXCEPT ![w] = @ \ {HeadOf(w)}]
    /\ Goto(w, IF queue'[w] = {} THEN "read" ELSE "fence")
    /\ UNCHANGED <<streamVars, delivered, status, tables, faults>>

-----------------------------------------------------------------------------
(* handleEnvelope *)

\* Token 0 is that of an envelope from before there were tokens.
IsStale(entry) == entry.token # 0 /\ entry.token < fencing

\* GET of the fencing counter: a stale event is dropped, and acknowledged.
FencingDecision(w) ==
    /\ pc[w] = "fence"
    /\ Goto(w, IF IsStale(Entry(w)) THEN "ack" ELSE "apply")
    /\ UNCHANGED <<streamVars, groupVars, queue, status, tables,
                   faults>>

\* The rows that a worker's open transaction has written.
LockedOrders(w) ==
    CASE pc[w] = "maker" -> {TradeAt(w).taker}
      [] pc[w] \in {"buyer", "seller"} -> {TradeAt(w).taker, TradeAt(w).maker}
      [] OTHER -> {}

LockedUsers(w) == IF pc[w] = "seller" THEN {TradeAt(w).buyer} ELSE {}

Inserted(w) ==
    IF pc[w] \in {"taker", "maker", "buyer", "seller"} THEN {EventOf(w).id}
                                                       ELSE {}

OrderFree(w, o) == \A v \in Workers \ {w} : o \notin LockedOrders(v)

UserFree(w, u) == \A v \in Workers \ {w} : u \notin LockedUsers(v)

Applying(w, type) == pc[w] = "apply" /\ EventOf(w).type = type

\* The row of a new order, and of a canceled one.
InsertOrder == [filled |-> 0, status |-> "PENDING"]

UpdateOrderStatus(row) == [row EXCEPT !.status = "CANCELED"]

\* INSERT; a row that is there already is a redelivery.
HandleOrderCreated(w) ==
    /\ Applying(w, "ORDER_CREATED")
    /\ LET o == EventOf(w).id
       IN  orders' = IF orders[o] # NoRow THEN orders
                     ELSE [orders EXCEPT ![o] = InsertOrder]
    /\ Goto(w, "ack")
    /\ UNCHANGED <<streamVars, groupVars, queue, status, trades,
                   balance, shares, transactions, volume, faults>>

\* UPDATE of the status, whatever it was; no row, no error.
HandleOrderCanceled(w) ==
    /\ Applying(w, "ORDER_CANCELED")
    /\ LET o == EventOf(w).id
       IN  /\ OrderFree(w, o)
           /\ orders' = IF orders[o] = NoRow THEN orders
                        ELSE [orders EXCEPT ![o] = UpdateOrderStatus(@)]
    /\ Goto(w, "ack")
    /\ UNCHANGED <<streamVars, groupVars, queue, status, trades,
                   balance, shares, transactions, volume, faults>>

-----------------------------------------------------------------------------
(* settleTrade *)

StatusAfter_early(o, quantity) ==
    IF orders[o].filled + quantity + 1 >= OrderOf[o].quantity THEN "FILLED"
                                                              ELSE "PARTIAL"

\* applyOrderFill reads the row and computes the status it will write.
StatusAfter(o, quantity) ==
    IF orders[o].filled + quantity >= OrderOf[o].quantity THEN "FILLED"
                                                          ELSE "PARTIAL"

HasOrders(w) == orders[TradeAt(w).taker] # NoRow /\ orders[TradeAt(w).maker] # NoRow

AlreadySettled_never(w) == FALSE

\* The primary key rejects a trade that has been settled.
AlreadySettled(w) == EventOf(w).id \in trades

\* INSERT into trades, which waits for another transaction that inserts the
\* same key, and applyOrderFill's read of the taker's row.
InsertTrade(w) ==
    /\ Applying(w, "TRADE_EXECUTED")
    /\ \A v \in Workers \ {w} : EventOf(w).id \notin Inserted(v)
    /\ IF AlreadySettled(w)
       THEN Goto(w, "ack") /\ UNCHANGED status
       ELSE /\ HasOrders(w)
            /\ status' = [status EXCEPT ![w].taker =
                            StatusAfter(TradeAt(w).taker, TradeAt(w).quantity)]
            /\ Goto(w, "taker")
    /\ UNCHANGED <<streamVars, groupVars, queue, tables, faults>>

\* UPDATE of the taker's row, then the read of the maker's.
UpdateTaker(w) ==
    /\ pc[w] = "taker"
    /\ OrderFree(w, TradeAt(w).taker)
    /\ status' = [status EXCEPT ![w].maker =
                    StatusAfter(TradeAt(w).maker, TradeAt(w).quantity)]
    /\ Goto(w, "maker")
    /\ UNCHANGED <<streamVars, groupVars, queue, tables, faults>>

UpdateMaker(w) ==
    /\ pc[w] = "maker"
    /\ OrderFree(w, TradeAt(w).maker)
    /\ Goto(w, "buyer")
    /\ UNCHANGED <<streamVars, groupVars, queue, status, tables,
                   faults>>

Cost(t) == TradeOf[t].quantity * TradeOf[t].price

\* The condition of DeductBalance: else it updates no row.
CanPay(w) == Cost(EventOf(w).id) <= balance[TradeAt(w).buyer]

DeductBalance_unchecked(w) ==
    /\ pc[w] = "buyer"
    /\ UserFree(w, TradeAt(w).buyer)
    /\ Goto(w, "seller")
    /\ UNCHANGED <<streamVars, groupVars, queue, status, tables, faults>>

DeductBalance(w) ==
    /\ pc[w] = "buyer"
    /\ UserFree(w, TradeAt(w).buyer)
    /\ CanPay(w)
    /\ Goto(w, "seller")
    /\ UNCHANGED <<streamVars, groupVars, queue, status, tables,
                   faults>>

\* A missing order fails the foreign key, and a buyer who cannot pay fails
\* the settlement: Run returns an error.
Refuse(w) ==
    /\ \/ Applying(w, "TRADE_EXECUTED") /\ ~AlreadySettled(w) /\ ~HasOrders(w)
       \/ /\ pc[w] = "buyer" /\ UserFree(w, TradeAt(w).buyer)
          /\ ~CanPay(w)
    /\ Stop(w)
    /\ UNCHANGED <<groupVars, faults>>

InsertTransaction(t, u, kind, o) ==
    [trade |-> t, user |-> u, type |-> kind, order |-> o]

\* The buyer's row of transactions names the taker's order and the seller's
\* the maker's, whichever of them bought.
TransactionsOf(t) ==
    {InsertTransaction(t, TradeOf[t].buyer, "BUY", TradeOf[t].taker),
     InsertTransaction(t, TradeOf[t].seller, "SELL", TradeOf[t].maker)}

UpdateOrderFill(row, quantity, newStatus) ==
    [filled |-> row.filled + quantity, status |-> newStatus]

AddBalance(amount, cost) == amount + cost

UpsertPosition(held, quantity) == held + quantity

IncrementEventVolume(cost) == volume' = volume + cost

\* AddBalance, the positions, the transactions and the volume, and COMMIT.
Commit(w) ==
    LET t == EventOf(w).id
        trade == TradeOf[t]
    IN  /\ pc[w] = "seller"
        /\ UserFree(w, trade.seller)
        /\ trades' = trades \cup {t}
        /\ orders' = [orders EXCEPT
             ![trade.taker] = UpdateOrderFill(@, trade.quantity, status[w].taker),
             ![trade.maker] = UpdateOrderFill(@, trade.quantity, status[w].maker)]
        /\ balance' = [balance EXCEPT ![trade.buyer] = @ - Cost(t),
                                      ![trade.seller] = AddBalance(@, Cost(t))]
        /\ shares' = [shares EXCEPT
             ![<<trade.buyer, trade.outcome>>] = UpsertPosition(@, trade.quantity),
             ![<<trade.seller, trade.outcome>>] = UpsertPosition(@, -trade.quantity)]
        /\ transactions' = transactions \cup TransactionsOf(t)
        /\ IncrementEventVolume(Cost(t))
        /\ status' = [status EXCEPT ![w] = Unread]
        /\ Goto(w, "ack")
        /\ UNCHANGED <<streamVars, groupVars, queue, faults>>

\* PostgreSQL aborts one of the transactions that wait for each other.
WaitsFor(w, v) ==
    \/ pc[w] = "taker" /\ TradeAt(w).taker \in LockedOrders(v)
    \/ pc[w] = "maker" /\ TradeAt(w).maker \in LockedOrders(v)
    \/ pc[w] = "buyer" /\ TradeAt(w).buyer \in LockedUsers(v)
    \/ pc[w] = "seller" /\ TradeAt(w).seller \in LockedUsers(v)

DeadlockAbort(w) ==
    /\ \E v \in Workers \ {w} : WaitsFor(w, v) /\ WaitsFor(v, w)
    /\ Stop(w)
    /\ UNCHANGED <<groupVars, faults>>

-----------------------------------------------------------------------------
Run(w) ==
    \/ Claim(w) \/ ReadGroup(w) \/ Ack(w) \/ FencingDecision(w)
    \/ HandleOrderCreated(w) \/ HandleOrderCanceled(w)
    \/ InsertTrade(w) \/ UpdateTaker(w) \/ UpdateMaker(w) \/ DeductBalance(w)
    \/ Commit(w) \/ Refuse(w) \/ DeadlockAbort(w)

Next ==
    \/ Emit \/ EmitAgain \/ NewOwner
    \/ \E w \in Workers : Start(w) \/ Run(w) \/ ReadFails(w) \/ Fail(w)

(* Workers run, and an operator restarts the ones that have stopped.       *)
Fairness == \A w \in Workers : WF_vars(Start(w)) /\ WF_vars(Run(w))

Spec == Init /\ [][Next]_vars /\ Fairness

-----------------------------------------------------------------------------
(* What the worker promises *)

Idle == {"stopped", "claim", "read"}

Labels == Idle \cup {"fence", "apply", "taker", "maker", "buyer", "seller", "ack"}

TypeOK ==
    /\ scenario \in Scenarios /\ emitted \in 0..Len(script)
    /\ out \in Seq([n : 1..emitted, token : 1..fencing])
    /\ delivered \in 0..Len(out) /\ pending \subseteq 1..delivered
    /\ pc \in [Workers -> Labels]
    /\ queue \in [Workers -> SUBSET (1..delivered)]
    /\ \A w \in Workers : queue[w] = {} <=> pc[w] \in Idle
    /\ orders \in [OrderIds -> Row \cup {NoRow}]
    /\ trades \subseteq TradeIds
    /\ balance \in [Users -> Nat]
    /\ shares \in [Users \X Outcomes -> Int]
    /\ faults \in 0..MaxFaults

\* The settled trades of an order, of a seller and of a buyer.
FillsOf(o) == {t \in trades : o \in {TradeOf[t].taker, TradeOf[t].maker}}

SoldBy(u) == {t \in trades : TradeOf[t].seller = u}

BoughtBy(u) == {t \in trades : TradeOf[t].buyer = u}

Of(c, S) == {t \in S : TradeOf[t].outcome = c}

Amount(S) == Total([t \in TradeIds |-> Cost(t)], S)

\* Every table agrees with the trades table, whatever the number of
\* replicas, redeliveries, failures and failovers: each settled trade has
\* been applied to fills, balances, positions, transactions and volume, and
\* once (settleTrade's "All or nothing").
TablesAgree ==
    /\ \A o \in OrderIds : orders[o] # NoRow =>
         orders[o].filled = Quantity(FillsOf(o))
    /\ \A u \in Users :
         /\ balance[u] = Balance0[u] + Amount(SoldBy(u)) - Amount(BoughtBy(u))
         /\ \A c \in Outcomes :
              shares[<<u, c>>] = Quantity(Of(c, BoughtBy(u))) - Quantity(Of(c, SoldBy(u)))
    /\ transactions = UNION {TransactionsOf(t) : t \in trades}
    /\ volume = Amount(trades)

IsApplied(i) ==
    LET event == EventAt(i)
    IN  \/ IsStale(out[i])
        \/ event.type = "ORDER_CREATED" /\ orders[event.id] # NoRow
        \/ event.type = "TRADE_EXECUTED" /\ event.id \in trades
        \/ event.type = "ORDER_CANCELED"

\* "Acknowledge only after the event has been durably applied": an entry
\* that is no longer pending has its row, unless a newer token fenced it off.
AckedIsApplied == \A i \in (1..delivered) \ pending : IsApplied(i)

\* One worker, which claims what it has left behind and is not fenced off
\* by a new owner of the partition.  It may fail anywhere, and events may
\* be repeated.
SingleWriter ==
    /\ Cardinality(scenario.workers) = 1
    /\ scenario.faults \cap {"skip", "failover"} = {}

\* The tables, if they are a single writer's.
ReplicaOrders == IF SingleWriter THEN orders ELSE [o \in OrderIds |-> NoRow]

ReplicaTrades == IF SingleWriter THEN trades ELSE {}

ReplicaBalance == IF SingleWriter THEN balance ELSE Balance0

Replica ==
    INSTANCE Projection WITH
      orders <- ReplicaOrders, trades <- ReplicaTrades, balance <- ReplicaBalance

\* A single writer implements the life of the engine's orders: settlements
\* are atomic, of open orders, with the status their fills call for.
Projects == Replica!Spec

\* The engine's view of its orders after the first n events.
EngineOrder(n, o) ==
    LET is(i, type, S) == script[i].type = type /\ script[i].id \in S
        fills == {t \in TradeIds : o \in {TradeOf[t].taker, TradeOf[t].maker}}
        done == {script[i].id : i \in {j \in 1..n : is(j, "TRADE_EXECUTED", fills)}}
    IN  IF ~\E i \in 1..n : is(i, "ORDER_CREATED", {o}) THEN NoRow
        ELSE [filled |-> Quantity(done),
              status |-> CASE \E i \in 1..n : is(i, "ORDER_CANCELED", {o}) -> "CANCELED"
                           [] done = {} -> "PENDING"
                           [] Quantity(done) = OrderOf[o].quantity -> "FILLED"
                           [] OTHER -> "PARTIAL"]

\* And it catches up: the tables come to show every event of the engine,
\* in the state that the engine's orders have.
Converges ==
    SingleWriter => <>[](\A o \in OrderIds : orders[o] = EngineOrder(emitted, o))
=============================================================================
