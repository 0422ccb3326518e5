----------------------------- MODULE Projection -----------------------------
(***************************************************************************)
(* What the database is to the engine: a replica of the life of its        *)
(* orders.  An order is recorded once, is filled by trades that settle     *)
(* once, atomically and only while it is open, and may be canceled while   *)
(* it is open.                                                             *)
(***************************************************************************)
EXTENDS Integers

CONSTANTS
    OrderOf,    \* order id -> its owner and quantity
    TradeOf,    \* trade id -> its orders, its parties, quantity and price
    Balance0,   \* user -> starting balance
    NoRow

VARIABLES orders, trades, balance

vars == <<orders, trades, balance>>

Init ==
    /\ orders = [o \in DOMAIN OrderOf |-> NoRow]
    /\ trades = {}
    /\ balance = Balance0

IsOpen(o) == orders[o] # NoRow /\ orders[o].status \in {"PENDING", "PARTIAL"}

Record(o) ==
    /\ orders[o] = NoRow
    /\ orders' = [orders EXCEPT ![o] = [filled |-> 0, status |-> "PENDING"]]
    /\ UNCHANGED <<trades, balance>>

Filled(o, quantity) ==
    [filled |-> orders[o].filled + quantity,
     status |-> IF orders[o].filled + quantity = OrderOf[o].quantity
                THEN "FILLED" ELSE "PARTIAL"]

Settle(t) ==
    LET trade == TradeOf[t]
        cost == trade.quantity * trade.price
    IN  /\ t \notin trades
        /\ IsOpen(trade.taker) /\ IsOpen(trade.maker)
        /\ cost <= balance[trade.buyer]
        /\ orders' = [orders EXCEPT
                        ![trade.taker] = Filled(trade.taker, trade.quantity),
                        ![trade.maker] = Filled(trade.maker, trade.quantity)]
        /\ trades' = trades \cup {t}
        /\ balance' = [balance EXCEPT ![trade.buyer] = @ - cost,
                                      ![trade.seller] = @ + cost]

Cancel(o) ==
    /\ IsOpen(o)
    /\ orders' = [orders EXCEPT ![o].status = "CANCELED"]
    /\ UNCHANGED <<trades, balance>>

Next ==
    \/ \E o \in DOMAIN OrderOf : Record(o) \/ Cancel(o)
    \/ \E t \in DOMAIN TradeOf : Settle(t)

Spec == Init /\ [][Next]_vars
=============================================================================
