----------------------------- MODULE MCDBWorker -----------------------------
(***************************************************************************)
(* The DB worker for TLC.  Alice sells two YES shares, of which Bob buys   *)
(* one.  The purchase of a NO share runs the other way, so that two        *)
(* settlements lock the same users in either order; at the higher price it *)
(* is paid with what the first trade has earned.                           *)
(***************************************************************************)
EXTENDS DBWorker, TLC

CONSTANTS alice, bob, m, k, n, j, t1, t2, t3, w1, w2

MCOrderOf ==
    m :> [user |-> alice, quantity |-> 2] @@ k :> [user |-> bob, quantity |-> 1]
    @@ n :> [user |-> bob, quantity |-> 1] @@ j :> [user |-> alice, quantity |-> 1]

MCTradeOf ==
    LET swap(price_) ==
          [taker |-> j, maker |-> n, buyer |-> alice, seller |-> bob,
           outcome |-> "NO", quantity |-> 1, price |-> price_]
    IN  t1 :> [taker |-> k, maker |-> m, buyer |-> bob, seller |-> alice,
               outcome |-> "YES", quantity |-> 1, price |-> 3]
        @@ t2 :> swap(2) @@ t3 :> swap(4)

MCBalance0 == alice :> 2 @@ bob :> 4

Created(o) == [type |-> "ORDER_CREATED", id |-> o]

Canceled(o) == [type |-> "ORDER_CANCELED", id |-> o]

Executed(t) == [type |-> "TRADE_EXECUTED", id |-> t]

Sold == <<Created(m), Created(k), Executed(t1)>>

Swapped(t) == Sold \o <<Created(n), Created(j), Executed(t)>>

Scenario(script_, workers, faults_) ==
    [script |-> script_, workers |-> workers, faults |-> faults_]

MCScenarios ==
    {Scenario(Sold \o <<Canceled(m)>>, {w1}, {"fail", "repeat"}),
     Scenario(Swapped(t3), {w1}, {"fail", "repeat"}),
     Scenario(Swapped(t3), {w1}, {"skip", "failover"}),
     Scenario(Sold, {w1, w2}, {"fail", "repeat"}),
     Scenario(Swapped(t2), {w1, w2}, {})}
=============================================================================
