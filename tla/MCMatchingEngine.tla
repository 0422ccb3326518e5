-------------------------- MODULE MCMatchingEngine --------------------------
(***************************************************************************)
(* Small instances of MatchingEngine for TLC.  Two users are enough for a  *)
(* trade and for the same-user orders that findCounterparty skips; three   *)
(* orders for a taker that meets two makers and for a maker met by two     *)
(* takers; two prices and quantities for price improvement and partial     *)
(* fills.                                                                  *)
(***************************************************************************)
EXTENDS OrderQueries, TLC

CONSTANTS alice, bob, e1, e2, o1, o2, o3, p0, p1

LimitRequests(events, quantities, prices) ==
    [user : Users, event : events, outcome : {"YES"}, side : Sides,
     type : {"LIMIT"}, quantity : quantities, price : prices]

MarketRequests(sides, quantities) ==
    [user : Users, event : {e1}, outcome : {"YES"}, side : sides,
     type : {"MARKET"}, quantity : quantities, price : {0}]

\* Orders of every kind, and one that validateOrder refuses.
BookRequests ==
    LimitRequests({e1}, {1, 2}, {1, 2}) \cup MarketRequests(Sides, {0, 2})

\* All but market BUYs, the only orders whose cost the ledger does not bound.
LedgerRequests ==
    LimitRequests({e1}, {1, 2}, {1, 2}) \cup MarketRequests({"SELL"}, {2})

\* One size and price, for the interleavings of two workers: both users buy
\* in both markets, and bob, who has the shares, also sells in the second.
PartitionRequests ==
    {r \in LimitRequests({e1, e2}, {1}, {1}) :
        r.side = "SELL" => r.user = bob /\ r.event = e2}

\* All events on one worker, or one worker for each of the two events.
SinglePartition == [e \in Events |-> p0]

TwoPartitions == [e \in Events |-> IF e = e1 THEN p0 ELSE p1]

\* Two YES shares of every event for everyone, or for bob.
SharesForAll == [k \in PositionKeys |-> IF k[3] = "YES" THEN 2 ELSE 0]

SharesForBob ==
    [k \in PositionKeys |-> IF k[1] = bob /\ k[3] = "YES" THEN 2 ELSE 0]

\* No action reads the stream, so runs whose properties do not mention it
\* need not tell states apart that differ in nothing else.
WithoutStream == <<markets, orders, book, ledgerVars, workerVars>>

OrderSymmetry == Permutations(OrderIds)
=============================================================================
