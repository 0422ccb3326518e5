---------------------------- MODULE MCApiServer ----------------------------
(* The API for TLC: two events in two partitions, one order, two signups   *)
(* with one address, and an order that is submitted twice.                 *)
EXTENDS ApiServer, TLC

CONSTANTS e1, e2, o1, event1, event2, order, again, cancel, book, signup, other

MCCallOf ==
    event1 :> [op |-> "CreateEvent", event |-> e1]
    @@ event2 :> [op |-> "CreateEvent", event |-> e2]
    @@ order :> [op |-> "CreateOrder", order |-> o1]
    @@ again :> [op |-> "CreateOrder", order |-> o1]
    @@ cancel :> [op |-> "DeleteOrder", order |-> o1]
    @@ book :> [op |-> "GetOrderbook", event |-> e1]
    @@ signup :> [op |-> "Signup", email |-> "a"]
    @@ other :> [op |-> "Signup", email |-> "a"]

MCEventOf == o1 :> e1

MCPartitionOf == e1 :> 1 @@ e2 :> 2

Scenario(calls_, faults_) == [calls |-> calls_, faults |-> faults_]

MCScenarios ==
    {Scenario({event1, order, cancel}, {"redis", "redeliver"}),
     Scenario({event1, order, again}, {"late", "reply"}),
     Scenario({event1, event2, book}, {"late", "redeliver"}),
     Scenario({event1, order, cancel}, {"crash", "redeliver"}),
     Scenario({signup, other}, {"redis", "redeliver"}),
     Scenario({signup, other, event1}, {"late", "redeliver"})}
=============================================================================
