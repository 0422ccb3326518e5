---------------------------- MODULE SingleOwner ----------------------------
(***************************************************************************)
(* What leases and fencing tokens promise about a partition: at most one   *)
(* engine owns it, each ownership has an epoch larger than all before it,  *)
(* and only the owner appends to the partition's log, under its epoch.     *)
(***************************************************************************)
EXTENDS Integers, Sequences

CONSTANTS Owners, Nobody

VARIABLES owner, epoch, log

vars == <<owner, epoch, log>>

Init == owner = Nobody /\ epoch = 0 /\ log = <<>>

Acquire(o) ==
    /\ owner = Nobody
    /\ owner' = o
    /\ epoch' = epoch + 1
    /\ UNCHANGED log

\* An epoch that its candidate gives up before owning the partition.
WasteEpoch ==
    /\ owner = Nobody
    /\ epoch' = epoch + 1
    /\ UNCHANGED <<owner, log>>

Write ==
    /\ owner # Nobody
    /\ log' = Append(log, epoch)
    /\ UNCHANGED <<owner, epoch>>

Yield == owner' = Nobody /\ UNCHANGED <<epoch, log>>

Next == WasteEpoch \/ Write \/ Yield \/ \E o \in Owners : Acquire(o)

Spec == Init /\ [][Next]_vars
=============================================================================
