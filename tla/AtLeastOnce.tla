---------------------------- MODULE AtLeastOnce ----------------------------
(***************************************************************************)
(* What the engine's outbox promises to its consumers, with nothing about  *)
(* how: an event that was accepted is kept until it has been delivered,    *)
(* and it is delivered.  It may be delivered again after that.             *)
(***************************************************************************)
CONSTANT Items

VARIABLES
    kept,       \* accepted and not yet forgotten
    delivered

vars == <<kept, delivered>>

Init == kept = {} /\ delivered = {}

Accept(x) ==
    /\ x \notin kept \cup delivered
    /\ kept' = kept \cup {x}
    /\ UNCHANGED delivered

Deliver(x) ==
    /\ x \in kept
    /\ delivered' = delivered \cup {x}
    /\ UNCHANGED kept

\* Only what was delivered may be forgotten.
Forget ==
    /\ kept' \subseteq kept
    /\ kept \ kept' \subseteq delivered
    /\ UNCHANGED delivered

Next == Forget \/ \E x \in Items : Accept(x) \/ Deliver(x)

Safety == Init /\ [][Next]_vars

Spec == Safety /\ \A x \in Items : WF_vars(Deliver(x))
=============================================================================
