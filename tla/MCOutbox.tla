------------------------------ MODULE MCOutbox ------------------------------
(***************************************************************************)
(* Instances of Outbox.  Two partitions make emissions interleave; two     *)
(* emissions of each let a later success follow an earlier failure.        *)
(***************************************************************************)
EXTENDS Outbox

CONSTANTS p0, p1
=============================================================================
