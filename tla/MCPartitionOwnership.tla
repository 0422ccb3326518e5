------------------------ MODULE MCPartitionOwnership ------------------------
(***************************************************************************)
(* Instances of PartitionOwnership: two engines, an owner and its          *)
(* successor.  Faults of every kind combine, and the models that the       *)
(* conditional properties are about are also there on their own.           *)
(***************************************************************************)
EXTENDS PartitionOwnership

CONSTANTS a, b
=============================================================================
