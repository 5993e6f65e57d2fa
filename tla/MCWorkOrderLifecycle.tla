------------------------ MODULE MCWorkOrderLifecycle -------------------------
(* A small instance of the work order's row for TLC. *)
EXTENDS WorkOrderLifecycle, TLC

CONSTANTS api, bridge

WriterSymmetry == Permutations(Writer)

\* The mock backend's answer, and all that Maximo may send.
AnyAnswer == Answer
=============================================================================
