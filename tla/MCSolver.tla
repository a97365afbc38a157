------------------------------ MODULE MCSolver ------------------------------
(* The orders, limits and counters are small enough for all of them to be  *)
(* reached within the steps of one or two Steps.                           *)
EXTENDS Solver
=============================================================================
