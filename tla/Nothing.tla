------------------------------- MODULE Nothing ------------------------------
(* The value of a field that has none, shared by the modules one run composes. *)
CONSTANT None
=============================================================================
