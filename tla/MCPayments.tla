----------------------------- MODULE MCPayments ------------------------------
(***************************************************************************)
(* Instances of Payments for model checking.  The handlers are             *)
(* interchangeable.                                                        *)
(***************************************************************************)
EXTENDS Payments, TLC

Symmetry == Permutations(Handlers)
==============================================================================
