------------------------------ MODULE MCPayouts ------------------------------
(***************************************************************************)
(* Instances of Payouts for model checking.  Rows and handlers are         *)
(* interchangeable.                                                        *)
(***************************************************************************)
EXTENDS Payouts, TLC

Symmetry == Permutations(Handlers) \cup Permutations(PayoutIds)

==============================================================================
