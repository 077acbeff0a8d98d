-------------------------------- MODULE MCPages --------------------------------
(* Pages, where nothing tells the admins at a list apart, or its rows.     *)
EXTENDS Pages, TLC

Alike == Permutations(Clerks) \cup Permutations(RowIds)
===============================================================================
