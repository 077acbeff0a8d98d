------------------------------ MODULE MCStudio ------------------------------
(* The studio for TLC: a visit spent drawing, one spent saving, and one     *)
(* spent tidying up the gallery.                                            *)
EXTENDS Studio

Visits == {[edits |-> 3, saves |-> 0, removals |-> 0],
           [edits |-> 1, saves |-> 2, removals |-> 0],
           [edits |-> 0, saves |-> 2, removals |-> 1]}
=============================================================================
