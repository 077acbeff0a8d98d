------------------------------ MODULE TipLedger ------------------------------
(***************************************************************************)
(* What the payment flow promises to fans and creators, without saying how *)
(* it is achieved: every payment moves once, from not existing to          *)
(* completed, possibly by way of pending and failed; completed is final;   *)
(* and a completed payment appears in the creator's feed of tips at most   *)
(* once.                                                                   *)
(***************************************************************************)
EXTENDS Naturals

CONSTANTS Orders,   (* payments through the hosted checkout                *)
          Charges   (* payments captured on the spot                       *)

VARIABLES status,   (* [Orders \cup Charges -> status of the payment]      *)
          shown     (* how many rows of the feed a payment has             *)

vars == <<status, shown>>

Refs == Orders \cup Charges

Init == /\ status = [r \in Refs |-> "none"]
        /\ shown = [r \in Refs |-> 0]

Become(r, s) == /\ status' = [status EXCEPT ![r] = s]
                /\ UNCHANGED shown

Open(o) == status[o] = "none" /\ Become(o, "pending")

Fail(o) == status[o] = "pending" /\ Become(o, "failed")

(* A payment that was given up can still be paid: failed is not final.     *)
Complete(o) == status[o] \in {"pending", "failed"} /\ Become(o, "completed")

Capture(c) == status[c] = "none" /\ Become(c, "completed")

Show(r) == /\ status[r] = "completed"
           /\ shown[r] = 0
           /\ shown' = [shown EXCEPT ![r] = 1]
           /\ UNCHANGED status

Next == \/ \E o \in Orders : Open(o) \/ Fail(o) \/ Complete(o)
        \/ \E c \in Charges : Capture(c)
        \/ \E r \in Refs : Show(r)

Spec == Init /\ [][Next]_vars
==============================================================================
