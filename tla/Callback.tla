------------------------------- MODULE Callback -------------------------------
(***************************************************************************)
(* The page a payer comes back to (app/payment/callback/page.tsx of        *)
(* frontend-next): it asks for the order ten times, by having the gateway  *)
(* asked and, where that fails, by reading the row.                        *)
(***************************************************************************)
EXTENDS Naturals

CONSTANT MaxTries  (* the times the page asks: ten in the code             *)

ASSUME CallbackAssumption == MaxTries \in Nat \ {0}

VARIABLES
  known,    (* the link names the order                                    *)
  forced,   (* the link says what to show: the testing override            *)
  ledger,   (* the row: "pending", "completed" or "failed"                 *)
  gateway,  (* the order at the gateway, which is the truth                *)
  notices,  (* the outcomes it has notified, some of them late             *)
  shown,    (* "loading", "completed", "failed" or "pending"               *)
  poll,     (* what is under way: "none", "reconcile", "read" or "wait"    *)
  verdict,  (* what reconcile has of the gateway, and not written yet      *)
  answer,   (* the status a served request brings                          *)
  tries     (* the times asked so far                                      *)

callbackVars == <<known, forced, ledger, gateway, notices, shown, poll, verdict,
                  answer, tries>>

Outcomes == {"completed", "failed"}

(* forced is "none" for a link that the checkout made.                     *)
CallbackInit ==
  /\ known \in BOOLEAN /\ forced \in {"none", "pending"} \cup Outcomes
  /\ ledger = "pending" /\ gateway = "pending" /\ notices = {}
  /\ shown = IF forced # "none" THEN forced ELSE IF known THEN "loading" ELSE "pending"
  /\ poll = IF forced = "none" /\ known THEN "reconcile" ELSE "none"
  /\ verdict = "none" /\ answer = "none" /\ tries = 0
-----------------------------------------------------------------------------
(* A payer may come back to an order that the gateway called failed.       *)
GatewaySettles == /\ gateway # "completed" /\ gateway' \in (Outcomes \cup {"pending"}) \ {gateway}
                  /\ notices' = notices \cup ({gateway'} \cap Outcomes)
                  /\ UNCHANGED <<known, forced, ledger, shown, poll, verdict, answer, tries>>

(* The webhook (Payments.tla), at last: a completed row stays.             *)
Notify == /\ ledger # "completed" /\ ledger' \in notices
          /\ UNCHANGED <<known, notices, forced, gateway, shown, poll, verdict, answer, tries>>

(* reconcile: a row that is not pending is answered as it is; otherwise    *)
(* the gateway is asked.  An order still open counts as failed after an    *)
(* hour, and one paid with another amount as still pending.                *)
ServeReconcile ==
  /\ poll = "reconcile" /\ verdict = "none" /\ answer = "none"
  /\ IF ledger # "pending"
       THEN answer' = ledger /\ verdict' = verdict
       ELSE /\ verdict' \in {gateway, "pending"} \cup (IF gateway = "pending" THEN {"failed"} ELSE {})
            /\ answer' = answer
  /\ UNCHANGED <<known, forced, ledger, gateway, notices, shown, poll, tries>>

(* The UPDATE spares what the webhook completed meanwhile; the answer is   *)
(* the verdict all the same.                                               *)
Reconcile ==
  /\ poll = "reconcile" /\ verdict # "none"
  /\ ledger' = IF verdict \in Outcomes /\ ledger # "completed" THEN verdict ELSE ledger
  /\ answer' = verdict /\ verdict' = "none"
  /\ UNCHANGED <<known, forced, gateway, notices, shown, poll, tries>>

ServeRead == /\ poll = "read" /\ answer = "none"
             /\ answer' = ledger
             /\ UNCHANGED <<known, forced, ledger, gateway, notices, shown, poll, verdict, tries>>
-----------------------------------------------------------------------------
Page == UNCHANGED <<known, forced, ledger, gateway, notices, verdict>>

(* What follows an answer without an outcome: the next try, or the end.    *)
TryAgainGladly == \* mutant: the last try means it went through
  /\ answer' = "none"
  /\ tries' = tries + 1
  /\ IF tries' >= MaxTries THEN shown' = "completed" /\ poll' = "none"
                           ELSE shown' = shown /\ poll' = "wait"
  /\ Page

TryAgain == /\ answer' = "none"
            /\ tries' = tries + 1
            /\ IF tries' >= MaxTries THEN shown' = "pending" /\ poll' = "none"
                                     ELSE shown' = shown /\ poll' = "wait"
            /\ Page

Answered == /\ answer \in Outcomes
            /\ shown' = answer
            /\ answer' = "none" /\ poll' = "none"
            /\ UNCHANGED tries /\ Page

Undecided == answer = "pending" /\ TryAgain

(* reconcile failed, or its answer was lost: the row is read instead.      *)
ReadInstead == /\ poll = "reconcile"
               /\ verdict' = "none" /\ answer' = "none" /\ poll' = "read"
               /\ UNCHANGED <<known, forced, ledger, gateway, notices, shown, tries>>

ReadFails == poll = "read" /\ TryAgain

Wake == /\ poll = "wait" /\ poll' = "reconcile"
        /\ UNCHANGED <<shown, answer, tries>> /\ Page

SaysReceived == shown = "completed"
SaysNotCharged == shown = "failed"
SaysProcessing == shown = "pending" /\ poll = "none"

CheckAgain == /\ SaysProcessing /\ forced = "none" /\ known
              /\ shown' = "loading" /\ poll' = "reconcile" /\ tries' = 0
              /\ UNCHANGED answer /\ Page

(* A poll goes on: a request is served, fails or is answered, a timer      *)
(* fires.                                                                  *)
Poll == \/ ServeReconcile \/ Reconcile \/ ServeRead
        \/ Answered \/ Undecided \/ ReadInstead \/ ReadFails
        \/ Wake

CallbackNext == GatewaySettles \/ Notify \/ Poll \/ CheckAgain
-----------------------------------------------------------------------------
(* "Payment received!" and "Your card was not charged" are said, on a link *)
(* that does not itself say what to show, of an order that the row has as  *)
(* such - or, of a failure, that was paid after all.                       *)
SettledIsTrue ==
  forced = "none" =>
    /\ SaysReceived => ledger = "completed" /\ gateway = "completed"
    /\ SaysNotCharged => ledger = "failed" \/ gateway = "completed"

(* Whatever polls and notifications do to the row, it moves as the payment *)
(* flow promises: a verdict that is written late does not take a completed *)
(* payment back.                                                           *)
Promise == INSTANCE TipLedger WITH
             Orders <- {"order"}, Charges <- {},
             status <- [o \in {"order"} |-> ledger], shown <- [o \in {"order"} |-> 0]

RowKeepsPromise == [][Promise!Next]_ledger
===============================================================================
