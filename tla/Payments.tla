------------------------------ MODULE Payments -------------------------------
(***************************************************************************)
(* The payment flow of backend-rust: the transactions table and the        *)
(* handlers of the payments service that move it (checkout, notify,        *)
(* reconcile, charge), the feed of the tips service they write to, and the *)
(* referral commissions.                                                   *)
(*                                                                         *)
(* No handler runs in a database transaction: each is a sequence of        *)
(* autocommitted statements and HTTP calls, and any other handler runs     *)
(* between two of them.  An action is one such statement or call together  *)
(* with the pure code up to the next; a step of a handler that changes     *)
(* nothing and returns is a stuttering step and has no action.  A handler  *)
(* can vanish after any of its steps: the service restarts, a statement or *)
(* a call returns an error through `?`, or the caller hangs up and axum    *)
(* drops the future.                                                       *)
(***************************************************************************)
EXTENDS Money, FiniteSets

CONSTANTS
  Orders,        (* merchant_order_no of each hosted checkout (tj...)      *)
  Charges,       (* reference of each simulated capture (tj_...)           *)
  Handlers,      (* slots for requests being served at the same time       *)
  Referred,      (* payments whose creator signed up with a usable code    *)
  Requests,      (* amounts clients ask for, in mills                      *)
  FallsShort,    (* half cents whose binary product falls short of the tie *)
  MinTip,        (* MIN_TIP_AMOUNT, in mills                               *)
  MayOmitAmount, (* whether a gateway message may lack order_amount        *)
  NoRef

Refs == Orders \cup Charges

ASSUME PaymentsAssumption ==
  /\ Orders \cap Charges = {}
  /\ Referred \subseteq Refs
  /\ Requests \subseteq Nat
  /\ FallsShort \subseteq Nat
  /\ MinTip \in Nat
  /\ MayOmitAmount \in BOOLEAN
  /\ NoRef \notin Refs

VARIABLES
  status,      (* transactions.status by reference, "none" before the row  *)
  recorded,    (* transactions.amount of an order, in cents                *)
  payable,     (* orders whose transactions.pay_url is set                 *)
  aged,        (* orders whose created_at is over an hour ago              *)
  tips,        (* how many rows of tips.tips carry a reference             *)
  commissions, (* references with an rc_<reference> row in transactions    *)
  lost,        (* history: the effects given up on, <<effect, reference>>  *)
  req,         (* what each handler is about to do                         *)
  gw,          (* the gateway's own status of an order                     *)
  gwAmount,    (* the amount the gateway collects for an order, in cents   *)
  notices      (* terminal statuses the gateway has notified of an order   *)

ledgerVars  == <<status, recorded, payable, aged>>
effectVars  == <<tips, commissions, lost>>
gatewayVars == <<gw, gwAmount, notices>>
vars == <<ledgerVars, effectVars, gatewayVars, req>>

(* Where a handler can be waiting: in checkout, in reconcile, in notify or *)
(* reconcile, and in charge on behalf of create_tip.                       *)
OrderStages == {"gateway", "payUrl"} \cup {"query"}
                 \cup {"update", "record", "insert", "credit"}
ChargeStages == {"chargeCredit", "createTip"}
Stages == {"idle"} \cup OrderStages \cup ChargeStages

Request == [at : Stages, ref : Refs \cup {NoRef},
            verdict : {"none", "failed", "completed"}, amount : Nat]

Idle == [at |-> "idle", ref |-> NoRef, verdict |-> "none", amount |-> 0]

Init ==
  /\ status = [r \in Refs |-> "none"]
  /\ recorded = [o \in Orders |-> 0]
  /\ payable = {}
  /\ aged = {}
  /\ tips = [r \in Refs |-> 0]
  /\ commissions = {}
  /\ lost = {}
  /\ req = [h \in Handlers |-> Idle]
  /\ gw = [o \in Orders |-> "none"]
  /\ gwAmount = [o \in Orders |-> 0]
  /\ notices = [o \in Orders |-> {}]

At(h, stage) == req[h].at = stage

(* The handler's next await, with the locals that live across it.          *)
Go(h, stage, r, verdict, amount) ==
  req' = [req EXCEPT ![h] = [at |-> stage, ref |-> r,
                             verdict |-> verdict, amount |-> amount]]

Advance(h, stage) == Go(h, stage, req[h].ref, req[h].verdict, 0)

Reply(h) == req' = [req EXCEPT ![h] = Idle]
-----------------------------------------------------------------------------
(***************************************************************************)
(* checkout.                                                               *)
(***************************************************************************)

(* call: no answer, one that is not JSON, or one with an error code.       *)
CallFails(h) == Reply(h)

(* The minimum is checked on the amount of the request, before rounding;   *)
(* the pending row is written before the gateway hears of the order.       *)
CheckoutInsert(h, o, m) ==
  /\ At(h, "idle")
  /\ m >= MinTip
  /\ status[o] = "none"
  /\ status' = [status EXCEPT ![o] = "pending"]
  /\ recorded' = [recorded EXCEPT ![o] = RecordedCents(m)]
  /\ Go(h, "gateway", o, "none", m)
  /\ UNCHANGED <<payable, aged, effectVars, gatewayVars>>

(* The gateway creates the order, whether or not its answer arrives with a *)
(* pay_url in it.  A refused call leaves the pending row behind (Drop).    *)
CheckoutCall(h) ==
  /\ At(h, "gateway")
  /\ gw' = [gw EXCEPT ![req[h].ref] = "open"]
  /\ gwAmount' = [gwAmount EXCEPT ![req[h].ref] =
                     OrderedCents(req[h].amount, req[h].amount \in FallsShort)]
  /\ Advance(h, "payUrl") \/ CallFails(h)
  /\ UNCHANGED <<ledgerVars, effectVars, notices>>

CheckoutSavePayUrl(h) ==
  /\ At(h, "payUrl")
  /\ payable' = payable \cup {req[h].ref}
  /\ Reply(h)
  /\ UNCHANGED <<status, recorded, aged, effectVars, gatewayVars>>
-----------------------------------------------------------------------------
(***************************************************************************)
(* notify and reconcile, the two ways to a terminal status.                *)
(***************************************************************************)

(* The amount check passes when the message has no amount to compare.      *)
AmountIgnored(o) == TRUE \* mutant: completes whatever was paid
AmountAccepted(o) == MayOmitAmount \/ gwAmount[o] = recorded[o]

(* notify's early returns on the row: unknown, or completed already.       *)
StillPending(o) == status[o] = "pending" \* mutant: gives failed orders up
Unsettled(o) == status[o] \notin {"none", "completed"}

(* notify up to its UPDATE: one of the gateway's signed notifications, any *)
(* number of times and in any order.  An unknown order, a completed one, a *)
(* wrong amount and a status that is not terminal end the request.         *)
Notify(h, o, ts) ==
  /\ At(h, "idle")
  /\ ts \in notices[o]
  /\ Unsettled(o)
  /\ AmountAccepted(o)
  /\ Go(h, "update", o, IF ts = "paid" THEN "completed" ELSE "failed", 0)
  /\ UNCHANGED <<ledgerVars, effectVars, gatewayVars>>

ReconcileRead(h, o) ==
  /\ At(h, "idle")
  /\ status[o] = "pending"
  /\ Go(h, "query", o, "none", 0)
  /\ UNCHANGED <<ledgerVars, effectVars, gatewayVars>>

GatewayWord(o) == {gw[o]} \* mutant: copies the gateway's status verbatim

(* The status reconcile derives from the gateway's answer and the age of   *)
(* the row, both as they are when the answer arrives.                      *)
Verdicts(o) ==
  {v \in {"completed", "failed"} :
     \/ v = "completed" /\ gw[o] = "paid" /\ AmountAccepted(o)
     \/ v = "failed" /\ gw[o] = "cancelled"
     \/ v = "failed" /\ gw[o] = "open" /\ o \in aged}

(* order.query; an answer that says pending ends the request, too.         *)
ReconcileQuery(h) ==
  /\ At(h, "query")
  /\ \/ \E v \in Verdicts(req[h].ref) : Go(h, "update", req[h].ref, v, 0)
     \/ CallFails(h) \/ Reply(h)
  /\ UNCHANGED <<ledgerVars, effectVars, gatewayVars>>

(* The WHERE clause of the UPDATE.                                         *)
WhereAny(o) == TRUE \* mutant: no guard against a completed row
WhereNotCompleted(o) == status[o] # "completed"

(* Whether the request goes on to the effects: the UPDATE touched the row, *)
(* and completed it.                                                       *)
FromPendingOnly(h, o) == \* mutant: looks at the status before the UPDATE
  status[o] = "pending" /\ req[h].verdict = "completed"
CompletesFirst(h, o) == WhereNotCompleted(o) /\ req[h].verdict = "completed"

UpdateStatus(h) ==
  LET o == req[h].ref
  IN  /\ At(h, "update")
      /\ status' = IF WhereNotCompleted(o)
                     THEN [status EXCEPT ![o] = req[h].verdict]
                     ELSE status
      /\ IF CompletesFirst(h, o) THEN Advance(h, "record") ELSE Reply(h)
      /\ UNCHANGED <<recorded, payable, aged, effectVars, gatewayVars>>
-----------------------------------------------------------------------------
(***************************************************************************)
(* The effects of a completed payment.                                     *)
(***************************************************************************)

(* record_tip, its POST and the SELECT of the tips service's own           *)
(* record_tip.  A failed POST is logged and nothing retries it.            *)
RecordTip(h) ==
  /\ At(h, "record")
  /\ \/ /\ Advance(h, IF tips[req[h].ref] > 0 THEN "credit" ELSE "insert")
        /\ UNCHANGED lost
     \/ /\ Advance(h, "credit")
        /\ lost' = lost \cup {<<"tip", req[h].ref>>}
  /\ UNCHANGED <<ledgerVars, tips, commissions, gatewayVars>>

(* The INSERT into tips, which has no unique key to refuse a second row,   *)
(* or its failure, after which the caller looks at no status code.         *)
AddTipRow(r) ==
  \/ tips' = [tips EXCEPT ![r] = @ + 1] /\ UNCHANGED lost
  \/ lost' = lost \cup {<<"tip", r>>} /\ UNCHANGED tips

InsertTip(h) ==
  /\ At(h, "insert")
  /\ AddTipRow(req[h].ref)
  /\ Advance(h, "credit")
  /\ UNCHANGED <<ledgerVars, commissions, gatewayVars>>

(* credit_referrer: four lookups, then INSERT ... ON CONFLICT DO NOTHING.  *)
(* Any of them may fail, and then the commission is not tried again.       *)
CreditReferrer(h) ==
  LET r == req[h].ref
  IN  /\ req[h].at \in {"credit", "chargeCredit"}
      /\ IF r \notin Referred
           THEN UNCHANGED <<commissions, lost>>
           ELSE \/ commissions' = commissions \cup {r} /\ UNCHANGED lost
                \/ /\ lost' = lost \cup {<<"commission", r>>}
                   /\ UNCHANGED commissions
      /\ IF At(h, "credit") THEN Reply(h) ELSE Advance(h, "createTip")
      /\ UNCHANGED <<ledgerVars, tips, gatewayVars>>

(* charge, on behalf of the tips service's create_tip: the row is          *)
(* completed from the start; a reference already used is a conflict.       *)
Charge(h, c, m) ==
  /\ At(h, "idle")
  /\ m >= MinTip
  /\ status[c] = "none"
  /\ status' = [status EXCEPT ![c] = "completed"]
  /\ Go(h, "chargeCredit", c, "completed", 0)
  /\ UNCHANGED <<recorded, payable, aged, effectVars, gatewayVars>>

(* create_tip's INSERT, once charge has answered.                          *)
CreateTip(h) ==
  /\ At(h, "createTip")
  /\ AddTipRow(req[h].ref)
  /\ Reply(h)
  /\ UNCHANGED <<ledgerVars, commissions, gatewayVars>>
-----------------------------------------------------------------------------
(***************************************************************************)
(* What the environment does.                                              *)
(***************************************************************************)

OwesTip        == {"record", "insert", "chargeCredit", "createTip"}
OwesCommission == {"record", "insert", "credit", "chargeCredit"}

(* The handler vanishes, and with it what it still had to do.  A tips row  *)
(* written after the payments handler is gone is the same as one written   *)
(* just before.                                                            *)
Drop(h) ==
  /\ ~At(h, "idle")
  /\ lost' = lost \cup
       {<<"tip", r>> : r \in {x \in {req[h].ref} : req[h].at \in OwesTip}}
       \cup {<<"commission", r>> :
               r \in {x \in {req[h].ref} \cap Referred :
                        req[h].at \in OwesCommission}}
  /\ Reply(h)
  /\ UNCHANGED <<ledgerVars, tips, commissions, gatewayVars>>

GatewayMoves(o, from, to) ==
  /\ o \in payable
  /\ gw[o] = from
  /\ gw' = [gw EXCEPT ![o] = to]
  /\ UNCHANGED <<ledgerVars, effectVars, req, gwAmount>>

(* trans_status 2.                                                         *)
PayerPays(o) == /\ GatewayMoves(o, "open", "paid")
                /\ notices' = [notices EXCEPT ![o] = @ \cup {"paid"}]

(* trans_status 1 or 3: the payment is cancelled or the order is closed.   *)
PayerCancels(o) == /\ GatewayMoves(o, "open", "cancelled")
                   /\ notices' = [notices EXCEPT ![o] = @ \cup {"cancelled"}]

(* Nothing in the service relies on a cancelled order staying cancelled.   *)
PayerReturns(o) == GatewayMoves(o, "cancelled", "open") /\ UNCHANGED notices

HourPasses(o) == /\ status[o] # "none"
                 /\ o \notin aged
                 /\ aged' = aged \cup {o}
                 /\ UNCHANGED <<status, recorded, payable, effectVars,
                                gatewayVars, req>>

Environment(o) == PayerPays(o) \/ PayerCancels(o) \/ PayerReturns(o)
                  \/ HourPasses(o)

(* The steps of a request once it has begun.                               *)
Progress(h) == \/ CheckoutCall(h) \/ CheckoutSavePayUrl(h)
               \/ ReconcileQuery(h) \/ UpdateStatus(h)
               \/ RecordTip(h) \/ InsertTip(h) \/ CreditReferrer(h)
               \/ CreateTip(h)

Begin(h) == \/ \E o \in Orders, m \in Requests : CheckoutInsert(h, o, m)
            \/ \E o \in Orders, ts \in {"paid", "cancelled"} : Notify(h, o, ts)
            \/ \E o \in Orders : ReconcileRead(h, o)
            \/ \E c \in Charges, m \in Requests : Charge(h, c, m)

Next == \/ \E h \in Handlers : Begin(h) \/ Progress(h) \/ Drop(h)
        \/ \E o \in Orders : Environment(o)

Spec == Init /\ [][Next]_vars

(***************************************************************************)
(* A request that is not dropped runs on.  The gateway repeats a payment's *)
(* notification until the endpoint answers SUCCESS, so it gets through     *)
(* again and again while the order is not completed, and not every attempt *)
(* to write that it was paid is dropped: strong fairness, as attempts come *)
(* and go.  Nobody is obliged to check out, pay, cancel or poll.           *)
(***************************************************************************)
Fairness ==
  /\ \A h \in Handlers : WF_vars(Progress(h))
  /\ \A o \in Orders : SF_vars(\E h \in Handlers : Notify(h, o, "paid"))
  /\ \A h \in Handlers, o \in Orders :
       SF_vars(/\ UpdateStatus(h)
               /\ req[h].ref = o
               /\ req[h].verdict = "completed")

FairSpec == Spec /\ Fairness
-----------------------------------------------------------------------------
(***************************************************************************)
(* Properties.                                                             *)
(***************************************************************************)

(* A request waits in the stages of its own endpoint, and writes a status. *)
RequestOK(q) == /\ q.at \in OrderStages => q.ref \in Orders
                /\ q.at \in ChargeStages => q.ref \in Charges
                /\ q.at = "update" => q.verdict # "none"

(* The type of every variable.                                             *)
TypeOK ==
  /\ status \in [Refs -> {"none", "pending", "failed", "completed"}]
  /\ recorded \in [Orders -> Nat]
  /\ payable \subseteq Orders
  /\ aged \subseteq Orders
  /\ tips \in [Refs -> Nat]
  /\ commissions \subseteq Refs
  /\ lost \subseteq {"tip", "commission"} \X Refs
  /\ req \in [Handlers -> Request]
  /\ \A h \in Handlers : RequestOK(req[h])
  /\ gw \in [Orders -> {"none", "open", "cancelled", "paid"}]
  /\ gwAmount \in [Orders -> Nat]
  /\ notices \in [Orders -> SUBSET {"paid", "cancelled"}]

(* A tip appears in the feed, and a commission is credited, at most once   *)
(* per payment and only for a completed one, although notify and reconcile *)
(* may complete an order at the same time, record_tip looks before it      *)
(* inserts and tips.reference has no unique key.                           *)
EffectsOnceAndEarned ==
  \A r \in Refs : /\ tips[r] <= 1
                  /\ tips[r] > 0 \/ r \in commissions => status[r] = "completed"

(* An order is completed only on the gateway's word that it was paid, and  *)
(* for the amount that the ledger recorded, if messages carry an amount.   *)
CompletedWasPaid ==
  \A o \in Orders :
    status[o] = "completed" => /\ gw[o] = "paid"
                               /\ MayOmitAmount \/ gwAmount[o] = recorded[o]

(* Some request is between completing r and the given effect.              *)
Owes(stages, r) == \E h \in Handlers : req[h].at \in stages /\ req[h].ref = r

(* A completed payment without its tip or its commission is explained: a   *)
(* request is still about to add it, or the one request that could was cut *)
(* short or saw the call fail.  No interleaving of notify, reconcile and   *)
(* charge skips an effect by itself.                                       *)
EffectsAccountedFor ==
  \A r \in Refs : status[r] = "completed" =>
    /\ tips[r] > 0 \/ <<"tip", r>> \in lost \/ Owes(OwesTip, r)
    /\ r \in Referred => \/ r \in commissions
                         \/ <<"commission", r>> \in lost
                         \/ Owes(OwesCommission, r)

EffectStages == OwesTip \cup OwesCommission

SoleStages == {"gateway"} \cup EffectStages

(* What the gateway knows of an order the ledger has a row for.            *)
GatewayInv ==
  \A o \in Orders : /\ gw[o] # "none" => status[o] # "none"
                    /\ "paid" \in notices[o] => gw[o] = "paid"

(* What a waiting request can rely on, whatever other requests did since   *)
(* it read the row or asked the gateway.                                   *)
RequestInv(h) ==
  LET q == req[h]
  IN  /\ q.at = "gateway" => gw[q.ref] = "none"
      /\ q.at \in OrderStages => status[q.ref] # "none"
      /\ q.at = "update" /\ q.verdict = "completed" =>
           gw[q.ref] = "paid" /\ AmountAccepted(q.ref)
      /\ q.at \in EffectStages => status[q.ref] = "completed"
      /\ q.at \in OwesTip => tips[q.ref] = 0

(* A payment has one request that hands it to the gateway, and one that    *)
(* carries out its effects.                                                *)
SoleInv ==
  \A g, h \in Handlers :
    /\ req[g].at \in SoleStages
    /\ req[h].at \in SoleStages
    /\ req[g].ref = req[h].ref
    => g = h

(* The inductive invariant behind the safety properties.                   *)
SafetyInv == /\ GatewayInv
             /\ \A h \in Handlers : RequestInv(h)
             /\ SoleInv
             /\ EffectsOnceAndEarned
             /\ CompletedWasPaid

(* The promise of module TipLedger, with the rows of the feed as shown.    *)
Ledger == INSTANCE TipLedger WITH shown <- tips

(* The handlers keep it: in particular a stale verdict never overwrites a  *)
(* completed payment and a completed payment is shown only once.           *)
LedgerSpec == Ledger!Spec

(* An order paid for the recorded amount ends up completed, also when      *)
(* reconcile gave it up as expired before the payer came back and paid.    *)
PaidIsCompleted ==
  \A o \in Orders : gw[o] = "paid" /\ gwAmount[o] = recorded[o]
                      ~> status[o] = "completed"

(* A completed order ends up in the feed unless that effect was lost.      *)
CompletedIsShown ==
  \A o \in Orders :
    status[o] = "completed" ~> tips[o] = 1 \/ <<"tip", o>> \in lost

(* "Persist a pending transaction first so the notify webhook can match    *)
(* it", and "the paid amount must match what we recorded": the gateway is  *)
(* asked for the amount that the pending row has.                          *)
WebhookCanMatch ==
  \A o \in Orders :
    gw[o] # "none" => status[o] # "none" /\ gwAmount[o] = recorded[o]

(* "Load the transaction; only act while it is still pending", of notify:  *)
(* an order that is no longer pending keeps its status.                    *)
OnlyPendingIsActedOn ==
  [][\A o \in Orders :
       status'[o] # status[o] => status[o] \in {"none", "pending"}]_vars
==============================================================================
