--------------------------- MODULE PaymentsProofs ----------------------------
(***************************************************************************)
(* Proofs about module Payments, for any number of orders, captures,       *)
(* handlers and amounts.                                                   *)
(***************************************************************************)
EXTENDS Payments, MoneyProofs, Integers, TLAPS

(* The amounts derived from a request are natural numbers of cents.        *)
LEMMA CentsType ==
  \A m \in Nat : /\ RecordedCents(m) \in Nat
                 /\ \A b \in BOOLEAN : OrderedCents(m, b) \in Nat
  BY SMT DEF RecordedCents, OrderedCents, RoundHalfEven, RoundHalfUp

(* What a handler's slot holds.                                            *)
LEMMA RequestFields ==
  ASSUME TypeOK, NEW h \in Handlers
  PROVE  /\ req[h].at \in Stages
         /\ req[h].ref \in Refs \cup {NoRef}
         /\ req[h].verdict \in {"none", "failed", "completed"}
         /\ req[h].amount \in Nat
         /\ RequestOK(req[h])
  BY DEF TypeOK, Request

LEMMA RefTypes ==
  ASSUME TypeOK, NEW h \in Handlers
  PROVE  /\ req[h].at \in OrderStages => req[h].ref \in Orders
         /\ req[h].at \in ChargeStages => req[h].ref \in Charges
         /\ req[h].at # "idle" => req[h].ref \in Refs
         /\ req[h].at = "update" => req[h].verdict \in {"failed", "completed"}
  BY RequestFields DEF RequestOK, Stages, Refs

(* How a step changes the slot of its own handler and no other.            *)
LEMMA GoEffect ==
  ASSUME TypeOK, NEW h \in Handlers, NEW stage \in Stages,
         NEW r \in Refs \cup {NoRef},
         NEW v \in {"none", "failed", "completed"}, NEW a \in Nat,
         Go(h, stage, r, v, a)
  PROVE  /\ req' \in [Handlers -> Request]
         /\ req'[h] = [at |-> stage, ref |-> r, verdict |-> v, amount |-> a]
         /\ \A g \in Handlers \ {h} : req'[g] = req[g]
  BY DEF Go, TypeOK, Request

LEMMA AdvanceEffect ==
  ASSUME TypeOK, NEW h \in Handlers, NEW stage \in Stages, Advance(h, stage)
  PROVE  /\ req' \in [Handlers -> Request]
         /\ req'[h] = [at |-> stage, ref |-> req[h].ref,
                       verdict |-> req[h].verdict, amount |-> 0]
         /\ \A g \in Handlers \ {h} : req'[g] = req[g]
  BY RequestFields, GoEffect DEF Advance

LEMMA ReplyEffect ==
  ASSUME TypeOK, NEW h \in Handlers, Reply(h)
  PROVE  /\ req' \in [Handlers -> Request]
         /\ req'[h] = Idle
         /\ \A g \in Handlers \ {h} : req'[g] = req[g]
<1>1. Idle \in Request
  BY DEF Idle, Request, Stages
<1> QED BY <1>1 DEF Reply, TypeOK

(* The type of req after a step that leaves the other slots alone.         *)
LEMMA SlotType ==
  ASSUME TypeOK, NEW h \in Handlers, req' \in [Handlers -> Request],
         RequestOK(req'[h]), \A g \in Handlers \ {h} : req'[g] = req[g]
  PROVE  \A g \in Handlers : RequestOK(req'[g])
  BY DEF TypeOK

LEMMA IdleOK == RequestOK(Idle)
  BY DEF RequestOK, Idle, OrderStages, ChargeStages
-----------------------------------------------------------------------------
(* Every variable keeps its type.                                          *)
LEMMA TypeInit == Init => TypeOK
<1>1. Idle \in Request
  BY DEF Idle, Request, Stages
<1> QED BY <1>1, IdleOK, PaymentsAssumption DEF Init, TypeOK, Refs

LEMMA TypeStep == TypeOK /\ [Next]_vars => TypeOK'
<1> SUFFICES ASSUME TypeOK, [Next]_vars PROVE TypeOK'
  OBVIOUS
<1> DEFINE ReqOK == /\ req' \in [Handlers -> Request]
                    /\ \A h \in Handlers : RequestOK(req'[h])
<1>go. ASSUME NEW h \in Handlers, NEW stage \in Stages, NEW r \in Refs,
              NEW v \in {"none", "failed", "completed"}, NEW a \in Nat,
              Go(h, stage, r, v, a),
              stage \in OrderStages => r \in Orders,
              stage \in ChargeStages => r \in Charges,
              stage = "update" => v # "none"
       PROVE  ReqOK
  <2>1. /\ req' \in [Handlers -> Request]
        /\ req'[h] = [at |-> stage, ref |-> r, verdict |-> v, amount |-> a]
        /\ \A g \in Handlers \ {h} : req'[g] = req[g]
    BY <1>go, GoEffect
  <2>2. RequestOK(req'[h])
    BY <2>1, <1>go DEF RequestOK
  <2> QED BY <2>1, <2>2, SlotType
<1>adv. ASSUME NEW h \in Handlers, NEW stage \in Stages \ {"update"},
               Advance(h, stage),
               stage \in OrderStages => req[h].at \in OrderStages,
               stage \in ChargeStages => req[h].at \in ChargeStages
        PROVE  ReqOK
  <2>1. /\ req' \in [Handlers -> Request]
        /\ req'[h] = [at |-> stage, ref |-> req[h].ref,
                      verdict |-> req[h].verdict, amount |-> 0]
        /\ \A g \in Handlers \ {h} : req'[g] = req[g]
    BY <1>adv, AdvanceEffect
  <2>2. RequestOK(req'[h])
    BY <2>1, <1>adv, RefTypes DEF RequestOK
  <2> QED BY <2>1, <2>2, SlotType
<1>rep. ASSUME NEW h \in Handlers, Reply(h) PROVE ReqOK
  BY <1>rep, ReplyEffect, IdleOK, SlotType
<1> USE PaymentsAssumption, RefTypes
    DEF Refs, ledgerVars, effectVars, gatewayVars, At
<1>1. ASSUME NEW h \in Handlers, NEW o \in Orders, NEW m \in Requests,
             CheckoutInsert(h, o, m)
      PROVE  TypeOK'
  <2>1. ReqOK
    BY <1>1, <1>go DEF CheckoutInsert, Stages, OrderStages, ChargeStages
  <2> QED BY <1>1, <2>1, CentsType DEF CheckoutInsert, TypeOK
<1>2. ASSUME NEW h \in Handlers, CheckoutCall(h) PROVE TypeOK'
  <2>1. ReqOK
    BY <1>2, <1>adv, <1>rep
    DEF CheckoutCall, CallFails, Stages, OrderStages, ChargeStages
  <2>2. OrderedCents(req[h].amount, req[h].amount \in FallsShort) \in Nat
    <3>1. req[h].amount \in Nat /\ (req[h].amount \in FallsShort) \in BOOLEAN
      BY RequestFields
    <3> QED BY <3>1, CentsType
  <2> QED BY <1>2, <2>1, <2>2 DEF CheckoutCall, CallFails, TypeOK
<1>3. ASSUME NEW h \in Handlers, CheckoutSavePayUrl(h) PROVE TypeOK'
  <2>1. ReqOK
    BY <1>3, <1>rep DEF CheckoutSavePayUrl
  <2> QED BY <1>3, <2>1 DEF CheckoutSavePayUrl, TypeOK, OrderStages
<1>4. ASSUME NEW h \in Handlers, NEW o \in Orders,
             NEW ts \in {"paid", "cancelled"}, Notify(h, o, ts)
      PROVE  TypeOK'
  <2>1. ReqOK
    BY <1>4, <1>go DEF Notify, Stages, OrderStages, ChargeStages
  <2> QED BY <1>4, <2>1 DEF Notify, TypeOK
<1>5. ASSUME NEW h \in Handlers, NEW o \in Orders, ReconcileRead(h, o)
      PROVE  TypeOK'
  <2>1. ReqOK
    BY <1>5, <1>go DEF ReconcileRead, Stages, OrderStages, ChargeStages
  <2> QED BY <1>5, <2>1 DEF ReconcileRead, TypeOK
<1>6. ASSUME NEW h \in Handlers, ReconcileQuery(h) PROVE TypeOK'
  <2>1. ASSUME Reply(h) PROVE ReqOK
    BY <2>1, <1>rep
  <2>2. ASSUME NEW v \in Verdicts(req[h].ref),
               Go(h, "update", req[h].ref, v, 0)
        PROVE  ReqOK
    <3>1. v \in {"failed", "completed"} /\ req[h].ref \in Orders
      BY <1>6 DEF Verdicts, ReconcileQuery, CallFails, OrderStages
    <3>2. /\ v \in {"none", "failed", "completed"} /\ v # "none"
          /\ req[h].ref \in Refs
      BY <3>1
    <3>3. "update" \in Stages /\ "update" \notin ChargeStages
      BY DEF Stages, OrderStages, ChargeStages
    <3> HIDE DEF Refs, ReqOK
    <3> QED BY <2>2, <3>1, <3>2, <3>3, <1>go
  <2>3. ReqOK
    BY <1>6, <2>1, <2>2 DEF ReconcileQuery, CallFails
  <2> QED BY <1>6, <2>3 DEF ReconcileQuery, CallFails, TypeOK
<1>7. ASSUME NEW h \in Handlers, UpdateStatus(h) PROVE TypeOK'
  <2>1. ReqOK
    BY <1>7, <1>adv, <1>rep
    DEF UpdateStatus, Stages, OrderStages, ChargeStages
  <2> QED BY <1>7, <2>1 DEF UpdateStatus, TypeOK
<1>8. ASSUME NEW h \in Handlers, RecordTip(h) PROVE TypeOK'
  <2>1. ReqOK
    BY <1>8, <1>adv DEF RecordTip, Stages, OrderStages, ChargeStages
  <2> QED BY <1>8, <2>1 DEF RecordTip, TypeOK
<1>9. ASSUME NEW h \in Handlers, InsertTip(h) PROVE TypeOK'
  <2>1. ReqOK
    BY <1>9, <1>adv DEF InsertTip, Stages, OrderStages, ChargeStages
  <2> QED BY <1>9, <2>1 DEF InsertTip, AddTipRow, TypeOK
<1>10. ASSUME NEW h \in Handlers, CreditReferrer(h) PROVE TypeOK'
  <2>1. ReqOK
    BY <1>10, <1>adv, <1>rep
    DEF CreditReferrer, Stages, OrderStages, ChargeStages
  <2> QED BY <1>10, <2>1 DEF CreditReferrer, TypeOK
<1>11. ASSUME NEW h \in Handlers, NEW c \in Charges, NEW m \in Requests,
              Charge(h, c, m)
       PROVE  TypeOK'
  <2>1. ReqOK
    BY <1>11, <1>go DEF Charge, Stages, OrderStages, ChargeStages
  <2> QED BY <1>11, <2>1 DEF Charge, TypeOK
<1>12. ASSUME NEW h \in Handlers, CreateTip(h) PROVE TypeOK'
  <2>1. ReqOK
    BY <1>12, <1>rep DEF CreateTip
  <2> QED BY <1>12, <2>1 DEF CreateTip, AddTipRow, TypeOK
<1>13. ASSUME NEW h \in Handlers, Drop(h) PROVE TypeOK'
  <2>1. ReqOK
    BY <1>13, <1>rep DEF Drop
  <2> QED BY <1>13, <2>1 DEF Drop, TypeOK
<1>14. ASSUME NEW o \in Orders, Environment(o) PROVE TypeOK'
  BY <1>14
  DEF Environment, PayerPays, PayerCancels, PayerReturns, HourPasses,
      GatewayMoves, TypeOK
<1>15. CASE UNCHANGED vars
  BY <1>15 DEF vars, TypeOK
<1> QED
  BY <1>1, <1>2, <1>3, <1>4, <1>5, <1>6, <1>7, <1>8, <1>9, <1>10, <1>11,
     <1>12, <1>13, <1>14, <1>15
  DEF Next, Begin, Progress

(* Every variable of the payment flow has its type in every state.         *)
THEOREM TypeCorrect == Spec => []TypeOK
  BY TypeInit, TypeStep, PTL DEF Spec
-----------------------------------------------------------------------------
(***************************************************************************)
(* What each step of a handler does to its slot.                           *)
(***************************************************************************)

LEMMA StageNames ==
  /\ \A s \in {"idle", "gateway", "payUrl", "query", "update", "record",
               "insert", "credit", "chargeCredit", "createTip"} : s \in Stages
  /\ OrderStages = {"gateway", "payUrl", "query", "update", "record",
                    "insert", "credit"}
  /\ EffectStages = {"record", "insert", "credit", "chargeCredit",
                     "createTip"}
  /\ OwesTip = {"record", "insert", "chargeCredit", "createTip"}
  /\ SoleStages = {"gateway", "record", "insert", "credit", "chargeCredit",
                   "createTip"}
  BY DEF Stages, OrderStages, ChargeStages, EffectStages, OwesTip,
         OwesCommission, SoleStages

OthersKept(h) == \A g \in Handlers \ {h} : req'[g] = req[g]

(* The handler's slot after a step.                                        *)
Slot(h, stage, r, v) == /\ req'[h].at = stage
                        /\ req'[h].ref = r
                        /\ req'[h].verdict = v

LEMMA GoSlot ==
  ASSUME TypeOK, NEW h \in Handlers,
         NEW stage, stage \in Stages,
         NEW r, r \in Refs,
         NEW v, v \in {"none", "failed", "completed"},
         NEW a, a \in Nat,
         Go(h, stage, r, v, a)
  PROVE  OthersKept(h) /\ Slot(h, stage, r, v)
<1>1. /\ req'[h] = [at |-> stage, ref |-> r, verdict |-> v, amount |-> a]
      /\ \A g \in Handlers \ {h} : req'[g] = req[g]
  BY GoEffect
<1> QED BY <1>1 DEF OthersKept, Slot

LEMMA AdvanceSlot ==
  ASSUME TypeOK, NEW h \in Handlers, NEW stage, stage \in Stages,
         Advance(h, stage)
  PROVE  OthersKept(h) /\ Slot(h, stage, req[h].ref, req[h].verdict)
<1>1. /\ req'[h] = [at |-> stage, ref |-> req[h].ref,
                    verdict |-> req[h].verdict, amount |-> 0]
      /\ \A g \in Handlers \ {h} : req'[g] = req[g]
  BY AdvanceEffect
<1> QED BY <1>1 DEF OthersKept, Slot

LEMMA ReplySlot ==
  ASSUME TypeOK, NEW h \in Handlers, Reply(h)
  PROVE  OthersKept(h) /\ req'[h].at = "idle"
  BY ReplyEffect DEF OthersKept, Idle
-----------------------------------------------------------------------------
(***************************************************************************)
(* Safety: the invariant of the requests that a step leaves alone.         *)
(***************************************************************************)

(* A request keeps what it relies on when its own payment does not change. *)
LEMMA RequestKept ==
  ASSUME NEW g \in Handlers, RequestInv(g), req'[g] = req[g],
         gw'[req[g].ref] = gw[req[g].ref],
         status'[req[g].ref] = status[req[g].ref],
         tips'[req[g].ref] = tips[req[g].ref],
         UNCHANGED <<recorded, gwAmount>>
  PROVE  RequestInv(g)'
  BY DEF RequestInv, AmountAccepted

(* No second request is sole: the step's own is new to its payment.        *)
LEMMA SoleBegins ==
  ASSUME SoleInv, NEW h \in Handlers, OthersKept(h),
         \A g \in Handlers \ {h} :
           req[g].at \in SoleStages => req[g].ref # req'[h].ref
  PROVE  SoleInv'
  BY DEF SoleInv, OthersKept

LEMMA SoleGoesOn ==
  ASSUME SoleInv, NEW h \in Handlers, OthersKept(h),
         req'[h].at \in SoleStages =>
           req[h].at \in SoleStages /\ req'[h].ref = req[h].ref
  PROVE  SoleInv'
  BY DEF SoleInv, OthersKept

(* A step that only moves its own request on.                              *)
LEMMA QuietStep ==
  ASSUME SafetyInv, NEW h \in Handlers, OthersKept(h),
         UNCHANGED <<status, recorded, tips, gw, gwAmount, notices>>,
         \A r \in Refs :
           r \in commissions' => r \in commissions \/ status[r] = "completed",
         RequestInv(h)',
         req'[h].at \in SoleStages =>
           req[h].at \in SoleStages /\ req'[h].ref = req[h].ref
  PROVE  SafetyInv'
<1>1. GatewayInv'
  BY DEF SafetyInv, GatewayInv
<1>2. ASSUME NEW g \in Handlers PROVE RequestInv(g)'
  BY RequestKept DEF SafetyInv, OthersKept
<1>3. SoleInv'
  BY SoleGoesOn DEF SafetyInv
<1>4. EffectsOnceAndEarned'
  BY DEF SafetyInv, EffectsOnceAndEarned
<1>5. CompletedWasPaid'
  BY DEF SafetyInv, CompletedWasPaid
<1> QED BY <1>1, <1>2, <1>3, <1>4, <1>5 DEF SafetyInv
-----------------------------------------------------------------------------
(***************************************************************************)
(* Safety: the steps.                                                      *)
(***************************************************************************)

LEMMA SafetyInit == Init => SafetyInv
  BY PaymentsAssumption
  DEF Init, SafetyInv, GatewayInv, RequestInv, SoleInv, EffectsOnceAndEarned,
      CompletedWasPaid, Refs, Idle, OrderStages, EffectStages,
      OwesTip, OwesCommission, SoleStages

(* The order that checkout opens has no request and no gateway state yet.  *)
LEMMA CheckoutInsertSafe ==
  ASSUME TypeOK, SafetyInv, NEW h \in Handlers, NEW o \in Orders,
         NEW m \in Requests, CheckoutInsert(h, o, m)
  PROVE  SafetyInv'
<1>1. OthersKept(h) /\ Slot(h, "gateway", o, "none")
  <2>1. o \in Refs /\ m \in Nat /\ "gateway" \in Stages
    BY PaymentsAssumption, StageNames DEF Refs
  <2> QED BY <2>1, GoSlot DEF CheckoutInsert
<1>2. /\ status[o] = "none" /\ status'[o] = "pending"
      /\ \A r \in Refs \ {o} : status'[r] = status[r]
      /\ \A p \in Orders \ {o} : recorded'[p] = recorded[p]
      /\ UNCHANGED <<tips, commissions, gw, gwAmount, notices>>
  BY DEF CheckoutInsert, TypeOK, Refs, effectVars, gatewayVars
<1>3. gw[o] = "none" /\ tips[o] = 0 /\ o \notin commissions
  BY <1>2 DEF SafetyInv, GatewayInv, EffectsOnceAndEarned, TypeOK, Refs
<1>4. \A g \in Handlers :
       req[g].at \in OrderStages \cup EffectStages => req[g].ref # o
  BY <1>2, StageNames DEF SafetyInv, RequestInv
<1>5. GatewayInv'
  BY <1>2, <1>3 DEF SafetyInv, GatewayInv, Refs
<1>6. ASSUME NEW g \in Handlers PROVE RequestInv(g)'
  <2>1. CASE g = h
    BY <2>1, <1>1, <1>2, <1>3, StageNames DEF Slot, RequestInv
  <2>2. CASE g # h /\ req[g].at \in OrderStages \cup EffectStages
    <3>1. req'[g] = req[g] /\ req[g].ref \in Refs \ {o} /\ RequestInv(g)
      BY <2>2, <1>1, <1>4, RefTypes, StageNames DEF OthersKept, SafetyInv
    <3>2. recorded'[req[g].ref] = recorded[req[g].ref] \/ req[g].at # "update"
      BY <3>1, <2>2, <1>2, RefTypes, StageNames
    <3> QED BY <3>1, <3>2, <1>2 DEF RequestInv, AmountAccepted
  <2>3. CASE g # h /\ req[g].at \notin OrderStages \cup EffectStages
    BY <2>3, <1>1, StageNames DEF OthersKept, RequestInv
  <2> QED BY <2>1, <2>2, <2>3
<1>7. SoleInv'
  BY <1>1, <1>4, StageNames, SoleBegins DEF SafetyInv, Slot
<1>8. EffectsOnceAndEarned'
  BY <1>2, <1>3 DEF SafetyInv, EffectsOnceAndEarned
<1>9. CompletedWasPaid'
  BY <1>2 DEF SafetyInv, CompletedWasPaid, Refs
<1> QED BY <1>5, <1>6, <1>7, <1>8, <1>9 DEF SafetyInv

(* Only the request that inserted the row hands the order to the gateway.  *)
LEMMA CheckoutCallSafe ==
  ASSUME TypeOK, SafetyInv, NEW h \in Handlers, CheckoutCall(h)
  PROVE  SafetyInv'
<1> DEFINE o == req[h].ref
<1>1. o \in Orders /\ req[h].at = "gateway"
  BY RefTypes, StageNames DEF CheckoutCall, CallFails, At
<1>2. OthersKept(h) /\ req'[h].at \in {"idle", "payUrl"}
      /\ (req'[h].at = "payUrl" => req'[h].ref = o)
  BY AdvanceSlot, ReplySlot, StageNames DEF CheckoutCall, CallFails, Slot
<1>3. /\ gw[o] = "none" /\ gw'[o] = "open"
      /\ \A p \in Orders \ {o} : gw'[p] = gw[p] /\ gwAmount'[p] = gwAmount[p]
      /\ UNCHANGED <<status, recorded, tips, commissions, notices>>
  BY <1>1
  DEF CheckoutCall, CallFails, TypeOK, SafetyInv, RequestInv, ledgerVars, effectVars
<1>4. status[o] \notin {"none", "completed"}
  BY <1>1, <1>3, StageNames DEF SafetyInv, RequestInv, CompletedWasPaid
<1>5. GatewayInv'
  BY <1>1, <1>3, <1>4 DEF SafetyInv, GatewayInv
<1>6. ASSUME NEW g \in Handlers PROVE RequestInv(g)'
  <2>1. CASE g = h
    BY <2>1, <1>1, <1>2, <1>3, <1>4, StageNames DEF RequestInv
  <2>2. CASE g # h
    <3>1. req'[g] = req[g] /\ RequestInv(g)
      BY <2>2, <1>2 DEF OthersKept, SafetyInv
    <3>2. req[g].at = "gateway" => req[g].ref \in Orders \ {o}
      BY <2>2, <1>1, RefTypes, StageNames DEF SafetyInv, SoleInv
    <3>3. req[g].at = "update" /\ req[g].verdict = "completed" =>
            req[g].ref \in Orders \ {o}
      BY <3>1, <1>3, RefTypes, StageNames DEF RequestInv
    <3> QED BY <3>1, <3>2, <3>3, <1>3 DEF RequestInv, AmountAccepted
  <2> QED BY <2>1, <2>2
<1>7. SoleInv'
  BY <1>2, StageNames, SoleGoesOn DEF SafetyInv
<1>8. EffectsOnceAndEarned'
  BY <1>3 DEF SafetyInv, EffectsOnceAndEarned
<1>9. CompletedWasPaid'
  BY <1>1, <1>3, <1>4 DEF SafetyInv, CompletedWasPaid
<1> QED BY <1>5, <1>6, <1>7, <1>8, <1>9 DEF SafetyInv

LEMMA CheckoutSavePayUrlSafe ==
  ASSUME TypeOK, SafetyInv, NEW h \in Handlers, CheckoutSavePayUrl(h)
  PROVE  SafetyInv'
<1>1. OthersKept(h) /\ req'[h].at = "idle"
  BY ReplySlot DEF CheckoutSavePayUrl
<1>2. RequestInv(h)'
  BY <1>1, StageNames DEF RequestInv
<1> QED BY <1>1, <1>2, StageNames, QuietStep
        DEF CheckoutSavePayUrl, effectVars, gatewayVars

(* The notice of a payment is evidence that the gateway collected it.      *)
LEMMA NotifySafe ==
  ASSUME TypeOK, SafetyInv, NEW h \in Handlers, NEW o \in Orders,
         NEW ts \in {"paid", "cancelled"}, Notify(h, o, ts)
  PROVE  SafetyInv'
<1> DEFINE v == IF ts = "paid" THEN "completed" ELSE "failed"
<1>1. OthersKept(h) /\ Slot(h, "update", o, v)
  <2>1. o \in Refs /\ v \in {"none", "failed", "completed"} /\ 0 \in Nat
    BY DEF Refs
  <2> QED BY <2>1, StageNames, GoSlot DEF Notify
<1>2. UNCHANGED <<status, recorded, tips, commissions, gw, gwAmount, notices>>
  BY DEF Notify, ledgerVars, effectVars, gatewayVars
<1>3. status[o] # "none" /\ AmountAccepted(o) /\ (ts = "paid" => gw[o] = "paid")
  BY DEF Notify, Unsettled, SafetyInv, GatewayInv
<1>4. RequestInv(h)'
  BY <1>1, <1>2, <1>3, StageNames DEF RequestInv, Slot, AmountAccepted
<1> QED BY <1>1, <1>2, <1>4, StageNames, QuietStep DEF Slot

LEMMA ReconcileReadSafe ==
  ASSUME TypeOK, SafetyInv, NEW h \in Handlers, NEW o \in Orders,
         ReconcileRead(h, o)
  PROVE  SafetyInv'
<1>1. OthersKept(h) /\ Slot(h, "query", o, "none")
  <2>1. o \in Refs /\ 0 \in Nat
    BY DEF Refs
  <2> QED BY <2>1, StageNames, GoSlot DEF ReconcileRead
<1>2. UNCHANGED <<status, recorded, tips, commissions, gw, gwAmount, notices>>
  BY DEF ReconcileRead, ledgerVars, effectVars, gatewayVars
<1>3. RequestInv(h)'
  BY <1>1, <1>2, StageNames DEF RequestInv, Slot, ReconcileRead
<1> QED BY <1>1, <1>2, <1>3, StageNames, QuietStep DEF Slot

(* The verdict may be stale by the time of the UPDATE, but paid is final.  *)
LEMMA ReconcileQuerySafe ==
  ASSUME TypeOK, SafetyInv, NEW h \in Handlers, ReconcileQuery(h)
  PROVE  SafetyInv'
<1> DEFINE o == req[h].ref
<1>1. req[h].at = "query" /\ o \in Orders /\ status[o] # "none"
  BY RefTypes, StageNames DEF ReconcileQuery, CallFails, At, SafetyInv, RequestInv
<1>2. UNCHANGED <<status, recorded, tips, commissions, gw, gwAmount, notices>>
  BY DEF ReconcileQuery, CallFails, ledgerVars, effectVars, gatewayVars
<1>3. CASE Reply(h)
  <2>1. OthersKept(h) /\ req'[h].at = "idle"
    BY <1>3, ReplySlot
  <2>2. RequestInv(h)'
    BY <2>1, StageNames DEF RequestInv
  <2> QED BY <2>1, <2>2, <1>2, StageNames, QuietStep
<1>4. ASSUME NEW v \in Verdicts(o), Go(h, "update", o, v, 0) PROVE SafetyInv'
  <2>1. /\ v \in {"none", "failed", "completed"}
        /\ v = "completed" => gw[o] = "paid" /\ AmountAccepted(o)
    BY DEF Verdicts
  <2>2. OthersKept(h) /\ Slot(h, "update", o, v)
    <3>1. o \in Refs /\ 0 \in Nat /\ "update" \in Stages
      BY <1>1, StageNames DEF Refs
    <3> QED BY <3>1, <2>1, <1>4, GoSlot
  <2>3. RequestInv(h)'
    BY <2>1, <2>2, <1>1, <1>2, StageNames DEF RequestInv, Slot, AmountAccepted
  <2> QED BY <2>2, <2>3, <1>2, StageNames, QuietStep DEF Slot
<1> QED BY <1>3, <1>4 DEF ReconcileQuery, CallFails

(* Two requests may complete an order at once: the row's status decides    *)
(* which of them goes on to the effects, and none was doing them before.   *)
LEMMA UpdateStatusSafe ==
  ASSUME TypeOK, SafetyInv, NEW h \in Handlers, UpdateStatus(h)
  PROVE  SafetyInv'
<1> DEFINE o == req[h].ref
           v == req[h].verdict
<1>1. /\ req[h].at = "update" /\ o \in Orders /\ v \in {"failed", "completed"}
      /\ o \in Refs
  BY RefTypes, StageNames DEF UpdateStatus, At, Refs
<1>2. UNCHANGED <<recorded, tips, commissions, gw, gwAmount, notices>>
  BY DEF UpdateStatus, effectVars, gatewayVars
<1>3. RequestInv(h)
  BY DEF SafetyInv
<1>4. CASE status[o] = "completed"
  <2>1. UNCHANGED status /\ Reply(h)
    BY <1>4 DEF UpdateStatus, WhereNotCompleted, CompletesFirst
  <2>2. OthersKept(h) /\ req'[h].at = "idle"
    BY <2>1, ReplySlot
  <2>3. RequestInv(h)'
    BY <2>2, StageNames DEF RequestInv
  <2> QED BY <1>2, <2>1, <2>2, <2>3, StageNames, QuietStep
<1>5. CASE status[o] # "completed"
  <2>1. /\ status'[o] = v
        /\ \A r \in Refs \ {o} : status'[r] = status[r]
    BY <1>1, <1>5 DEF UpdateStatus, WhereNotCompleted, TypeOK
  <2>2. tips[o] = 0 /\ o \notin commissions
    BY <1>1, <1>5 DEF SafetyInv, EffectsOnceAndEarned, TypeOK
  <2>3. \A g \in Handlers : req[g].at \in EffectStages => req[g].ref # o
    BY <1>5 DEF SafetyInv, RequestInv
  <2>4. \A g \in Handlers :
         req[g].at = "gateway" => req[g].ref # o \/ v = "failed"
    BY <1>1, <1>3, StageNames DEF SafetyInv, RequestInv
  <2>5. /\ OthersKept(h)
        /\ \/ v = "failed" /\ req'[h].at = "idle"
           \/ v = "completed" /\ Slot(h, "record", o, v)
    <3>1. CASE v = "completed"
      <4>1. Advance(h, "record")
        BY <1>5, <3>1 DEF UpdateStatus, WhereNotCompleted, CompletesFirst
      <4> QED BY <3>1, <4>1, AdvanceSlot, StageNames
    <3>2. CASE v = "failed"
      <4>1. Reply(h)
        BY <3>2 DEF UpdateStatus, CompletesFirst
      <4> QED BY <3>2, <4>1, ReplySlot
    <3> QED BY <1>1, <3>1, <3>2
  <2>6. GatewayInv'
    BY <1>1, <1>2, <2>1 DEF SafetyInv, GatewayInv, Refs
  <2>7. ASSUME NEW g \in Handlers PROVE RequestInv(g)'
    <3>1. CASE g = h
      BY <3>1, <1>1, <1>2, <2>1, <2>2, <2>5, StageNames DEF Slot, RequestInv
    <3>2. CASE g # h
      <4>1. req'[g] = req[g] /\ RequestInv(g)
        BY <3>2, <2>5 DEF OthersKept, SafetyInv
      <4>2. req[g].at # "idle" => req[g].ref \in Refs
        BY RefTypes
      <4> QED BY <4>1, <4>2, <1>1, <1>2, <2>1, <2>3, StageNames
              DEF RequestInv, AmountAccepted
    <3> QED BY <3>1, <3>2
  <2>8. SoleInv'
    <3>1. \A g \in Handlers \ {h} : req[g].at \in SoleStages =>
            req[g].ref # req'[h].ref \/ req'[h].at = "idle"
      BY <2>3, <2>4, <2>5, StageNames DEF Slot
    <3> QED BY <2>5, <3>1, StageNames DEF SafetyInv, SoleInv, OthersKept
  <2>9. EffectsOnceAndEarned'
    BY <1>1, <1>2, <2>1, <2>2 DEF SafetyInv, EffectsOnceAndEarned
  <2>10. CompletedWasPaid'
    BY <1>1, <1>2, <1>3, <2>1
    DEF SafetyInv, CompletedWasPaid, RequestInv, AmountAccepted, Refs
  <2> QED BY <2>6, <2>7, <2>8, <2>9, <2>10 DEF SafetyInv
<1> QED BY <1>4, <1>5

LEMMA RecordTipSafe ==
  ASSUME TypeOK, SafetyInv, NEW h \in Handlers, RecordTip(h)
  PROVE  SafetyInv'
<1>1. req[h].at = "record" /\ tips[req[h].ref] = 0
  BY StageNames DEF RecordTip, At, SafetyInv, RequestInv
<1>2. UNCHANGED <<status, recorded, tips, commissions, gw, gwAmount, notices>>
  BY DEF RecordTip, ledgerVars, gatewayVars
<1>3. PICK stage \in {"insert", "credit"} : Advance(h, stage)
  BY DEF RecordTip
<1>4. OthersKept(h) /\ Slot(h, stage, req[h].ref, req[h].verdict)
  BY <1>3, AdvanceSlot, StageNames
<1>5. RequestInv(h)'
  BY <1>1, <1>2, <1>4, StageNames DEF RequestInv, Slot, SafetyInv
<1> QED BY <1>1, <1>2, <1>4, <1>5, StageNames, QuietStep DEF Slot

LEMMA CreditReferrerSafe ==
  ASSUME TypeOK, SafetyInv, NEW h \in Handlers, CreditReferrer(h)
  PROVE  SafetyInv'
<1>1. req[h].at \in {"credit", "chargeCredit"} /\ RequestInv(h)
  BY DEF CreditReferrer, SafetyInv
<1>2. /\ UNCHANGED <<status, recorded, tips, gw, gwAmount, notices>>
      /\ commissions' \subseteq commissions \cup {req[h].ref}
  BY DEF CreditReferrer, ledgerVars, gatewayVars
<1>3. /\ OthersKept(h)
      /\ \/ req'[h].at = "idle"
         \/ /\ req[h].at = "chargeCredit"
            /\ Slot(h, "createTip", req[h].ref, req[h].verdict)
  BY <1>1, AdvanceSlot, ReplySlot, StageNames DEF CreditReferrer, At
<1>4. status[req[h].ref] = "completed"
  BY <1>1, StageNames DEF RequestInv
<1>5. RequestInv(h)'
  BY <1>1, <1>2, <1>3, StageNames DEF RequestInv, Slot
<1> QED BY <1>1, <1>2, <1>3, <1>4, <1>5, StageNames, QuietStep DEF Slot

(* A request that disappears leaves the rows as they are.                  *)
LEMMA DropSafe ==
  ASSUME TypeOK, SafetyInv, NEW h \in Handlers, Drop(h)
  PROVE  SafetyInv'
<1>1. OthersKept(h) /\ req'[h].at = "idle"
  BY ReplySlot DEF Drop
<1>2. UNCHANGED <<status, recorded, tips, commissions, gw, gwAmount, notices>>
  BY DEF Drop, ledgerVars, gatewayVars
<1>3. RequestInv(h)'
  BY <1>1, StageNames DEF RequestInv
<1> QED BY <1>1, <1>2, <1>3, StageNames, QuietStep

(* The one request that owes the tip of its payment adds the only row.     *)
LEMMA TipRowSafe ==
  ASSUME TypeOK, SafetyInv, NEW h \in Handlers,
         req[h].at \in OwesTip, AddTipRow(req[h].ref), OthersKept(h),
         \/ req'[h].at = "idle"
         \/ req'[h].at = "credit" /\ req'[h].ref = req[h].ref,
         req[h].at = "insert" \/ req'[h].at = "idle",
         UNCHANGED <<status, recorded, commissions, gw, gwAmount, notices>>
  PROVE  SafetyInv'
<1> DEFINE r == req[h].ref
<1>1. r \in Refs /\ tips[r] = 0 /\ status[r] = "completed" /\ RequestInv(h)
  BY RefTypes, StageNames DEF SafetyInv, RequestInv
<1>2. tips'[r] \in {0, 1} /\ \A x \in Refs \ {r} : tips'[x] = tips[x]
  BY <1>1 DEF AddTipRow, TypeOK
<1>3. GatewayInv'
  BY DEF SafetyInv, GatewayInv
<1>4. ASSUME NEW g \in Handlers PROVE RequestInv(g)'
  <2>1. CASE g = h
    BY <2>1, <1>1, StageNames DEF RequestInv
  <2>2. CASE g # h
    <3>1. req'[g] = req[g] /\ RequestInv(g)
      BY <2>2 DEF OthersKept, SafetyInv
    <3>2. req[g].at \in OwesTip => req[g].ref \in Refs \ {r}
      BY <2>2, RefTypes, StageNames DEF SafetyInv, SoleInv
    <3> QED BY <3>1, <3>2, <1>2 DEF RequestInv, AmountAccepted
  <2> QED BY <2>1, <2>2
<1>5. SoleInv'
  BY StageNames, SoleGoesOn DEF SafetyInv
<1>6. EffectsOnceAndEarned'
  BY <1>1, <1>2 DEF SafetyInv, EffectsOnceAndEarned
<1>7. CompletedWasPaid'
  BY DEF SafetyInv, CompletedWasPaid
<1> QED BY <1>3, <1>4, <1>5, <1>6, <1>7 DEF SafetyInv

LEMMA InsertTipSafe ==
  ASSUME TypeOK, SafetyInv, NEW h \in Handlers, InsertTip(h)
  PROVE  SafetyInv'
<1>1. req[h].at = "insert" /\ AddTipRow(req[h].ref) /\ Advance(h, "credit")
  BY DEF InsertTip, At
<1>2. OthersKept(h) /\ req'[h].at = "credit" /\ req'[h].ref = req[h].ref
  BY <1>1, AdvanceSlot, StageNames DEF Slot
<1>3. UNCHANGED <<status, recorded, commissions, gw, gwAmount, notices>>
  BY DEF InsertTip, ledgerVars, gatewayVars
<1> QED BY <1>1, <1>2, <1>3, TipRowSafe, StageNames

LEMMA CreateTipSafe ==
  ASSUME TypeOK, SafetyInv, NEW h \in Handlers, CreateTip(h)
  PROVE  SafetyInv'
<1>1. req[h].at = "createTip" /\ AddTipRow(req[h].ref) /\ Reply(h)
  BY DEF CreateTip, At
<1>2. OthersKept(h) /\ req'[h].at = "idle"
  BY <1>1, ReplySlot
<1>3. UNCHANGED <<status, recorded, commissions, gw, gwAmount, notices>>
  BY DEF CreateTip, ledgerVars, gatewayVars
<1> QED BY <1>1, <1>2, <1>3, TipRowSafe, StageNames

(* A capture starts from a reference no request and no row has used.       *)
LEMMA ChargeSafe ==
  ASSUME TypeOK, SafetyInv, NEW h \in Handlers, NEW c \in Charges,
         NEW m \in Requests, Charge(h, c, m)
  PROVE  SafetyInv'
<1>1. OthersKept(h) /\ Slot(h, "chargeCredit", c, "completed")
  <2>1. c \in Refs /\ 0 \in Nat
    BY DEF Refs
  <2> QED BY <2>1, StageNames, GoSlot DEF Charge
<1>2. /\ c \in Refs /\ c \notin Orders
      /\ status[c] = "none" /\ status'[c] = "completed"
      /\ \A r \in Refs \ {c} : status'[r] = status[r]
      /\ UNCHANGED <<recorded, tips, commissions, gw, gwAmount, notices>>
  BY PaymentsAssumption DEF Charge, TypeOK, Refs, effectVars, gatewayVars
<1>3. tips[c] = 0 /\ c \notin commissions
  BY <1>2 DEF SafetyInv, EffectsOnceAndEarned, TypeOK
<1>4. \A g \in Handlers :
       req[g].at \in OrderStages \cup EffectStages => req[g].ref # c
  BY <1>2, StageNames DEF SafetyInv, RequestInv
<1>5. GatewayInv'
  BY <1>2 DEF SafetyInv, GatewayInv, Refs
<1>6. ASSUME NEW g \in Handlers PROVE RequestInv(g)'
  <2>1. CASE g = h
    BY <2>1, <1>1, <1>2, <1>3, StageNames DEF Slot, RequestInv
  <2>2. CASE g # h /\ req[g].at \in OrderStages \cup EffectStages
    <3>1. req'[g] = req[g] /\ req[g].ref \in Refs \ {c} /\ RequestInv(g)
      BY <2>2, <1>1, <1>4, RefTypes, StageNames DEF OthersKept, SafetyInv
    <3> QED BY <3>1, <1>2 DEF RequestInv, AmountAccepted
  <2>3. CASE g # h /\ req[g].at \notin OrderStages \cup EffectStages
    BY <2>3, <1>1, StageNames DEF OthersKept, RequestInv
  <2> QED BY <2>1, <2>2, <2>3
<1>7. SoleInv'
  BY <1>1, <1>4, StageNames, SoleBegins DEF SafetyInv, Slot
<1>8. EffectsOnceAndEarned'
  BY <1>2, <1>3 DEF SafetyInv, EffectsOnceAndEarned
<1>9. CompletedWasPaid'
  BY <1>2 DEF SafetyInv, CompletedWasPaid, Refs
<1> QED BY <1>5, <1>6, <1>7, <1>8, <1>9 DEF SafetyInv

(* The gateway moves no order that is paid and none it has not been given. *)
LEMMA EnvironmentSafe ==
  ASSUME TypeOK, SafetyInv, NEW o \in Orders, Environment(o)
  PROVE  SafetyInv'
<1>1. /\ UNCHANGED <<status, recorded, tips, commissions, gwAmount, req>>
      /\ \/ UNCHANGED <<gw, notices>>
         \/ /\ gw[o] \notin {"none", "paid"} /\ gw'[o] # "none"
            /\ \A p \in Orders \ {o} :
                 gw'[p] = gw[p] /\ notices'[p] = notices[p]
            /\ "paid" \in notices'[o] =>
                  "paid" \in notices[o] \/ gw'[o] = "paid"
  BY DEF Environment, PayerPays, PayerCancels, PayerReturns, HourPasses,
         GatewayMoves, TypeOK, ledgerVars, effectVars, gatewayVars
<1>2. GatewayInv'
  BY <1>1 DEF SafetyInv, GatewayInv
<1>3. ASSUME NEW h \in Handlers PROVE RequestInv(h)'
  <2>1. req[h].at = "gateway" \/ req[h].at = "update" => req[h].ref \in Orders
    BY RefTypes, StageNames
  <2> QED BY <2>1, <1>1 DEF SafetyInv, RequestInv, AmountAccepted
<1>4. SoleInv'
  BY <1>1 DEF SafetyInv, SoleInv
<1>5. EffectsOnceAndEarned'
  BY <1>1 DEF SafetyInv, EffectsOnceAndEarned
<1>6. CompletedWasPaid'
  BY <1>1 DEF SafetyInv, CompletedWasPaid
<1> QED BY <1>2, <1>3, <1>4, <1>5, <1>6 DEF SafetyInv

LEMMA SafetyStep == TypeOK /\ SafetyInv /\ [Next]_vars => SafetyInv'
<1> SUFFICES ASSUME TypeOK, SafetyInv, [Next]_vars PROVE SafetyInv'
  OBVIOUS
<1>1. ASSUME NEW h \in Handlers, Begin(h) PROVE SafetyInv'
  BY <1>1, CheckoutInsertSafe, NotifySafe, ReconcileReadSafe, ChargeSafe
  DEF Begin
<1>2. ASSUME NEW h \in Handlers, Progress(h) PROVE SafetyInv'
  BY <1>2, CheckoutCallSafe, CheckoutSavePayUrlSafe, ReconcileQuerySafe,
     UpdateStatusSafe, RecordTipSafe, InsertTipSafe, CreditReferrerSafe,
     CreateTipSafe
  DEF Progress
<1>3. CASE UNCHANGED vars
  BY <1>3
  DEF vars, ledgerVars, effectVars, gatewayVars, SafetyInv, GatewayInv,
      RequestInv, AmountAccepted, SoleInv, EffectsOnceAndEarned,
      CompletedWasPaid
<1> QED BY <1>1, <1>2, <1>3, DropSafe, EnvironmentSafe DEF Next

LEMMA Safety == Spec => []SafetyInv
  BY TypeCorrect, SafetyInit, SafetyStep, PTL DEF Spec

(* The feed shows a payment, and the referrer is credited, at most once    *)
(* and only when it is completed: for any number of concurrent notify,     *)
(* reconcile and charge requests, dropped at any point.                    *)
THEOREM EffectsAreOnceAndEarned == Spec => []EffectsOnceAndEarned
<1>1. SafetyInv => EffectsOnceAndEarned
  BY DEF SafetyInv
<1> QED BY <1>1, Safety, PTL

(* An order is completed only if the gateway collected it, for the amount  *)
(* the ledger recorded when its messages carry one.                        *)
THEOREM CompletedWerePaid == Spec => []CompletedWasPaid
<1>1. SafetyInv => CompletedWasPaid
  BY DEF SafetyInv
<1> QED BY <1>1, Safety, PTL
-----------------------------------------------------------------------------
(***************************************************************************)
(* The payment flow implements TipLedger.                                  *)
(***************************************************************************)

LEMMA LedgerInit == Init => Ledger!Init
  BY DEF Init, Ledger!Init, Ledger!Refs, Refs

LEMMA TipRowShows ==
  ASSUME TypeOK, SafetyInv, NEW h \in Handlers, req[h].at \in OwesTip,
         AddTipRow(req[h].ref), UNCHANGED status
  PROVE  [Ledger!Next]_<<status, tips>>
<1> DEFINE r == req[h].ref
<1>1. r \in Refs /\ status[r] = "completed" /\ tips[r] = 0
  BY RefTypes, StageNames DEF SafetyInv, RequestInv
<1>2. CASE UNCHANGED tips
  BY <1>2
<1>3. CASE tips' = [tips EXCEPT ![r] = @ + 1]
  <2>1. tips' = [tips EXCEPT ![r] = 1]
    BY <1>1, <1>3 DEF TypeOK
  <2> QED BY <1>1, <2>1 DEF Ledger!Next, Ledger!Show, Ledger!Refs, Refs
<1> QED BY <1>2, <1>3 DEF AddTipRow

(* The verdict, however old, moves an order that is not completed.         *)
LEMMA UpdateStatusMoves ==
  ASSUME TypeOK, SafetyInv, NEW h \in Handlers, UpdateStatus(h)
  PROVE  [Ledger!Next]_<<status, tips>>
<1> DEFINE o == req[h].ref
           v == req[h].verdict
<1>1. /\ o \in Orders /\ o \in Refs /\ v \in {"failed", "completed"}
      /\ status[o] # "none" /\ UNCHANGED tips
  BY RefTypes, StageNames
  DEF UpdateStatus, At, Refs, SafetyInv, RequestInv, effectVars
<1>2. \/ UNCHANGED status
      \/ /\ status[o] \in {"pending", "failed"}
         /\ status' = [status EXCEPT ![o] = v]
  BY <1>1 DEF UpdateStatus, WhereNotCompleted, TypeOK
<1>3. CASE status[o] = "failed" /\ v = "failed"
  <2>1. UNCHANGED status
    BY <1>1, <1>2, <1>3 DEF TypeOK
  <2> QED BY <1>1, <2>1
<1>4. CASE ~(status[o] = "failed" /\ v = "failed")
  BY <1>1, <1>2, <1>4
  DEF Ledger!Next, Ledger!Fail, Ledger!Complete, Ledger!Become
<1> QED BY <1>3, <1>4

LEMMA LedgerStep ==
  TypeOK /\ SafetyInv /\ [Next]_vars => [Ledger!Next]_<<status, tips>>
<1> SUFFICES ASSUME TypeOK, SafetyInv, [Next]_vars
             PROVE  [Ledger!Next]_<<status, tips>>
  OBVIOUS
<1>1. ASSUME NEW h \in Handlers, NEW o \in Orders, NEW m \in Requests,
             CheckoutInsert(h, o, m)
      PROVE  Ledger!Next
  BY <1>1
  DEF CheckoutInsert, effectVars, Ledger!Next, Ledger!Open, Ledger!Become
<1>2. ASSUME NEW h \in Handlers, NEW c \in Charges, NEW m \in Requests,
             Charge(h, c, m)
      PROVE  Ledger!Next
  BY <1>2 DEF Charge, effectVars, Ledger!Next, Ledger!Capture, Ledger!Become
<1>3. ASSUME NEW h \in Handlers, InsertTip(h) \/ CreateTip(h)
      PROVE  [Ledger!Next]_<<status, tips>>
  BY <1>3, TipRowShows, StageNames DEF InsertTip, CreateTip, At, ledgerVars
<1>4. ASSUME NEW h \in Handlers, NEW o \in Orders,
             \/ ReconcileRead(h, o)
             \/ \E ts \in {"paid", "cancelled"} : Notify(h, o, ts)
      PROVE  UNCHANGED <<status, tips>>
  BY <1>4 DEF ReconcileRead, Notify, ledgerVars, effectVars
<1>5. ASSUME NEW h \in Handlers,
             \/ CheckoutCall(h) \/ CheckoutSavePayUrl(h) \/ ReconcileQuery(h)
             \/ RecordTip(h) \/ CreditReferrer(h) \/ Drop(h)
      PROVE  UNCHANGED <<status, tips>>
  BY <1>5
  DEF CheckoutCall, CallFails, CheckoutSavePayUrl, ReconcileQuery, RecordTip,
      CreditReferrer, Drop, ledgerVars, effectVars
<1>6. ASSUME NEW o \in Orders, Environment(o)
      PROVE  UNCHANGED <<status, tips>>
  BY <1>6
  DEF Environment, PayerPays, PayerCancels, PayerReturns, HourPasses,
      GatewayMoves, ledgerVars, effectVars
<1>7. CASE UNCHANGED vars
  BY <1>7 DEF vars, ledgerVars, effectVars
<1> QED BY <1>1, <1>2, <1>3, <1>4, <1>5, <1>6, <1>7, UpdateStatusMoves
        DEF Next, Begin, Progress

(* The handlers keep the promise of TipLedger: completed is final, a       *)
(* payment moves only along pending, failed and completed, and is shown    *)
(* once.                                                                   *)
THEOREM LedgerRefined == Spec => LedgerSpec
<1>1. Spec => Ledger!Init /\ [][Ledger!Next]_<<status, tips>>
  BY TypeCorrect, Safety, LedgerInit, LedgerStep, PTL DEF Spec
<1> QED BY <1>1, PTL DEF LedgerSpec, Ledger!Spec, Ledger!vars
-----------------------------------------------------------------------------
(***************************************************************************)
(* No effect of a completed payment is skipped without a failure.          *)
(***************************************************************************)

(* One effect of one payment: it is there, given up on, or owed.           *)
TipAccounted(r) == tips[r] > 0 \/ <<"tip", r>> \in lost \/ Owes(OwesTip, r)

CommissionAccounted(r) ==
  \/ r \in commissions
  \/ <<"commission", r>> \in lost
  \/ Owes(OwesCommission, r)

LEMMA OwesNames ==
  /\ OwesTip = {"record", "insert", "chargeCredit", "createTip"}
  /\ OwesCommission = {"record", "insert", "credit", "chargeCredit"}
  BY DEF OwesTip, OwesCommission

(* A step of h hands its debts on, pays them, or gives them up.            *)
LEMMA HandsOn ==
  ASSUME EffectsAccountedFor, NEW h \in Handlers, OthersKept(h),
         lost \subseteq lost', commissions \subseteq commissions',
         \A r \in Refs : tips[r] > 0 => tips'[r] > 0,
         \A r \in Refs : status'[r] = "completed" =>
           \/ status[r] = "completed"
           \/ req'[h].ref = r /\ req'[h].at \in OwesTip \cap OwesCommission,
         req[h].at \in OwesTip /\ req[h].ref \in Refs =>
           \/ req'[h].at \in OwesTip /\ req'[h].ref = req[h].ref
           \/ tips'[req[h].ref] > 0
           \/ <<"tip", req[h].ref>> \in lost',
         req[h].at \in OwesCommission /\ req[h].ref \in Referred =>
           \/ req'[h].at \in OwesCommission /\ req'[h].ref = req[h].ref
           \/ req[h].ref \in commissions'
           \/ <<"commission", req[h].ref>> \in lost'
  PROVE  EffectsAccountedFor'
<1> SUFFICES ASSUME NEW r \in Refs, status'[r] = "completed"
             PROVE  /\ TipAccounted(r)'
                    /\ r \in Referred => CommissionAccounted(r)'
  BY DEF EffectsAccountedFor, TipAccounted, CommissionAccounted
<1>1. CASE req'[h].ref = r /\ req'[h].at \in OwesTip \cap OwesCommission
  BY <1>1 DEF TipAccounted, CommissionAccounted, Owes
<1>2. CASE status[r] = "completed"
  <2>1. TipAccounted(r) /\ (r \in Referred => CommissionAccounted(r))
    BY <1>2 DEF EffectsAccountedFor, TipAccounted, CommissionAccounted
  <2>2. ASSUME Owes(OwesTip, r) PROVE TipAccounted(r)'
    <3>1. PICK g \in Handlers : req[g].at \in OwesTip /\ req[g].ref = r
      BY <2>2 DEF Owes
    <3> QED BY <3>1 DEF TipAccounted, Owes, OthersKept
  <2>3. ASSUME Owes(OwesCommission, r), r \in Referred
        PROVE  CommissionAccounted(r)'
    <3>1. PICK g \in Handlers : req[g].at \in OwesCommission /\ req[g].ref = r
      BY <2>3 DEF Owes
    <3> QED BY <2>3, <3>1 DEF CommissionAccounted, Owes, OthersKept
  <2> QED BY <2>1, <2>2, <2>3 DEF TipAccounted, CommissionAccounted
<1> QED BY <1>1, <1>2

(* A step that neither completes a payment nor owes anything.              *)
LEMMA OwesNothing ==
  ASSUME EffectsAccountedFor, NEW h \in Handlers, OthersKept(h),
         UNCHANGED effectVars,
         \A r \in Refs : status'[r] = "completed" => status[r] = "completed",
         req[h].at \notin OwesTip \cup OwesCommission
  PROVE  EffectsAccountedFor'
  BY HandsOn DEF effectVars

LEMMA TipRowAccounted ==
  ASSUME TypeOK, NEW x, AddTipRow(x)
  PROVE  /\ lost \subseteq lost'
         /\ \A r \in Refs : tips[r] > 0 => tips'[r] > 0
         /\ x \in Refs => tips'[x] > 0 \/ <<"tip", x>> \in lost'
  BY DEF AddTipRow, TypeOK

LEMMA BeginAccounted ==
  ASSUME TypeOK, EffectsAccountedFor, NEW h \in Handlers, Begin(h)
  PROVE  EffectsAccountedFor'
<1>1. req[h].at \notin OwesTip \cup OwesCommission
  BY OwesNames
  DEF Begin, CheckoutInsert, Notify, ReconcileRead, Charge, At
<1>2. ASSUME NEW o \in Orders, NEW m \in Requests, CheckoutInsert(h, o, m)
      PROVE  EffectsAccountedFor'
  <2>1. OthersKept(h)
    <3>1. o \in Refs /\ m \in Nat
      BY PaymentsAssumption DEF Refs
    <3> QED BY <1>2, <3>1, GoSlot, StageNames DEF CheckoutInsert
  <2>2. /\ UNCHANGED effectVars
        /\ \A r \in Refs : status'[r] = "completed" => status[r] = "completed"
    BY <1>2 DEF CheckoutInsert, TypeOK
  <2> QED BY <1>1, <2>1, <2>2, OwesNothing
<1>3. ASSUME NEW o \in Orders, NEW ts \in {"paid", "cancelled"},
             Notify(h, o, ts)
      PROVE  EffectsAccountedFor'
  <2> DEFINE v == IF ts = "paid" THEN "completed" ELSE "failed"
  <2>1. OthersKept(h)
    <3>1. o \in Refs /\ v \in {"none", "failed", "completed"} /\ 0 \in Nat
      BY DEF Refs
    <3> QED BY <1>3, <3>1, GoSlot, StageNames DEF Notify
  <2> QED BY <1>1, <1>3, <2>1, OwesNothing DEF Notify, ledgerVars
<1>4. ASSUME NEW o \in Orders, ReconcileRead(h, o)
      PROVE  EffectsAccountedFor'
  <2>1. OthersKept(h)
    <3>1. o \in Refs /\ 0 \in Nat
      BY DEF Refs
    <3> QED BY <1>4, <3>1, GoSlot, StageNames DEF ReconcileRead
  <2> QED BY <1>1, <1>4, <2>1, OwesNothing DEF ReconcileRead, ledgerVars
<1>5. ASSUME NEW c \in Charges, NEW m \in Requests, Charge(h, c, m)
      PROVE  EffectsAccountedFor'
  <2>1. OthersKept(h) /\ Slot(h, "chargeCredit", c, "completed")
    <3>1. c \in Refs /\ 0 \in Nat
      BY DEF Refs
    <3> QED BY <1>5, <3>1, StageNames, GoSlot DEF Charge
  <2>2. /\ UNCHANGED effectVars
        /\ \A r \in Refs : status'[r] = "completed" =>
                           status[r] = "completed" \/ r = c
    BY <1>5 DEF Charge, TypeOK
  <2> QED BY <1>1, <2>1, <2>2, HandsOn, OwesNames DEF Slot, effectVars
<1> QED BY <1>2, <1>3, <1>4, <1>5 DEF Begin

LEMMA ProgressAccounted ==
  ASSUME TypeOK, EffectsAccountedFor, NEW h \in Handlers, Progress(h)
  PROVE  EffectsAccountedFor'
<1>1. CASE CheckoutCall(h) \/ CheckoutSavePayUrl(h)
  <2>1. OthersKept(h)
    BY <1>1, AdvanceSlot, ReplySlot, StageNames
    DEF CheckoutCall, CallFails, CheckoutSavePayUrl
  <2>2. UNCHANGED <<status, effectVars>> /\ req[h].at \in {"gateway", "payUrl"}
    BY <1>1 DEF CheckoutCall, CallFails, CheckoutSavePayUrl, At, ledgerVars
  <2> QED BY <2>1, <2>2, OwesNothing, OwesNames
<1>2. CASE ReconcileQuery(h)
  <2>1. ASSUME NEW v \in Verdicts(req[h].ref),
               Go(h, "update", req[h].ref, v, 0)
        PROVE  OthersKept(h)
    <3>1. /\ v \in {"none", "failed", "completed"} /\ 0 \in Nat
          /\ req[h].ref \in Refs
      BY <1>2, RefTypes DEF Verdicts, ReconcileQuery, CallFails, At
    <3> QED BY <2>1, <3>1, GoSlot, StageNames
  <2>2. OthersKept(h)
    BY <1>2, <2>1, ReplySlot DEF ReconcileQuery, CallFails
  <2>3. UNCHANGED <<status, effectVars>> /\ req[h].at = "query"
    BY <1>2 DEF ReconcileQuery, CallFails, At, ledgerVars
  <2> QED BY <2>2, <2>3, OwesNothing, OwesNames
<1>3. CASE UpdateStatus(h)
  <2> DEFINE o == req[h].ref
             v == req[h].verdict
  <2>1. req[h].at = "update" /\ UNCHANGED effectVars
    BY <1>3 DEF UpdateStatus, At
  <2>2. CASE CompletesFirst(h, o)
    <3>1. OthersKept(h) /\ Slot(h, "record", o, v)
      BY <1>3, <2>2, AdvanceSlot, StageNames DEF UpdateStatus
    <3>2. \A r \in Refs : status'[r] = "completed" =>
                           status[r] = "completed" \/ r = o
      BY <1>3 DEF UpdateStatus, TypeOK
    <3> QED BY <2>1, <3>1, <3>2, HandsOn, OwesNames DEF Slot, effectVars
  <2>3. CASE ~CompletesFirst(h, o)
    <3>1. OthersKept(h)
      BY <1>3, <2>3, ReplySlot DEF UpdateStatus
    <3>2. \A r \in Refs : status'[r] = "completed" => status[r] = "completed"
      BY <1>3, <2>3 DEF UpdateStatus, CompletesFirst, TypeOK
    <3> QED BY <2>1, <3>1, <3>2, OwesNothing, OwesNames
  <2> QED BY <2>2, <2>3
<1>4. CASE RecordTip(h)
  <2>1. /\ req[h].at = "record" /\ UNCHANGED <<status, tips, commissions>>
        /\ \/ tips[req[h].ref] > 0 /\ Advance(h, "credit") /\ UNCHANGED lost
           \/ Advance(h, "insert") /\ UNCHANGED lost
           \/ /\ Advance(h, "credit")
              /\ lost' = lost \cup {<<"tip", req[h].ref>>}
    BY <1>4 DEF RecordTip, At, ledgerVars
  <2>2. PICK stage \in {"credit", "insert"} : Advance(h, stage)
    BY <2>1
  <2>3. OthersKept(h) /\ Slot(h, stage, req[h].ref, req[h].verdict)
    BY <2>2, AdvanceSlot, StageNames
  <2>4. \/ stage = "insert"
        \/ tips[req[h].ref] > 0
        \/ <<"tip", req[h].ref>> \in lost'
    <3>1. CASE Advance(h, "insert")
      <4>1. Slot(h, "insert", req[h].ref, req[h].verdict)
        BY <3>1, AdvanceSlot, StageNames
      <4> QED BY <2>3, <4>1 DEF Slot
    <3> QED BY <2>1, <3>1
  <2> QED BY <2>1, <2>3, <2>4, HandsOn, OwesNames DEF Slot
<1>5. CASE InsertTip(h)
  <2>1. OthersKept(h) /\ Slot(h, "credit", req[h].ref, req[h].verdict)
    BY <1>5, AdvanceSlot, StageNames DEF InsertTip
  <2>2. req[h].at = "insert" /\ UNCHANGED <<status, commissions>>
    BY <1>5 DEF InsertTip, At, ledgerVars
  <2> QED BY <1>5, <2>1, <2>2, TipRowAccounted, HandsOn, OwesNames
          DEF InsertTip, Slot
<1>6. CASE CreateTip(h)
  <2>1. OthersKept(h) /\ req'[h].at = "idle"
    BY <1>6, ReplySlot DEF CreateTip
  <2>2. req[h].at = "createTip" /\ UNCHANGED <<status, commissions>>
    BY <1>6 DEF CreateTip, At, ledgerVars
  <2> QED BY <1>6, <2>1, <2>2, TipRowAccounted, HandsOn, OwesNames
          DEF CreateTip
<1>7. CASE CreditReferrer(h)
  <2>1. /\ OthersKept(h)
        /\ \/ req[h].at = "credit"
           \/ /\ req[h].at = "chargeCredit"
              /\ Slot(h, "createTip", req[h].ref, req[h].verdict)
    BY <1>7, AdvanceSlot, ReplySlot, StageNames DEF CreditReferrer, At
  <2>2. /\ UNCHANGED <<status, tips>>
        /\ lost \subseteq lost' /\ commissions \subseteq commissions'
        /\ \/ req[h].ref \notin Referred
           \/ req[h].ref \in commissions'
           \/ <<"commission", req[h].ref>> \in lost'
    BY <1>7 DEF CreditReferrer, ledgerVars
  <2> QED BY <2>1, <2>2, HandsOn, OwesNames DEF Slot
<1> QED BY <1>1, <1>2, <1>3, <1>4, <1>5, <1>6, <1>7 DEF Progress

LEMMA DropAccounted ==
  ASSUME TypeOK, EffectsAccountedFor, NEW h \in Handlers, Drop(h)
  PROVE  EffectsAccountedFor'
<1>1. OthersKept(h) /\ req'[h].at = "idle"
  BY ReplySlot DEF Drop
<1>2. UNCHANGED <<status, tips, commissions>> /\ lost \subseteq lost'
  BY DEF Drop, ledgerVars
<1>3. /\ req[h].at \in OwesTip => <<"tip", req[h].ref>> \in lost'
      /\ req[h].at \in OwesCommission /\ req[h].ref \in Referred =>
           <<"commission", req[h].ref>> \in lost'
  BY DEF Drop
<1> QED BY <1>1, <1>2, <1>3, HandsOn

LEMMA AccountedStep ==
  TypeOK /\ EffectsAccountedFor /\ [Next]_vars => EffectsAccountedFor'
<1> SUFFICES ASSUME TypeOK, EffectsAccountedFor, [Next]_vars
             PROVE  EffectsAccountedFor'
  OBVIOUS
<1>1. CASE \E o \in Orders : Environment(o)
  BY <1>1
  DEF Environment, PayerPays, PayerCancels, PayerReturns, HourPasses,
      GatewayMoves, ledgerVars, effectVars, EffectsAccountedFor, Owes
<1>2. CASE UNCHANGED vars
  BY <1>2 DEF vars, ledgerVars, effectVars, EffectsAccountedFor, Owes
<1> QED BY <1>1, <1>2, BeginAccounted, ProgressAccounted, DropAccounted
        DEF Next

(* A completed payment has its tip and its commission, or a request about  *)
(* to add them, or a recorded failure: concurrency alone skips no effect.  *)
THEOREM EffectsAreAccountedFor == Spec => []EffectsAccountedFor
<1>1. Init => EffectsAccountedFor
  BY DEF Init, EffectsAccountedFor
<1> QED BY <1>1, TypeCorrect, AccountedStep, PTL DEF Spec
-----------------------------------------------------------------------------
(***************************************************************************)
(* The amount at the gateway, and what is credited of it.                 *)
(***************************************************************************)

(* The ledger and the gateway have the two roundings of one request.       *)
SameRequest(o) ==
  \E m \in Requests : /\ recorded[o] = RecordedCents(m)
                      /\ gwAmount[o] = OrderedCents(m, m \in FallsShort)

OrderedOfRequest == \A o \in Orders : gw[o] # "none" => SameRequest(o)

(* The row already has the amount that the order is about to be given.     *)
MatchInv ==
  /\ OrderedOfRequest
  /\ \A h \in Handlers : req[h].at = "gateway" =>
       /\ req[h].amount \in Requests
       /\ recorded[req[h].ref] = RecordedCents(req[h].amount)

LEMMA MatchKept ==
  ASSUME MatchInv, UNCHANGED <<recorded, gw, gwAmount>>, NEW h \in Handlers,
         OthersKept(h), req'[h].at # "gateway"
  PROVE  MatchInv'
  BY DEF MatchInv, OrderedOfRequest, SameRequest, OthersKept

LEMMA MatchInserted ==
  ASSUME TypeOK, SafetyInv, MatchInv, NEW h \in Handlers, NEW o \in Orders,
         NEW m \in Requests, CheckoutInsert(h, o, m)
  PROVE  MatchInv'
<1>1. o \in Refs /\ m \in Nat /\ 0 \in Nat
  BY PaymentsAssumption DEF Refs
<1>2. /\ req'[h] = [at |-> "gateway", ref |-> o, verdict |-> "none",
                    amount |-> m]
      /\ \A g \in Handlers \ {h} : req'[g] = req[g]
  BY <1>1, GoEffect, StageNames DEF CheckoutInsert
<1>3. /\ status[o] = "none" /\ status'[o] = "pending"
      /\ \A p \in Orders \ {o} : /\ status'[p] = status[p]
                                 /\ recorded'[p] = recorded[p]
      /\ recorded'[o] = RecordedCents(m)
      /\ UNCHANGED <<gw, gwAmount>>
  BY DEF CheckoutInsert, TypeOK, Refs, gatewayVars
<1>4. gw[o] = "none"
  BY <1>3 DEF SafetyInv, GatewayInv
<1>5. OrderedOfRequest'
  BY <1>3, <1>4 DEF MatchInv, OrderedOfRequest, SameRequest
<1>6. ASSUME NEW g \in Handlers \ {h}, req[g].at = "gateway"
      PROVE  req[g].ref \in Orders \ {o}
  BY <1>3, <1>6, RefTypes, StageNames DEF SafetyInv, RequestInv
<1> QED BY <1>2, <1>3, <1>5, <1>6 DEF MatchInv

LEMMA MatchOrdered ==
  ASSUME TypeOK, SafetyInv, MatchInv, NEW h \in Handlers, CheckoutCall(h)
  PROVE  MatchInv'
<1> DEFINE o == req[h].ref
           m == req[h].amount
<1>1. req[h].at = "gateway" /\ o \in Orders
  BY RefTypes, StageNames DEF CheckoutCall, CallFails, At
<1>2. m \in Requests /\ recorded[o] = RecordedCents(m)
  BY <1>1 DEF MatchInv
<1>3. /\ gwAmount'[o] = OrderedCents(m, m \in FallsShort)
      /\ \A p \in Orders \ {o} : gw'[p] = gw[p] /\ gwAmount'[p] = gwAmount[p]
      /\ UNCHANGED recorded
  BY <1>1 DEF CheckoutCall, CallFails, TypeOK, ledgerVars
<1>4. OthersKept(h) /\ req'[h].at \in {"idle", "payUrl"}
  BY AdvanceSlot, ReplySlot, StageNames DEF CheckoutCall, CallFails, Slot
<1>5. OrderedOfRequest'
  <2>1. ASSUME NEW p \in Orders, gw'[p] # "none" PROVE SameRequest(p)'
    <3>1. CASE p = o
      BY <1>2, <1>3, <3>1 DEF SameRequest
    <3>2. CASE p # o
      BY <1>3, <2>1, <3>2 DEF MatchInv, OrderedOfRequest, SameRequest
    <3> QED BY <3>1, <3>2
  <2> QED BY <2>1 DEF OrderedOfRequest
<1> QED BY <1>3, <1>4, <1>5 DEF MatchInv, OthersKept

LEMMA MatchStep ==
  TypeOK /\ SafetyInv /\ MatchInv /\ [Next]_vars => MatchInv'
<1> SUFFICES ASSUME TypeOK, SafetyInv, MatchInv, [Next]_vars PROVE MatchInv'
  OBVIOUS
<1>1. ASSUME NEW h \in Handlers, NEW o \in Orders,
             \/ ReconcileRead(h, o)
             \/ \E ts \in {"paid", "cancelled"} : Notify(h, o, ts)
      PROVE  MatchInv'
  <2>1. PICK stage \in {"query", "update"},
             v \in {"none", "failed", "completed"} :
          Go(h, stage, o, v, 0)
    BY <1>1 DEF ReconcileRead, Notify
  <2>2. OthersKept(h) /\ Slot(h, stage, o, v)
    <3>1. o \in Refs /\ 0 \in Nat
      BY DEF Refs
    <3> QED BY <2>1, <3>1, GoSlot, StageNames
  <2> QED BY <1>1, <2>2, MatchKept
          DEF Slot, ReconcileRead, Notify, ledgerVars, gatewayVars
<1>2. ASSUME NEW h \in Handlers, NEW c \in Charges, NEW m \in Requests,
             Charge(h, c, m)
      PROVE  MatchInv'
  <2>1. OthersKept(h) /\ Slot(h, "chargeCredit", c, "completed")
    <3>1. c \in Refs /\ 0 \in Nat
      BY DEF Refs
    <3> QED BY <1>2, <3>1, StageNames, GoSlot DEF Charge
  <2> QED BY <1>2, <2>1, MatchKept DEF Slot, Charge, gatewayVars
<1>3. ASSUME NEW h \in Handlers, Progress(h), ~CheckoutCall(h)
      PROVE  MatchInv'
  <2>1. UNCHANGED <<recorded, gw, gwAmount>>
    BY <1>3
    DEF Progress, CheckoutSavePayUrl, ReconcileQuery, CallFails, UpdateStatus, RecordTip,
        InsertTip, CreditReferrer, CreateTip, ledgerVars, gatewayVars
  <2>2. /\ req[h].at # "idle"
        /\ \/ Reply(h)
           \/ \E stage \in {"record", "insert", "credit", "createTip"} :
                Advance(h, stage)
           \/ \E v \in {"failed", "completed"} :
                Go(h, "update", req[h].ref, v, 0)
    BY <1>3
    DEF Progress, CheckoutSavePayUrl, ReconcileQuery, CallFails, UpdateStatus, RecordTip,
        InsertTip, CreditReferrer, CreateTip, Verdicts, At
  <2>3. OthersKept(h) /\ req'[h].at # "gateway"
    <3>1. req[h].ref \in Refs /\ 0 \in Nat
      BY <2>2, RefTypes
    <3> QED BY <2>2, <3>1, ReplySlot, AdvanceSlot, GoSlot, StageNames DEF Slot
  <2> QED BY <2>1, <2>3, MatchKept
<1>4. ASSUME NEW h \in Handlers, Drop(h) PROVE MatchInv'
  <2>1. OthersKept(h) /\ req'[h].at = "idle"
    BY <1>4, ReplySlot DEF Drop
  <2> QED BY <1>4, <2>1, MatchKept DEF Drop, ledgerVars, gatewayVars
<1>5. ASSUME NEW o \in Orders, Environment(o) PROVE MatchInv'
  <2>1. /\ UNCHANGED <<recorded, gwAmount, req>>
        /\ \A p \in Orders : gw[p] = "none" => gw'[p] = "none"
    BY <1>5
    DEF Environment, PayerPays, PayerCancels, PayerReturns, HourPasses,
        GatewayMoves, TypeOK, ledgerVars, gatewayVars
  <2> QED BY <2>1 DEF MatchInv, OrderedOfRequest, SameRequest
<1>6. CASE UNCHANGED vars
  BY <1>6
  DEF vars, ledgerVars, gatewayVars, MatchInv, OrderedOfRequest, SameRequest
<1> QED BY <1>1, <1>2, <1>3, <1>4, <1>5, <1>6, MatchInserted, MatchOrdered
        DEF Next, Begin, Progress

(* What the payer is asked for and what the ledger records of an order are *)
(* the two roundings of one and the same request, whatever else is served. *)
THEOREM OrdersStayOfRequests == Spec => []OrderedOfRequest
<1>1. Init => MatchInv
  BY DEF Init, MatchInv, OrderedOfRequest, Idle
<1>2. MatchInv => OrderedOfRequest
  BY DEF MatchInv
<1> QED BY <1>1, <1>2, MatchStep, TypeCorrect, Safety, PTL DEF Spec

(* Half cents that clients ask for fall the way the even rounding goes.    *)
HalfCentsFallEven ==
  \A m \in Requests : m % 10 = 5 => (m \in FallsShort <=> m % 20 = 5)

(* The converse of what the half-cent run finds: if clients ask for whole  *)
(* cents, or for half cents on which the two roundings happen to agree,    *)
(* the gateway is always asked for the recorded amount, so notify and      *)
(* reconcile refuse no payment because of its amount.                      *)
THEOREM RoundedAlikeMatches ==
  HalfCentsFallEven => (Spec => []WebhookCanMatch)
<1>1. SUFFICES ASSUME HalfCentsFallEven PROVE Spec => []WebhookCanMatch
  OBVIOUS
<1>2. OrderedOfRequest /\ SafetyInv => WebhookCanMatch
  <2>1. ASSUME NEW m \in Requests
        PROVE  RecordedCents(m) = OrderedCents(m, m \in FallsShort)
    <3> DEFINE short == m \in FallsShort
    <3>1. m \in Nat /\ short \in BOOLEAN
      BY PaymentsAssumption
    <3>2. m % 10 = 5 => (short <=> m % 20 = 5)
      BY <1>1 DEF HalfCentsFallEven
    <3> HIDE DEF short
    <3>3. RecordedCents(m) = OrderedCents(m, short)
      BY <3>1, <3>2, RoundingsAgree
    <3> QED BY <3>3 DEF short
  <2> QED BY <2>1
          DEF OrderedOfRequest, SameRequest, SafetyInv, GatewayInv,
              WebhookCanMatch
<1> QED BY <1>2, OrdersStayOfRequests, Safety, PTL

(* What the creator and the referrer are credited of an order, and what    *)
(* was collected for it, in cents.                                         *)
Credited(o, platformBp, serviceBp, commissionBp) ==
  (IF status[o] = "completed"
     THEN CreatorNet(recorded[o], platformBp, serviceBp) ELSE 0)
  + (IF o \in commissions THEN Portion(recorded[o], commissionBp) ELSE 0)

Collected(o) == IF gw[o] = "paid" THEN gwAmount[o] ELSE 0

(* The cent by which an order can be recorded higher than it was asked     *)
(* for, which is noticed only if messages carry the amount.                *)
Slack == IF MayOmitAmount THEN 1 ELSE 0

(* Nobody is credited money that was not collected: however webhook,       *)
(* polls and retries interleave and whatever is dropped, what an order     *)
(* brings its creator and the referrer together is covered by what its     *)
(* payer paid, as long as the commission rate is no higher than the        *)
(* platform's.  If messages may lack the amount, a half cent that falls    *)
(* short can be recorded a cent above what was paid, and that cent is the  *)
(* most the credits can exceed it by.                                      *)
THEOREM CreditsAreCollected ==
  ASSUME NEW platformBp \in Nat, NEW serviceBp \in Nat,
         NEW commissionBp \in Nat, commissionBp <= platformBp
  PROVE  Spec => [](\A o \in Orders :
                      Credited(o, platformBp, serviceBp, commissionBp)
                        <= Collected(o) + Slack)
<1> DEFINE Covered == \A o \in Orders :
                        Credited(o, platformBp, serviceBp, commissionBp)
                          <= Collected(o) + Slack
<1>1. TypeOK /\ SafetyInv /\ OrderedOfRequest => Covered
  <2> SUFFICES ASSUME TypeOK, SafetyInv, OrderedOfRequest, NEW o \in Orders
               PROVE  Credited(o, platformBp, serviceBp, commissionBp)
                        <= Collected(o) + Slack
    OBVIOUS
  <2> DEFINE net == CreatorNet(recorded[o], platformBp, serviceBp)
             share == Portion(recorded[o], commissionBp)
  <2>1. recorded[o] \in Nat /\ gwAmount[o] \in Nat
    BY DEF TypeOK
  <2>2. net + share <= recorded[o]
    BY <2>1, SharesAreCovered
  <2>3. share \in Nat
    BY <2>1, PortionNat
  <2>4. net \in Int
    <3>1. Portion(recorded[o], platformBp) \in Nat
      BY <2>1, PortionNat
    <3>2. Portion(recorded[o], serviceBp) \in Nat
      BY <2>1, PortionNat
    <3> QED BY <2>1, <3>1, <3>2 DEF CreatorNet
  <2>5. o \in commissions => status[o] = "completed"
    BY DEF SafetyInv, EffectsOnceAndEarned, Refs
  <2>6. CASE status[o] = "completed"
    <3>1. gw[o] = "paid"
      BY <2>6 DEF SafetyInv, CompletedWasPaid
    <3>2. recorded[o] <= gwAmount[o] + Slack
      <4>1. CASE ~MayOmitAmount
        BY <2>1, <2>6, <4>1 DEF SafetyInv, CompletedWasPaid, Slack
      <4>2. CASE MayOmitAmount
        <5>1. PICK m \in Requests :
                /\ recorded[o] = RecordedCents(m)
                /\ gwAmount[o] = OrderedCents(m, m \in FallsShort)
          BY <3>1 DEF OrderedOfRequest, SameRequest
        <5>2. m \in Nat /\ (m \in FallsShort) \in BOOLEAN
          BY PaymentsAssumption
        <5>3. RecordedCents(m) <= OrderedCents(m, m \in FallsShort) + 1
          BY <5>2, RoundingsAreClose
        <5> QED BY <4>2, <5>1, <5>3 DEF Slack
      <4> QED BY <4>1, <4>2
    <3>3. Slack \in Nat
      BY DEF Slack
    <3> HIDE DEF net, share
    <3>4. /\ net <= gwAmount[o] + Slack
          /\ net + share <= gwAmount[o] + Slack
      BY <2>1, <2>2, <2>3, <2>4, <3>2, <3>3
    <3> QED BY <2>1, <2>4, <2>6, <3>1, <3>4 DEF Credited, Collected, net, share
  <2>7. CASE status[o] # "completed"
    BY <2>1, <2>5, <2>7 DEF Credited, Collected, Slack
  <2> QED BY <2>6, <2>7
<1> HIDE DEF Covered
<1>2. Spec => []Covered
  BY <1>1, TypeCorrect, Safety, OrdersStayOfRequests, PTL
<1> QED BY <1>2 DEF Covered

-----------------------------------------------------------------------------
(***************************************************************************)
(* Why notify may act on what is no longer pending.                        *)
(***************************************************************************)

(* What one step does to the status of an order.                           *)
LEMMA StatusMoves ==
  ASSUME TypeOK, SafetyInv, [Next]_vars, NEW o \in Orders,
         status'[o] # status[o]
  PROVE  \/ status[o] = "none" /\ status'[o] = "pending"
         \/ \E h \in Handlers : /\ req[h].at = "update" /\ req[h].ref = o
                                /\ status[o] \in {"pending", "failed"}
                                /\ status'[o] = req[h].verdict
<1>1. o \in Refs /\ o \notin Charges
  BY PaymentsAssumption DEF Refs
<1>2. status \in [Refs -> {"none", "pending", "failed", "completed"}]
  BY DEF TypeOK
<1>3. ASSUME NEW h \in Handlers, NEW p \in Orders, NEW m \in Requests,
             CheckoutInsert(h, p, m)
      PROVE  status[o] = "none" /\ status'[o] = "pending"
  BY <1>1, <1>2, <1>3 DEF CheckoutInsert
<1>4. ASSUME NEW h \in Handlers, NEW c \in Charges, NEW m \in Requests,
             Charge(h, c, m)
      PROVE  FALSE
  BY <1>1, <1>2, <1>4 DEF Charge
<1>5. ASSUME NEW h \in Handlers, UpdateStatus(h)
      PROVE  /\ req[h].at = "update" /\ req[h].ref = o
             /\ status[o] \in {"pending", "failed"}
             /\ status'[o] = req[h].verdict
  <2>1. req[h].at = "update" /\ req[h].ref \in Orders
    BY <1>5, RefTypes, StageNames DEF UpdateStatus, At
  <2>2. status[req[h].ref] # "none"
    BY <2>1, StageNames DEF SafetyInv, RequestInv
  <2>3. /\ WhereNotCompleted(req[h].ref)
        /\ status' = [status EXCEPT ![req[h].ref] = req[h].verdict]
    BY <1>5 DEF UpdateStatus
  <2> QED BY <1>1, <1>2, <2>1, <2>2, <2>3 DEF WhereNotCompleted
<1>6. ASSUME \/ \E h \in Handlers, p \in Orders :
                  \/ ReconcileRead(h, p)
                  \/ \E ts \in {"paid", "cancelled"} : Notify(h, p, ts)
             \/ \E h \in Handlers :
                  \/ CheckoutCall(h) \/ CheckoutSavePayUrl(h)
                  \/ ReconcileQuery(h) \/ RecordTip(h) \/ InsertTip(h)
                  \/ CreditReferrer(h) \/ CreateTip(h) \/ Drop(h)
             \/ \E p \in Orders : Environment(p)
             \/ UNCHANGED vars
      PROVE  FALSE
  BY <1>6
  DEF ReconcileRead, Notify, CheckoutCall, CallFails, CheckoutSavePayUrl, ReconcileQuery,
      RecordTip, InsertTip, CreditReferrer, CreateTip, Drop, Environment,
      PayerPays, PayerCancels, PayerReturns, HourPasses, GatewayMoves,
      ledgerVars, vars
<1> QED BY <1>3, <1>4, <1>5, <1>6 DEF Next, Begin, Progress

(* A payment that was given up is taken up again for one reason only: it   *)
(* was paid after all.  That is what acting only on pending payments, as   *)
(* notify's comment has it, would lose, and nothing else would change.     *)
THEOREM GivenUpMovesWhenPaid ==
  Spec => [][\A o \in Orders :
               status[o] = "failed" /\ status'[o] # "failed"
                 => /\ status'[o] = "completed"
                    /\ gw[o] = "paid" /\ AmountAccepted(o)]_vars
<1> DEFINE TakenUp ==
      \A o \in Orders : status[o] = "failed" /\ status'[o] # "failed"
                          => /\ status'[o] = "completed"
                             /\ gw[o] = "paid" /\ AmountAccepted(o)
<1>1. TypeOK /\ SafetyInv /\ [Next]_vars => TakenUp
  <2> SUFFICES ASSUME TypeOK, SafetyInv, [Next]_vars, NEW o \in Orders,
                      status[o] = "failed", status'[o] # "failed"
               PROVE  /\ status'[o] = "completed"
                      /\ gw[o] = "paid" /\ AmountAccepted(o)
    OBVIOUS
  <2>1. PICK h \in Handlers : /\ req[h].at = "update" /\ req[h].ref = o
                              /\ status'[o] = req[h].verdict
    BY StatusMoves
  <2>2. req[h].verdict = "completed"
    BY <2>1, RefTypes
  <2> QED BY <2>1, <2>2 DEF SafetyInv, RequestInv
<1> HIDE DEF TakenUp
<1>2. Spec => [][TakenUp]_vars
  BY <1>1, TypeCorrect, Safety, PTL DEF Spec
<1> QED BY <1>2 DEF TakenUp
================================================================================
