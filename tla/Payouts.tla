------------------------------- MODULE Payouts -------------------------------
(***************************************************************************)
(* The balance of one creator in backend-rust/payments and its payouts:    *)
(* request_payout, the operator's set_payout_status_internal, and the      *)
(* completed transactions that the balance is the sum of.  Every query of  *)
(* these handlers selects by creator_id, so creators do not interact.      *)
(*                                                                         *)
(* request_payout is three autocommitted statements - the sum of what was  *)
(* earned, the sum of what was withdrawn, the INSERT - and other requests, *)
(* the operator and the webhook run between them.                          *)
(***************************************************************************)
EXTENDS Money, Integers, FiniteSets, FiniteSetsExt

CONSTANTS
  Handlers,   (* slots for payout requests being served at the same time   *)
  PayoutIds,  (* rows the payouts table may come to have                   *)
  Tipped,     (* amounts of tips to the creator, in cents                  *)
  Referrals,  (* amounts of tips to creators that this one referred        *)
  PlatformBp, ServiceBp, CommissionBp,   (* rates, in basis points         *)
  Asked,      (* amounts a creator asks for, in cents                      *)
  MaxEarned,  (* bound: what the creator may come to earn                  *)
  MaxRevived, (* bound: how many failed payouts the operator takes back    *)
  Everything  (* a request without an amount                               *)

(* Fees of all there is, or more, would leave the creator a negative net.  *)
ASSUME PayoutsAssumption ==
  /\ IsFiniteSet(Handlers)
  /\ Tipped \cup Referrals \subseteq Nat
  /\ PlatformBp \in Nat /\ ServiceBp \in Nat /\ CommissionBp \in Nat
  /\ PlatformBp + ServiceBp < 10000
  /\ Asked \subseteq Int
  /\ MaxEarned \in Nat
  /\ MaxRevived \in Nat
  /\ Everything \notin Int

VARIABLES
  earned,    (* sum of creator_net over the completed transactions         *)
  payouts,   (* the payouts table: status and amount by id                 *)
  revived,   (* history: how often a failed payout was taken back          *)
  req        (* where each payout request is, with its locals              *)

vars == <<earned, payouts, revived, req>>

PayoutStatuses == {"pending", "completed", "failed"}

Idle == [at |-> "idle", earned |-> 0, want |-> Everything, amount |-> 0]

Init == /\ earned = 0
        /\ payouts = [p \in PayoutIds |-> [status |-> "none", amount |-> 0]]
        /\ revived = 0
        /\ req = [h \in Handlers |-> Idle]

OnlySettled(p) == \* mutant: what is pending does not count
  payouts[p].status = "completed"
Counts(p) == payouts[p].status \in {"pending", "completed"}

(* SUM(amount) of the payouts that are not failed.                         *)
Total(ids) == MapThenSumSet(LAMBDA p : payouts[p].amount, ids)

Withdrawn == Total({p \in PayoutIds : Counts(p)})

At(h, stage) == req[h].at = stage
-----------------------------------------------------------------------------
(* request_payout's first SUM.                                             *)
ReadEarned(h, want) ==
  /\ At(h, "idle")
  /\ req' = [req EXCEPT ![h] = [Idle EXCEPT !.at = "earned",
                                            !.earned = earned,
                                            !.want = want]]
  /\ UNCHANGED <<earned, payouts, revived>>

(* Whether a request passes the two checks on its amount.                  *)
PositiveOnly(amount, available) == amount > 0 \* mutant: no limit
AffordableOnly(amount, available) == \* mutant: accepts nothing at all
  amount >= 0 /\ amount <= available
Admitted(amount, available) == amount > 0 /\ amount <= available

(* The second SUM and the checks on the amount.                            *)
ReadWithdrawn(h) ==
  LET available == req[h].earned - Withdrawn
      amount == IF req[h].want = Everything THEN available ELSE req[h].want
  IN  /\ At(h, "earned")
      /\ req' = IF Admitted(amount, available)
                  THEN [req EXCEPT ![h].at = "insert", ![h].amount = amount]
                  ELSE [req EXCEPT ![h] = Idle]
      /\ UNCHANGED <<earned, payouts, revived>>

(* The INSERT of a pending payout, on the strength of the two sums.        *)
InsertPayout(h, p) ==
  /\ At(h, "insert")
  /\ payouts[p].status = "none"
  /\ payouts' = [payouts EXCEPT ![p] = [status |-> "pending",
                                        amount |-> req[h].amount]]
  /\ req' = [req EXCEPT ![h] = Idle]
  /\ UNCHANGED <<earned, revived>>

(* The service restarts, a statement fails or the caller hangs up.         *)
Drop(h) == /\ ~At(h, "idle")
           /\ req' = [req EXCEPT ![h] = Idle]
           /\ UNCHANGED <<earned, payouts, revived>>

(* set_payout_status_internal: any status, whatever the payout's status is *)
(* now.  Which moves the operator asks for is not the service's choice.    *)
SetPayoutStatus(p, s) ==
  LET revives == payouts[p].status = "failed" /\ s # "failed"
  IN  /\ payouts[p].status # "none"
      /\ revives => revived < MaxRevived
      /\ payouts' = [payouts EXCEPT ![p].status = s]
      /\ revived' = IF revives THEN revived + 1 ELSE revived
      /\ UNCHANGED <<earned, req>>

Earn(net) == /\ earned + net <= MaxEarned
             /\ earned' = earned + net
             /\ UNCHANGED <<payouts, revived, req>>

(* A tip to the creator is completed, or one to a creator they referred.   *)
TipCompleted == \E t \in Tipped : Earn(CreatorNet(t, PlatformBp, ServiceBp))

CommissionCredited == \E t \in Referrals : Earn(Portion(t, CommissionBp))

Serve(h) == \/ \E want \in Asked \cup {Everything} : ReadEarned(h, want)
            \/ ReadWithdrawn(h)
            \/ \E p \in PayoutIds : InsertPayout(h, p)
            \/ Drop(h)

Next == \/ \E h \in Handlers : Serve(h)
        \/ \E p \in PayoutIds, s \in PayoutStatuses : SetPayoutStatus(p, s)
        \/ TipCompleted
        \/ CommissionCredited

Spec == Init /\ [][Next]_vars
-----------------------------------------------------------------------------
(* The type of every variable: what is inserted is a positive amount.      *)
TypeOK ==
  /\ earned \in 0..MaxEarned
  /\ payouts \in [PayoutIds -> [status : PayoutStatuses \cup {"none"},
                                amount : 0..MaxEarned]]
  /\ \A p \in PayoutIds : payouts[p].status # "none" => payouts[p].amount > 0
  /\ revived \in 0..MaxRevived
  /\ req \in [Handlers -> [at : {"idle", "earned", "insert"},
                           earned : 0..MaxEarned,
                           want : Asked \cup {Everything},
                           amount : 0..MaxEarned]]

NotFailed == {p \in PayoutIds : payouts[p].status \in {"pending", "completed"}}

(* "Records a ledger entry (prevents over-withdrawal)": a creator does not *)
(* withdraw more than what was earned.                                     *)
NeverOverdrawn == Total(NotFailed) <= earned

(* How far it can be exceeded: once for each further request served at the *)
(* same time, and once for each failed payout that the operator takes back *)
(* after its amount was requested again.  With one request at a time and   *)
(* failures left alone, this is NeverOverdrawn.                            *)
OverdraftExplained ==
  Total(NotFailed) <= (Cardinality(Handlers) + revived) * earned
==============================================================================
