-------------------------------- MODULE Ledger --------------------------------
(***************************************************************************)
(* The transactions and payouts of a creator as the dashboard shows them   *)
(* (TransactionsTab), over the tables of backend-rust/payments.            *)
(*                                                                         *)
(* The tab asks for three things at once - the newest transactions, the    *)
(* balance, the newest payouts - which are read at different moments, the  *)
(* balance in two statements.  The totals on top are summed up from the    *)
(* transactions listed; what is available and withdrawn is the balance's.  *)
(* What could not be read is shown as nothing.                             *)
(***************************************************************************)
EXTENDS Integers, Sequences, FiniteSets

CONSTANTS
  MaxTxns, MaxPayouts,  (* bounds: rows of the two tables                  *)
  RowLimit              (* the LIMIT of the two lists, 200                 *)

ASSUME LedgerAssumption ==
  MaxTxns \in Nat /\ MaxPayouts \in Nat /\ RowLimit \in Nat

VARIABLES
  txns,       (* how many transactions there are, numbered as they came    *)
  completed,  (* those that are completed, of one unit each                *)
  payouts,    (* the payouts as they came: amount, and whether it failed   *)
  withdrawn,  (* SUM(amount) over the payouts that did not fail            *)
  claims,     (* request_payout, as asked for in this tab and elsewhere:   *)
              (* where it is, and what it found, will insert or inserted   *)
  figures,    (* what the tab shows                                        *)
  loading,    (* the three are being asked for                             *)
  reads,      (* those answered so far                                     *)
  net,        (* what creator_balance summed up first                      *)
  confirmed,  (* the payouts this tab was told of                          *)
  moved,      (* history: the tables changed since the three were asked    *)
  unread      (* history: those of the three that failed                   *)

tables == <<txns, completed, payouts, withdrawn>>
tabVars == <<figures, loading, reads, net, confirmed, unread>>
ledgerVars == <<tables, claims, tabVars, moved>>

Requests == {"transactions", "balance", "payouts"}
Windows == {"here", "elsewhere"}
Idle == [at |-> "idle", value |-> 0]
NotSummed == -1

Earned == Cardinality(completed)

(* ORDER BY created_at DESC LIMIT: the newest of n rows.                   *)
NewestOf(n) == {i \in 1..n : i + RowLimit > n}

(* What the three answer if creator_balance summed up the given net.       *)
Answers(sum) ==
  [transactions |-> Cardinality(completed \cap NewestOf(txns)),
   balance |-> [available |-> sum - withdrawn, withdrawn |-> withdrawn],
   payouts |-> [p \in NewestOf(Len(payouts)) |-> payouts[p]]]

Nothing == [transactions |-> 0,
            balance |-> [available |-> 0, withdrawn |-> 0],
            payouts |-> [p \in {} |-> Idle]]
NoReads == [f \in {} |-> 0]

(* Skeletons while loading; no tab at all without a creator page.          *)
Shown == ~loading

LedgerInit == /\ txns = 0 /\ completed = {} /\ payouts = <<>> /\ withdrawn = 0
              /\ claims = [w \in Windows |-> Idle]
              /\ figures = Nothing
              /\ loading = TRUE /\ reads = NoReads /\ net = NotSummed
              /\ confirmed = {}
              /\ moved = FALSE /\ unread = {}
-----------------------------------------------------------------------------
(* checkout inserts a pending row, notify or reconcile completes it.       *)
CheckedOut == /\ txns < MaxTxns
              /\ txns' = txns + 1
              /\ moved' = TRUE
              /\ UNCHANGED <<completed, payouts, withdrawn, claims, tabVars>>

PaidFor(i) == /\ i \notin completed
              /\ completed' = completed \cup {i}
              /\ moved' = TRUE
              /\ UNCHANGED <<txns, payouts, withdrawn, claims, tabVars>>

(* charge and credit_referrer insert a completed row.                      *)
Credited == /\ txns < MaxTxns
            /\ txns' = txns + 1
            /\ completed' = completed \cup {txns + 1}
            /\ moved' = TRUE
            /\ UNCHANGED <<payouts, withdrawn, claims, tabVars>>

(* set_payout_status_internal: an admin fails a payout or takes it back.   *)
SetPayoutFailed(p) ==
  /\ payouts' = [payouts EXCEPT ![p].failed = ~@]
  /\ withdrawn' = IF payouts[p].failed THEN withdrawn + payouts[p].amount
                                       ELSE withdrawn - payouts[p].amount
  /\ moved' = TRUE
  /\ UNCHANGED <<txns, completed, claims, tabVars>>
-----------------------------------------------------------------------------
(* load: the requests are served in any order.  creator_balance sums up    *)
(* the transactions first and the payouts after them.                      *)
SumNet == /\ loading /\ net = NotSummed
          /\ net' = Earned
          /\ UNCHANGED <<tables, claims, figures, loading, reads, confirmed,
                         moved, unread>>

Answered(f, answer) ==
  /\ loading /\ f \notin DOMAIN reads
  /\ reads' = [g \in DOMAIN reads \cup {f} |->
                 IF g = f THEN answer ELSE reads[g]]
  /\ UNCHANGED <<tables, claims, figures, loading, net, confirmed, moved>>

ReadFigure(f) == /\ f = "balance" => net # NotSummed
                 /\ Answered(f, Answers(net)[f])
                 /\ UNCHANGED unread

(* A request that fails counts as nothing.                                 *)
FigureFails(f) == /\ Answered(f, Nothing[f])
                  /\ unread' = unread \cup {f}

(* All three have been answered.                                           *)
Load == /\ loading /\ DOMAIN reads = Requests
        /\ figures' = reads
        /\ loading' = FALSE
        /\ UNCHANGED <<tables, claims, reads, net, confirmed, moved, unread>>
-----------------------------------------------------------------------------
To(w, at, value) == claims' = [claims EXCEPT ![w] = [at |-> at, value |-> value]]

(* The button: enabled when something is available and nothing is asked.   *)
(* Another window of the creator has a button of its own.                  *)
PressPayout(w) == /\ w = "here" => Shown /\ figures.balance.available > 0
                  /\ claims[w] = Idle
                  /\ To(w, "asked", 0)
                  /\ UNCHANGED <<tables, tabVars, moved>>

(* request_payout, without an amount: two sums, ...                        *)
SumEarned(w) == /\ claims[w].at = "asked"
                /\ To(w, "summed", Earned)
                /\ UNCHANGED <<tables, tabVars, moved>>

(* ... the check that something is left, and what is left, ...             *)
CheckAvailable(w) ==
  /\ claims[w].at = "summed"
  /\ IF claims[w].value > withdrawn
       THEN To(w, "insert", claims[w].value - withdrawn)
       ELSE To(w, "idle", 0)
  /\ UNCHANGED <<tables, tabVars, moved>>

(* ... and the INSERT of it, whoever else inserted meanwhile.              *)
StorePayout(w) ==
  /\ claims[w].at = "insert"
  /\ Len(payouts) < MaxPayouts
  /\ payouts' = Append(payouts, [amount |-> claims[w].value, failed |-> FALSE])
  /\ withdrawn' = withdrawn + claims[w].value
  /\ To(w, "stored", Len(payouts) + 1)
  /\ moved' = TRUE
  /\ UNCHANGED <<txns, completed, tabVars>>

Confirm == /\ claims["here"].at = "stored"
           /\ To("here", "idle", 0)
           /\ confirmed' = confirmed \cup {claims["here"].value}

PayoutNotReloaded == \* mutant: the figures are not read again
  Confirm /\ UNCHANGED <<tables, figures, loading, reads, net, moved, unread>>

(* "Payout requested", and everything is read again.                       *)
PayoutAnswered == /\ Confirm
                  /\ loading' = TRUE /\ reads' = NoReads /\ net' = NotSummed
                  /\ moved' = FALSE /\ unread' = {}
                  /\ UNCHANGED <<tables, figures>>

(* Lost, on the way there or back; this tab says so and nothing else.  The *)
(* other window's answer is of no matter here.                             *)
PayoutFails(w) == /\ claims[w] # Idle
                  /\ To(w, "idle", 0)
                  /\ UNCHANGED <<tables, tabVars, moved>>

LedgerNext ==
  \/ CheckedOut \/ Credited \/ \E i \in 1..txns : PaidFor(i)
  \/ \E p \in 1..Len(payouts) : SetPayoutFailed(p)
  \/ SumNet \/ Load
  \/ \E f \in Requests : ReadFigure(f) \/ FigureFails(f)
  \/ \E w \in Windows : \/ PressPayout(w) \/ SumEarned(w) \/ CheckAvailable(w)
                        \/ StorePayout(w) \/ PayoutFails(w)
  \/ PayoutAnswered
-----------------------------------------------------------------------------
(* All three were read, and nothing moved since they were asked for.       *)
AtOneMoment == Shown /\ ~moved /\ unread = {}

(* The figures shown are those of the tables if nothing moved since they   *)
(* were asked for and all could be read; and the net total, summed up from *)
(* the list, then is what is available and withdrawn together, unless      *)
(* there are more transactions than the list has.  Whatever moved, a       *)
(* payout that this tab was told of is among the payouts listed, unless    *)
(* they could not be read or newer payouts took its place.                 *)
FiguresAgree ==
  /\ AtOneMoment =>
       /\ figures = Answers(Earned)
       /\ txns <= RowLimit =>
            figures.transactions =
              figures.balance.available + figures.balance.withdrawn
  /\ Shown /\ "payouts" \notin unread =>
       \A p \in confirmed : \/ p \in DOMAIN figures.payouts
                            \/ p + RowLimit <= Len(payouts)
===============================================================================
