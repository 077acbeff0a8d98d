------------------------------- MODULE TipPage -------------------------------
(***************************************************************************)
(* The page a tip is given on (app/tip/[slug]/page.tsx of frontend-next):  *)
(* the creator, the jar and the exclusive posts are loaded side by side,   *)
(* the fees of the amount are asked for 300 ms after it was typed, and     *)
(* Pay leaves for the gateway.                                             *)
(***************************************************************************)
EXTENDS Naturals

CONSTANTS
  Amounts,    (* amounts chosen or typed, in rand                          *)
  MaxAmounts  (* bound: times the amount is changed                        *)

ASSUME TipPageAssumption == Amounts \subseteq Nat /\ MaxAmounts \in Nat

VARIABLES
  creator,    (* "loading", "absent", "unfinished" or "ready"              *)
  jar,        (* the jar of the link: "none", "asked", "named" or "counted" *)
  amount,     (* the amount shown                                          *)
  quote,      (* the amount whose fees are shown, or NoQuote               *)
  quoting,    (* quotes waiting or under way, and whether still wanted     *)
  changes,    (* changes of the amount so far                              *)
  paying,     (* what Pay sent, and how far it is                          *)
  orders      (* the amounts of the orders made                            *)

tipPageVars == <<creator, jar, amount, quote, quoting, changes, paying, orders>>

MinTip == 10
NoQuote == 0
NoPay == [at |-> "none"]

(* A quote is asked for on the amount the page opens with, too.            *)
Quoting(a, n) == IF a < MinTip THEN {} ELSE {[of |-> a, n |-> n, alive |-> TRUE]}

TipPageInit == /\ creator = "loading" /\ jar \in {"none", "asked"}
               /\ amount = 20 /\ quote = NoQuote
               /\ quoting = Quoting(20, 0) /\ changes = 0
               /\ paying = NoPay /\ orders = {}
-----------------------------------------------------------------------------
(* Not found; or found, without or with what it needs to take tips.        *)
Views == {"absent", "unfinished", "ready"}

CreatorLoaded == /\ creator = "loading"
                 /\ creator' \in Views
                 /\ UNCHANGED <<jar, amount, quote, quoting, changes, paying, orders>>

(* The jar, and then what it has raised.                                   *)
JarLoaded == /\ \/ jar = "asked" /\ jar' \in {"none", "named"}
                \/ jar = "named" /\ jar' = "counted"
             /\ UNCHANGED <<creator, amount, quote, quoting, changes, paying, orders>>

Form == creator = "ready" /\ paying.at # "left"

JarNamed == jar \in {"named", "counted"}

(* A preset, or a number typed.                                            *)
Offered == Amounts \ {amount}

(* The quotes of other amounts are no longer  *)
(* wanted, and what they said stays until the new one is answered.         *)
ChangeAmount ==
  /\ Form /\ changes < MaxAmounts
  /\ changes' = changes + 1
  /\ amount' \in Offered
  /\ quoting' = {[q EXCEPT !.alive = FALSE] : q \in quoting} \cup Quoting(amount', changes')
  /\ quote' = IF amount' < MinTip THEN NoQuote ELSE quote
  /\ UNCHANGED <<creator, jar, paying, orders>>

QuoteWhoever(q) == \* mutant: every answer is shown
  /\ quoting' = quoting \ {q}
  /\ quote' \in {q.of, NoQuote}
  /\ UNCHANGED <<creator, jar, amount, changes, paying, orders>>

QuoteAnswered(q) ==
  /\ quoting' = quoting \ {q}
  /\ IF q.alive THEN quote' \in {q.of, NoQuote} ELSE quote' = quote
  /\ UNCHANGED <<creator, jar, amount, changes, paying, orders>>

CanPay == Form /\ paying = NoPay /\ amount >= MinTip

Pay == /\ CanPay
       /\ paying' = [at |-> "asked", amount |-> amount, jar |-> JarNamed]
       /\ UNCHANGED <<creator, jar, amount, quote, quoting, changes, orders>>

(* checkout (Payments.tla).                                                *)
Checkout == /\ paying.at = "asked"
            /\ paying' = [paying EXCEPT !.at = "ordered"]
            /\ orders' = orders \cup {paying.amount}
            /\ UNCHANGED <<creator, jar, amount, quote, quoting, changes>>

ToGateway == /\ paying.at = "ordered"
             /\ paying' = [at |-> "left"]
             /\ UNCHANGED <<creator, jar, amount, quote, quoting, changes, orders>>

PayFails == /\ paying.at \in {"asked", "ordered"}
            /\ paying' = NoPay
            /\ UNCHANGED <<creator, jar, amount, quote, quoting, changes, orders>>

TipPageNext == \/ CreatorLoaded \/ JarLoaded \/ ChangeAmount
               \/ \E q \in quoting : QuoteAnswered(q)
               \/ Pay \/ Checkout \/ ToGateway \/ PayFails
-----------------------------------------------------------------------------
(* The amount whose fees the slip shows.                                   *)
Slip == IF amount >= MinTip THEN quote ELSE NoQuote

(* Once no quote of this amount is awaited, the fees shown are the fees of *)
(* the amount that Pay takes, or none: in whatever order quotes are        *)
(* answered, those of an earlier amount do not come back.                  *)
QuoteIsOfAmount ==
  (\A q \in quoting : ~q.alive) => Slip \in {amount, NoQuote}
===============================================================================
