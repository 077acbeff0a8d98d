-------------------------------- MODULE Money --------------------------------
(***************************************************************************)
(* The arithmetic of backend-rust/payments: how a request amount becomes   *)
(* an amount of the ledger and an amount of the payment gateway, and how a *)
(* ledger amount is divided into fees, the creator's net and a referral    *)
(* commission.                                                             *)
(*                                                                         *)
(* Ledger amounts are in cents (NUMERIC(12,2)).  An amount of a request is *)
(* a binary float that need not be whole cents: it is in mills (tenths of  *)
(* a cent) here, so that the ties on which the two roundings differ are    *)
(* representable.  Percentages are in basis points.                        *)
(***************************************************************************)
EXTENDS Naturals

(* rust_decimal's round_dp: a tie goes to the even neighbour.              *)
RoundHalfEven(x, unit) ==
  LET down == x \div unit
      rest == 2 * (x % unit)
  IN  IF rest > unit \/ (rest = unit /\ down % 2 = 1) THEN down + 1 ELSE down

(* f64::round: a tie goes away from zero.                                  *)
RoundHalfUp(x, unit) ==
  LET down == x \div unit
  IN  IF 2 * (x % unit) >= unit THEN down + 1 ELSE down

(* parse_amount: the cents the ledger records for a request of m mills.    *)
RecordedCents(m) == RoundHalfEven(m, 10)

(* amount_2dp: the cents the gateway is asked to collect for the same m.   *)
(* It multiplies the binary float by 100 and rounds the product half up.   *)
(* Few half cents are binary floats, so their product may be the half cent *)
(* itself (10.125) or fall short of it (16.115, whose product is           *)
(* 1611.4999...), and is then rounded down; off the half cents the error   *)
(* of the product is too small to matter.                                  *)
OrderedCents(m, fallsShort) ==
  IF fallsShort /\ m % 10 = 5 THEN m \div 10 ELSE RoundHalfUp(m, 10)

(* A percentage of an amount, as calc_fees and credit_referrer take it.    *)
Portion(cents, bp) == RoundHalfEven(cents * bp, 10000)

(* calc_fees: two independently rounded fees, the rest is the creator's.   *)
CreatorNet(cents, platformBp, serviceBp) ==
  cents - Portion(cents, platformBp) - Portion(cents, serviceBp)
==============================================================================
