----------------------------- MODULE MoneyProofs -----------------------------
(***************************************************************************)
(* Proofs about the arithmetic of module Money, for every amount and rate. *)
(***************************************************************************)
EXTENDS Money, TLAPS

(* parse_amount and amount_2dp agree on an amount exactly if it is not a   *)
(* half cent, or is one that the product of amount_2dp takes the way the   *)
(* even rounding of parse_amount does: short of it on top of even cents,   *)
(* not short of it on top of odd ones.                                     *)
THEOREM RoundingsAgree ==
  ASSUME NEW m \in Nat, NEW fallsShort \in BOOLEAN
  PROVE  RecordedCents(m) = OrderedCents(m, fallsShort)
           <=> (m % 10 = 5 => (fallsShort <=> m % 20 = 5))
<1>1. CASE fallsShort
  BY <1>1, SMT DEF RecordedCents, OrderedCents, RoundHalfEven, RoundHalfUp
<1>2. CASE ~fallsShort
  BY <1>2, SMT DEF RecordedCents, OrderedCents, RoundHalfEven, RoundHalfUp
<1> QED BY <1>1, <1>2

(* Where they differ it is by one cent: the gateway is asked for more than *)
(* is recorded on a half cent on top of even cents, and for less on one on *)
(* top of odd cents whose product falls short.                             *)
THEOREM RoundingsDiffer ==
  ASSUME NEW m \in Nat, NEW fallsShort \in BOOLEAN
  PROVE  /\ m % 20 = 5 /\ ~fallsShort =>
              OrderedCents(m, fallsShort) = RecordedCents(m) + 1
         /\ m % 20 = 15 /\ fallsShort =>
              RecordedCents(m) = OrderedCents(m, fallsShort) + 1
  BY SMT DEF RecordedCents, OrderedCents, RoundHalfEven, RoundHalfUp

(* However a product falls, the two are never further apart than a cent.   *)
LEMMA RoundingsAreClose ==
  ASSUME NEW m \in Nat, NEW fallsShort \in BOOLEAN
  PROVE  /\ RecordedCents(m) <= OrderedCents(m, fallsShort) + 1
         /\ OrderedCents(m, fallsShort) <= RecordedCents(m) + 1
  BY SMT DEF RecordedCents, OrderedCents, RoundHalfEven, RoundHalfUp

(* Rounding to whole cents preserves the order of the amounts.             *)
LEMMA RoundHalfEvenMonotone ==
  ASSUME NEW x \in Nat, NEW y \in Nat, x <= y
  PROVE  RoundHalfEven(x, 10000) <= RoundHalfEven(y, 10000)
  BY SMT DEF RoundHalfEven

LEMMA RoundHalfEvenNat ==
  ASSUME NEW x \in Nat
  PROVE  RoundHalfEven(x, 10000) \in Nat
  BY SMT DEF RoundHalfEven

(* What the creator and the referrer of one tip are credited together is   *)
(* covered by the tip, as long as the commission rate is no higher than    *)
(* one of the two fees: the independent rounding of calc_fees and          *)
(* credit_referrer never pays out a cent more than was collected.          *)
THEOREM SharesAreCovered ==
  ASSUME NEW cents \in Nat, NEW platformBp \in Nat, NEW serviceBp \in Nat,
         NEW commissionBp \in Nat, commissionBp <= platformBp
  PROVE  CreatorNet(cents, platformBp, serviceBp)
           + Portion(cents, commissionBp) <= cents
<1>1. cents * commissionBp <= cents * platformBp
  BY Z3
<1>2. /\ cents * commissionBp \in Nat
      /\ cents * platformBp \in Nat
      /\ cents * serviceBp \in Nat
  BY Z3
<1> DEFINE c == cents * commissionBp
           p == cents * platformBp
           s == cents * serviceBp
<1>3. /\ RoundHalfEven(c, 10000) <= RoundHalfEven(p, 10000)
      /\ RoundHalfEven(c, 10000) \in Nat
      /\ RoundHalfEven(p, 10000) \in Nat
      /\ RoundHalfEven(s, 10000) \in Nat
  BY <1>1, <1>2, RoundHalfEvenMonotone, RoundHalfEvenNat
<1> QED BY <1>3 DEF CreatorNet, Portion


(* Rounding moves an amount by half a unit at most.                        *)
LEMMA RoundHalfEvenClose ==
  ASSUME NEW x \in Nat
  PROVE  20000 * RoundHalfEven(x, 10000) <= 2 * x + 10000
  BY SMT DEF RoundHalfEven

LEMMA PortionNat ==
  ASSUME NEW cents \in Nat, NEW bp \in Nat
  PROVE  Portion(cents, bp) \in Nat
<1>1. cents * bp \in Nat
  BY Z3
<1> DEFINE x == cents * bp
<1>2. RoundHalfEven(x, 10000) \in Nat
  <2> HIDE DEF x
  <2>1. x \in Nat
    BY <1>1 DEF x
  <2> QED BY <2>1, RoundHalfEvenNat
<1> QED BY <1>2 DEF Portion

(* However the two fees of a tip round, they leave the creator nothing     *)
(* less than zero, as long as the two rates are less than all of it.       *)
THEOREM NetIsNatural ==
  ASSUME NEW cents \in Nat, NEW platformBp \in Nat, NEW serviceBp \in Nat,
         platformBp + serviceBp < 10000
  PROVE  CreatorNet(cents, platformBp, serviceBp) \in Nat
<1>1. Portion(cents, platformBp) \in Nat
  BY PortionNat
<1>2. Portion(cents, serviceBp) \in Nat
  BY PortionNat
<1> DEFINE p == Portion(cents, platformBp)
           s == Portion(cents, serviceBp)
           x == cents * platformBp
           y == cents * serviceBp
<1>3. p \in Nat /\ s \in Nat
  BY <1>1, <1>2
<1>4. x \in Nat /\ y \in Nat
  BY Z3
<1>5. 20000 * p <= 2 * x + 10000 /\ 20000 * s <= 2 * y + 10000
  <2>1. p = RoundHalfEven(x, 10000) /\ s = RoundHalfEven(y, 10000)
    BY DEF Portion
  <2> HIDE DEF p, s, x, y
  <2> QED BY <1>4, <2>1, RoundHalfEvenClose
<1>6. cents = 0 \/ x + y < 10000 * cents
  <2>1. x + y = cents * (platformBp + serviceBp)
    BY Z3
  <2> DEFINE b == platformBp + serviceBp
  <2>2. b \in Nat /\ b < 10000 /\ x + y = cents * b
    BY <2>1
  <2> HIDE DEF b, x, y
  <2>3. cents = 0 \/ cents * b < cents * 10000
    BY <2>2, Z3
  <2> QED BY <2>2, <2>3
<1>7. cents = 0 => x = 0 /\ y = 0
  BY Z3
<1> HIDE DEF p, s, x, y
<1>8. cents - p - s \in Nat
  <2>1. CASE cents = 0
    BY <1>3, <1>5, <1>7, <2>1
  <2>2. CASE x + y < 10000 * cents
    <3>1. 20000 * (p + s) < 20000 * (cents + 1)
      BY <1>3, <1>4, <1>5, <2>2
    <3> QED BY <1>3, <3>1
  <2> QED BY <1>6, <2>1, <2>2
<1> QED BY <1>8 DEF CreatorNet, p, s
================================================================================
