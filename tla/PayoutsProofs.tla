---------------------------- MODULE PayoutsProofs ----------------------------
(***************************************************************************)
(* Proofs about module Payouts, for any number of requests and rows.       *)
(***************************************************************************)
EXTENDS Payouts, MoneyProofs, FiniteSetTheorems, TLAPS

-----------------------------------------------------------------------------
(* Sums of amounts.  The recursion inside MapThenSumSet is solved by a     *)
(* count: an amount of n is n units, a sum is the cardinality of a set of  *)
(* units, and what the library proves of cardinalities holds of sums.      *)

Amounts(r, S) == MapThenSumSet(LAMBDA x : r[x].amount, S)

Units(r, S) == {u \in S \X (Nat \ {0}) : u[2] <= r[u[1]].amount}

(* Where some subset has a property, a smallest one does: this takes the   *)
(* place of induction over finite sets.                                    *)
LEMMA SmallestSet ==
  ASSUME NEW S, IsFiniteSet(S), NEW B, B \subseteq SUBSET S, B # {}
  PROVE  \E m \in B : \A t \in B : t \subseteq m => t = m
<1>1. /\ IsWellFoundedOn(StrictSubsetOrdering(S), FiniteSubsetsOf(S))
      /\ FiniteSubsetsOf(S) = SUBSET S
  BY FS_StrictSubsetOrderingWellFounded, FS_FiniteSubsetsOfFinite
<1>2. PICK m \in B : \A t \in B : <<t, m>> \notin StrictSubsetOrdering(S)
  BY <1>1, WFMin
<1> QED BY <1>2 DEF StrictSubsetOrdering

(* The units of a set are those of one element and those of the rest.      *)
LEMMA UnitsOfOne ==
  ASSUME NEW r, NEW S, NEW x \in S, r[x].amount \in Nat
  PROVE  /\ Units(r, S)
              = Units(r, S \ {x}) \cup ({x} \X (1..r[x].amount))
         /\ Units(r, S \ {x}) \cap ({x} \X (1..r[x].amount)) = {}
         /\ IsFiniteSet({x} \X (1..r[x].amount))
         /\ Cardinality({x} \X (1..r[x].amount)) = r[x].amount
<1> DEFINE n == r[x].amount
<1>1. Units(r, S \ {x}) \cap ({x} \X (1..n)) = {}
  BY DEF Units
<1>2. Units(r, S) \subseteq Units(r, S \ {x}) \cup ({x} \X (1..n))
  BY DEF Units
<1>3. Units(r, S \ {x}) \subseteq Units(r, S)
  BY DEF Units
<1>4. {x} \X (1..n) \subseteq Units(r, S)
  BY DEF Units
<1>5. /\ IsFiniteSet({x}) /\ Cardinality({x}) = 1
      /\ IsFiniteSet(1..n) /\ Cardinality(1..n) = n
  <2> HIDE DEF n
  <2>1. n \in Nat
    BY DEF n
  <2>2. IsFiniteSet(1..n) /\ Cardinality(1..n) = IF 1 > n THEN 0 ELSE n - 1 + 1
    BY <2>1, FS_Interval
  <2>3. IsFiniteSet({x}) /\ Cardinality({x}) = 1
    BY FS_Singleton
  <2> QED BY <2>1, <2>2, <2>3
<1>6. /\ IsFiniteSet({x} \X (1..n))
      /\ Cardinality({x} \X (1..n)) = 1 * n
  BY <1>5, FS_Product
<1>7. n \in Nat
  OBVIOUS
<1>8. Units(r, S) = Units(r, S \ {x}) \cup ({x} \X (1..n))
  BY <1>2, <1>3, <1>4
<1>9. Cardinality({x} \X (1..n)) = n
  <2> HIDE DEF n
  <2> QED BY <1>6, <1>7
<1> QED BY <1>1, <1>6, <1>8, <1>9

LEMMA UnitsFinite ==
  ASSUME NEW r, NEW S, IsFiniteSet(S), \A x \in S : r[x].amount \in Nat
  PROVE  IsFiniteSet(Units(r, S))
<1> DEFINE B == {t \in SUBSET S : ~IsFiniteSet(Units(r, t))}
<1> SUFFICES ASSUME B # {} PROVE FALSE
  OBVIOUS
<1>1. PICK m \in B : \A t \in B : t \subseteq m => t = m
  <2>1. B \subseteq SUBSET S /\ B # {}
    OBVIOUS
  <2> HIDE DEF B
  <2> QED BY <2>1, SmallestSet
<1>2. CASE m = {}
  <2>1. Units(r, m) = {}
    BY <1>2 DEF Units
  <2> QED BY <2>1, FS_EmptySet
<1>3. CASE m # {}
  <2>1. PICK x \in m : TRUE
    BY <1>3
  <2>2. r[x].amount \in Nat
    BY <2>1
  <2>3. IsFiniteSet(Units(r, m \ {x}))
    BY <1>1, <2>1
  <2> DEFINE one == {x} \X (1..r[x].amount)
  <2>4. Units(r, m) = Units(r, m \ {x}) \cup one /\ IsFiniteSet(one)
    BY <2>1, <2>2, UnitsOfOne
  <2> HIDE DEF one
  <2>5. IsFiniteSet(Units(r, m))
    BY <2>3, <2>4, FS_Union
  <2> QED BY <2>5
<1> QED BY <1>2, <1>3

(* One element of a sum, and the rest.                                     *)
LEMMA UnitsAdd ==
  ASSUME NEW r, NEW S, IsFiniteSet(S), \A x \in S : r[x].amount \in Nat,
         NEW x \in S
  PROVE  Cardinality(Units(r, S))
           = r[x].amount + Cardinality(Units(r, S \ {x}))
<1>1. IsFiniteSet(S \ {x}) /\ r[x].amount \in Nat
  BY FS_RemoveElement
<1>2. IsFiniteSet(Units(r, S \ {x}))
  BY <1>1, UnitsFinite
<1> DEFINE rest == Units(r, S \ {x})
           one == {x} \X (1..r[x].amount)
<1>3. /\ Units(r, S) = rest \cup one /\ rest \cap one = {}
      /\ IsFiniteSet(one) /\ Cardinality(one) = r[x].amount
  BY <1>1, UnitsOfOne
<1>4. Cardinality(rest) \in Nat
  BY <1>2, FS_CardinalityType
<1>5. Cardinality(Units(r, S))
        = Cardinality(rest) + Cardinality(one) - Cardinality({})
  BY <1>2, <1>3, FS_Union
<1> HIDE DEF rest, one
<1>6. Cardinality(Units(r, S)) = r[x].amount + Cardinality(rest)
  BY <1>1, <1>3, <1>4, <1>5, FS_EmptySet
<1> QED BY <1>6 DEF rest

(* The recursion of MapThenSumSet, as an equation of functions.            *)
Sums(g, r, S) ==
  g = [s \in SUBSET S |->
         IF s = {} THEN 0
                   ELSE LET x == CHOOSE y \in s : TRUE
                        IN  r[x].amount + g[s \ {x}]]

LEMMA CountSums ==
  ASSUME NEW r, NEW S, IsFiniteSet(S), \A x \in S : r[x].amount \in Nat
  PROVE  Sums([s \in SUBSET S |-> Cardinality(Units(r, s))], r, S)
<1> DEFINE g == [s \in SUBSET S |-> Cardinality(Units(r, s))]
<1>1. ASSUME NEW s \in SUBSET S, s # {}
      PROVE  LET x == CHOOSE y \in s : TRUE
             IN  g[s] = r[x].amount + g[s \ {x}]
  <2> DEFINE x == CHOOSE y \in s : TRUE
  <2>1. x \in s
    BY <1>1
  <2> HIDE DEF x
  <2>2. IsFiniteSet(s)
    BY FS_Subset
  <2>3. \A y \in s : r[y].amount \in Nat
    OBVIOUS
  <2>4. Cardinality(Units(r, s)) = r[x].amount + Cardinality(Units(r, s \ {x}))
    BY <2>1, <2>2, <2>3, UnitsAdd
  <2>5. g[s] = r[x].amount + g[s \ {x}]
    BY <2>4
  <2> QED BY <2>5 DEF x
<1>2. g[{}] = 0
  <2>1. Units(r, {}) = {}
    BY DEF Units
  <2> QED BY <2>1, FS_EmptySet
<1>3. g \in [SUBSET S -> {g[s] : s \in SUBSET S}]
  OBVIOUS
<1> HIDE DEF g
<1>4. Sums(g, r, S)
  BY <1>1, <1>2, <1>3 DEF Sums
<1> QED BY <1>4 DEF g

LEMMA SumsUnique ==
  ASSUME NEW r, NEW S, IsFiniteSet(S), NEW g, Sums(g, r, S),
         NEW k, Sums(k, r, S)
  PROVE  k = g
<1> DEFINE B == {s \in SUBSET S : k[s] # g[s]}
<1>1. CASE B = {}
  <2>1. \A s \in SUBSET S : k[s] = g[s]
    BY <1>1
  <2> QED BY <2>1 DEF Sums
<1>2. CASE B # {}
  <2>1. PICK m \in B : \A t \in B : t \subseteq m => t = m
    <3>1. B \subseteq SUBSET S
      OBVIOUS
    <3> HIDE DEF B
    <3> QED BY <1>2, <3>1, SmallestSet
  <2>2. CASE m = {}
    BY <2>2 DEF Sums
  <2>3. CASE m # {}
    <3> DEFINE x == CHOOSE y \in m : TRUE
    <3>1. x \in m
      BY <2>3
    <3>2. m \ {x} \in SUBSET S /\ m \ {x} \notin B
      BY <2>1, <3>1
    <3>3. k[m \ {x}] = g[m \ {x}]
      BY <3>2
    <3>4. /\ k[m] = r[x].amount + k[m \ {x}]
          /\ g[m] = r[x].amount + g[m \ {x}]
      BY <2>3 DEF Sums
    <3> QED BY <3>3, <3>4
  <2> QED BY <2>2, <2>3
<1> QED BY <1>1, <1>2

LEMMA AmountsAreUnits ==
  ASSUME NEW r, NEW S, IsFiniteSet(S), \A x \in S : r[x].amount \in Nat
  PROVE  Amounts(r, S) = Cardinality(Units(r, S))
<1> DEFINE g == [s \in SUBSET S |-> Cardinality(Units(r, s))]
<1>1. Sums(g, r, S)
  BY CountSums
<1>2. \A k : Sums(k, r, S) => k = g
  BY <1>1, SumsUnique
<1>3. g[S] = Cardinality(Units(r, S))
  OBVIOUS
<1> HIDE DEF g
<1>4. Amounts(r, S) = (CHOOSE k : Sums(k, r, S))[S]
  BY DEF Amounts, MapThenSumSet, MapThenFoldSet, Sums
<1>5. (CHOOSE k : Sums(k, r, S)) = g
  BY <1>1, <1>2
<1> QED BY <1>3, <1>4, <1>5


(* What the sums of the service are like: natural, nothing for no rows,    *)
(* one row and the rest, and the same for the same amounts.                *)
LEMMA AmountsNat ==
  ASSUME NEW r, NEW S, IsFiniteSet(S), \A x \in S : r[x].amount \in Nat
  PROVE  Amounts(r, S) \in Nat
BY AmountsAreUnits, UnitsFinite, FS_CardinalityType

LEMMA AmountsEmpty ==
  ASSUME NEW r
  PROVE  Amounts(r, {}) = 0
<1>1. Units(r, {}) = {}
  BY DEF Units
<1>2. Amounts(r, {}) = Cardinality(Units(r, {}))
  BY FS_EmptySet, AmountsAreUnits
<1> QED BY <1>1, <1>2, FS_EmptySet

LEMMA AmountsRemove ==
  ASSUME NEW r, NEW S, IsFiniteSet(S), \A x \in S : r[x].amount \in Nat,
         NEW x \in S
  PROVE  Amounts(r, S) = r[x].amount + Amounts(r, S \ {x})
<1>1. IsFiniteSet(S \ {x})
  BY FS_RemoveElement
<1>2. Amounts(r, S \ {x}) = Cardinality(Units(r, S \ {x}))
  BY <1>1, AmountsAreUnits
<1> QED BY <1>2, AmountsAreUnits, UnitsAdd

LEMMA AmountsSame ==
  ASSUME NEW r, NEW q, NEW S, IsFiniteSet(S),
         \A x \in S : r[x].amount \in Nat,
         \A x \in S : q[x].amount = r[x].amount
  PROVE  Amounts(q, S) = Amounts(r, S)
<1>1. Units(q, S) = Units(r, S)
  BY DEF Units
<1>2. \A x \in S : q[x].amount \in Nat
  OBVIOUS
<1> QED BY <1>1, <1>2, AmountsAreUnits

(* Fewer rows sum to no more.                                              *)
LEMMA AmountsMonotone ==
  ASSUME NEW r, NEW S, IsFiniteSet(S), \A x \in S : r[x].amount \in Nat,
         NEW T, T \subseteq S
  PROVE  Amounts(r, T) <= Amounts(r, S)
<1>1. IsFiniteSet(T)
  BY FS_Subset
<1>2. Amounts(r, T) = Cardinality(Units(r, T))
  BY <1>1, AmountsAreUnits
<1>3. Amounts(r, S) = Cardinality(Units(r, S)) /\ IsFiniteSet(Units(r, S))
  BY AmountsAreUnits, UnitsFinite
<1>4. Units(r, T) \subseteq Units(r, S)
  BY DEF Units
<1>5. Cardinality(Units(r, T)) <= Cardinality(Units(r, S))
  BY <1>3, <1>4, FS_Subset
<1> QED BY <1>2, <1>3, <1>5

(* Where no summand is more than c, the sum is at most c for each.         *)
LEMMA AmountsBounded ==
  ASSUME NEW r, NEW S, IsFiniteSet(S), NEW c \in Nat,
         \A x \in S : r[x].amount \in 0..c
  PROVE  Amounts(r, S) <= Cardinality(S) * c
<1>1. Amounts(r, S) = Cardinality(Units(r, S))
  BY AmountsAreUnits
<1>2. Units(r, S) \subseteq S \X (1..c)
  BY DEF Units
<1>3. IsFiniteSet(1..c) /\ Cardinality(1..c) = c
  <2>1. IsFiniteSet(1..c) /\ Cardinality(1..c) = IF 1 > c THEN 0 ELSE c - 1 + 1
    BY FS_Interval
  <2> QED BY <2>1
<1>4. /\ IsFiniteSet(S \X (1..c))
      /\ Cardinality(S \X (1..c)) = Cardinality(S) * c
  BY <1>3, FS_Product
<1>5. Cardinality(Units(r, S)) <= Cardinality(S \X (1..c))
  BY <1>2, <1>4, FS_Subset
<1> QED BY <1>1, <1>4, <1>5


-----------------------------------------------------------------------------
(* The type of the variables, what a request is about to insert, and that  *)
(* only finitely many rows count.                                          *)
Typed == /\ TypeOK
         /\ \A h \in Handlers : At(h, "insert") => req[h].amount > 0
         /\ IsFiniteSet(NotFailed)

Row == [status : PayoutStatuses \cup {"none"}, amount : 0..MaxEarned]

Request == [at : {"idle", "earned", "insert"}, earned : 0..MaxEarned,
            want : Asked \cup {Everything}, amount : 0..MaxEarned]

(* The second SUM of request_payout is of the rows that have not failed.   *)
LEMMA WithdrawnIsTotal ==
  ASSUME Typed
  PROVE  /\ Withdrawn = Amounts(payouts, NotFailed)
         /\ Withdrawn \in Nat
<1>1. {p \in PayoutIds : Counts(p)} = NotFailed
  BY DEF Counts, NotFailed
<1>2. Withdrawn = Amounts(payouts, NotFailed)
  BY <1>1 DEF Withdrawn, Total, Amounts
<1>3. \A p \in NotFailed : payouts[p].amount \in Nat
  BY PayoutsAssumption DEF Typed, TypeOK, NotFailed
<1>4. IsFiniteSet(NotFailed)
  BY DEF Typed
<1> QED BY <1>2, <1>3, <1>4, AmountsNat

(* What a step does to the rows that count.                                *)
LEMMA InsertCounts ==
  ASSUME Typed, NEW h \in Handlers, NEW p \in PayoutIds, InsertPayout(h, p)
  PROVE  /\ p \notin NotFailed
         /\ NotFailed' = NotFailed \cup {p}
         /\ \A q \in PayoutIds \ {p} : payouts'[q] = payouts[q]
         /\ payouts'[p] = [status |-> "pending", amount |-> req[h].amount]
BY DEF Typed, TypeOK, InsertPayout, NotFailed

LEMMA SetCounts ==
  ASSUME Typed, NEW p \in PayoutIds, NEW s \in PayoutStatuses,
         SetPayoutStatus(p, s)
  PROVE  /\ NotFailed' = IF s = "failed" THEN NotFailed \ {p}
                                         ELSE NotFailed \cup {p}
         /\ \A q \in PayoutIds : payouts'[q].amount = payouts[q].amount
         /\ \A q \in PayoutIds : payouts'[q].status
                                   = IF q = p THEN s ELSE payouts[q].status
         /\ payouts[p].status # "none"
         /\ p \notin NotFailed => payouts[p].status = "failed"
         /\ payouts' \in [PayoutIds -> Row]
<1>1. payouts \in [PayoutIds -> Row]
  BY DEF Typed, TypeOK, Row
<1>2. payouts' = [payouts EXCEPT ![p].status = s] /\ payouts[p].status # "none"
  BY DEF SetPayoutStatus
<1>3. \A q \in PayoutIds : payouts'[q].amount = payouts[q].amount
  BY <1>1, <1>2 DEF Row
<1>4. \A q \in PayoutIds : payouts'[q].status
                             = IF q = p THEN s ELSE payouts[q].status
  BY <1>1, <1>2 DEF Row
<1>5. payouts' \in [PayoutIds -> Row]
  BY <1>1, <1>2 DEF Row, PayoutStatuses
<1>6. NotFailed' = IF s = "failed" THEN NotFailed \ {p} ELSE NotFailed \cup {p}
  BY <1>4 DEF NotFailed, PayoutStatuses
<1>7. p \notin NotFailed => payouts[p].status = "failed"
  BY <1>1, <1>2 DEF NotFailed, Row, PayoutStatuses
<1> QED BY <1>2, <1>3, <1>4, <1>5, <1>6, <1>7


IdleTyped == Idle \in Request /\ Idle.at = "idle"

LEMMA IdleIsTyped == IdleTyped
BY PayoutsAssumption DEF IdleTyped, Idle, Request

(* Steps of one request that leave the table alone.                        *)
OneRequestSteps(h) ==
  /\ UNCHANGED <<earned, payouts, revived>>
  /\ req' \in [Handlers -> Request]
  /\ \A k \in Handlers \ {h} : req'[k] = req[k]

BackToIdle(h) == /\ req' = [req EXCEPT ![h] = Idle]
                 /\ UNCHANGED <<earned, payouts, revived>>

LEMMA BackToIdleEffect ==
  ASSUME Typed, NEW h \in Handlers, BackToIdle(h)
  PROVE  OneRequestSteps(h) /\ req'[h].at = "idle"
<1>1. req \in [Handlers -> Request]
  BY DEF Typed, TypeOK, Request
<1>2. Idle \in Request /\ Idle.at = "idle"
  BY IdleIsTyped DEF IdleTyped
<1> QED BY <1>1, <1>2 DEF OneRequestSteps, BackToIdle

Accepted(h, amount) ==
  /\ req' = [req EXCEPT ![h].at = "insert", ![h].amount = amount]
  /\ UNCHANGED <<earned, payouts, revived>>

LEMMA AcceptedEffect ==
  ASSUME Typed, NEW h \in Handlers, NEW amount \in 1..MaxEarned,
         Accepted(h, amount)
  PROVE  /\ OneRequestSteps(h)
         /\ req'[h].at = "insert" /\ req'[h].amount = amount
         /\ req'[h].earned = req[h].earned
<1>1. req \in [Handlers -> Request]
  BY DEF Typed, TypeOK, Request
<1>2. \A k \in Handlers \ {h} : req'[k] = req[k]
  BY <1>1 DEF Accepted
<1>3. req'[h] = [at |-> "insert", earned |-> req[h].earned,
                 want |-> req[h].want, amount |-> amount]
  BY <1>1 DEF Request, Accepted
<1>4. req'[h] \in Request
  BY <1>1, <1>3, PayoutsAssumption DEF Request
<1>5. req' \in [Handlers -> Request]
  BY <1>1, <1>2, <1>4 DEF Accepted
<1> QED BY <1>2, <1>3, <1>5 DEF OneRequestSteps, Accepted

(* A request that passes the checks asks for something, and for no more    *)
(* than was earned less what was withdrawn, when it read each.             *)
LEMMA AdmittedFits ==
  ASSUME Typed, NEW h \in Handlers, ReadWithdrawn(h)
  PROVE  /\ req[h].at = "earned"
         /\ \/ BackToIdle(h)
            \/ \E amount \in 1..MaxEarned :
                 /\ amount + Withdrawn <= req[h].earned
                 /\ Accepted(h, amount)
<1> DEFINE available == req[h].earned - Withdrawn
           amount == IF req[h].want = Everything THEN available
                                                 ELSE req[h].want
<1>1. /\ req[h].at = "earned"
      /\ req' = IF Admitted(amount, available)
                  THEN [req EXCEPT ![h].at = "insert", ![h].amount = amount]
                  ELSE [req EXCEPT ![h] = Idle]
      /\ UNCHANGED <<earned, payouts, revived>>
  BY DEF ReadWithdrawn, At
<1>2. Withdrawn \in Nat
  BY WithdrawnIsTotal
<1>3. req[h].earned \in 0..MaxEarned /\ req[h].want \in Asked \cup {Everything}
  BY DEF Typed, TypeOK
<1>4. available \in Int /\ available <= MaxEarned
      /\ available + Withdrawn = req[h].earned
  BY <1>2, <1>3, PayoutsAssumption
<1>5. amount \in Int
  <2>1. amount = available \/ amount \in Asked
    BY <1>3
  <2>2. Asked \subseteq Int
    BY PayoutsAssumption
  <2> HIDE DEF available, amount
  <2> QED BY <1>4, <2>1, <2>2
<1> HIDE DEF available, amount
<1>6. CASE Admitted(amount, available)
  <2>1. amount \in 1..MaxEarned /\ amount + Withdrawn <= req[h].earned
    BY <1>2, <1>3, <1>4, <1>5, <1>6, PayoutsAssumption DEF Admitted
  <2> QED BY <1>1, <1>6, <2>1 DEF Accepted
<1> QED BY <1>1, <1>6 DEF BackToIdle

LEMMA TypeInit == Init => Typed
<1> SUFFICES ASSUME Init PROVE Typed
  OBVIOUS
<1>1. NotFailed = {}
  BY DEF Init, NotFailed
<1>2. IsFiniteSet(NotFailed)
  BY <1>1, FS_EmptySet
<1>3. TypeOK
  BY PayoutsAssumption, IdleIsTyped DEF Init, TypeOK, IdleTyped, Request
<1>4. \A h \in Handlers : ~At(h, "insert")
  BY IdleIsTyped DEF Init, At, IdleTyped
<1> QED BY <1>2, <1>3, <1>4 DEF Typed

LEMMA OneRequestTyped ==
  ASSUME Typed, NEW h \in Handlers, OneRequestSteps(h),
         req'[h].at = "insert" => req'[h].amount > 0
  PROVE  Typed'
<1>1. UNCHANGED <<earned, payouts, revived>> /\ req' \in [Handlers -> Request]
  BY DEF OneRequestSteps
<1>2. TypeOK'
  BY <1>1 DEF Typed, TypeOK, Request
<1>3. (\A k \in Handlers : At(k, "insert") => req[k].amount > 0)'
  BY DEF OneRequestSteps, Typed, At
<1>4. NotFailed' = NotFailed
  BY <1>1 DEF NotFailed
<1> QED BY <1>1, <1>2, <1>3, <1>4 DEF Typed

LEMMA ReadEarnedEffect ==
  ASSUME Typed, NEW h \in Handlers, NEW want \in Asked \cup {Everything},
         ReadEarned(h, want)
  PROVE  /\ OneRequestSteps(h)
         /\ req'[h].at = "earned" /\ req'[h].earned = earned
<1> DEFINE r == [Idle EXCEPT !.at = "earned", !.earned = earned,
                             !.want = want]
<1>1. Idle \in Request
  BY IdleIsTyped DEF IdleTyped
<1>2. earned \in 0..MaxEarned /\ req \in [Handlers -> Request]
  BY DEF Typed, TypeOK, Request
<1>3. r \in Request /\ r.at = "earned" /\ r.earned = earned
  BY <1>1, <1>2 DEF Request
<1>4. req' = [req EXCEPT ![h] = r] /\ UNCHANGED <<earned, payouts, revived>>
  BY DEF ReadEarned
<1> HIDE DEF r
<1> QED BY <1>2, <1>3, <1>4 DEF OneRequestSteps

LEMMA TypeStep == Typed /\ [Next]_vars => Typed'
<1> SUFFICES ASSUME Typed, [Next]_vars PROVE Typed'
  OBVIOUS
<1> USE PayoutsAssumption
<1>1. ASSUME NEW h \in Handlers, NEW want \in Asked \cup {Everything},
             ReadEarned(h, want)
      PROVE  Typed'
  <2>1. OneRequestSteps(h) /\ req'[h].at = "earned"
    BY <1>1, ReadEarnedEffect
  <2>2. req'[h].at = "insert" => req'[h].amount > 0
    BY <2>1
  <2> QED BY <2>1, <2>2, OneRequestTyped
<1>2. ASSUME NEW h \in Handlers, ReadWithdrawn(h)
      PROVE  Typed'
  <2>1. CASE BackToIdle(h)
    BY <2>1, BackToIdleEffect, OneRequestTyped
  <2>2. ASSUME NEW amount \in 1..MaxEarned, Accepted(h, amount)
        PROVE  Typed'
    <3>1. OneRequestSteps(h) /\ req'[h].amount = amount
      BY <2>2, AcceptedEffect
    <3>2. amount > 0
      OBVIOUS
    <3> QED BY <3>1, <3>2, OneRequestTyped
  <2> QED BY <1>2, <2>1, <2>2, AdmittedFits
<1>3. ASSUME NEW h \in Handlers, NEW p \in PayoutIds, InsertPayout(h, p)
      PROVE  Typed'
  <2>1. At(h, "insert") /\ req' = [req EXCEPT ![h] = Idle]
        /\ UNCHANGED <<earned, revived>>
    BY <1>3 DEF InsertPayout
  <2>2. /\ NotFailed' = NotFailed \cup {p}
        /\ \A q \in PayoutIds \ {p} : payouts'[q] = payouts[q]
        /\ payouts'[p] = [status |-> "pending", amount |-> req[h].amount]
    BY <1>3, InsertCounts
  <2>3. IsFiniteSet(NotFailed')
    BY <2>2, FS_AddElement DEF Typed
  <2>4. req' \in [Handlers -> Request]
    BY <2>1, IdleIsTyped DEF Typed, TypeOK, Request, IdleTyped
  <2>5. payouts' \in [PayoutIds -> Row]
        /\ \A q \in PayoutIds : payouts'[q].status # "none"
                                  => payouts'[q].amount > 0
    <3>1. payouts \in [PayoutIds -> Row]
      BY DEF Typed, TypeOK, Row
    <3>2. req[h].amount \in 0..MaxEarned /\ req[h].amount > 0
      BY <2>1 DEF Typed, TypeOK
    <3>3. payouts' = [payouts EXCEPT ![p] = [status |-> "pending",
                                             amount |-> req[h].amount]]
      BY <1>3 DEF InsertPayout
    <3>4. [status |-> "pending", amount |-> req[h].amount] \in Row
      BY <3>2 DEF Row, PayoutStatuses
    <3>5. payouts' \in [PayoutIds -> Row]
      BY <3>1, <3>3, <3>4
    <3>6. \A q \in PayoutIds : payouts'[q].status # "none"
                                 => payouts'[q].amount > 0
      BY <2>2, <3>2 DEF Typed, TypeOK
    <3> QED BY <3>5, <3>6
  <2>6. TypeOK'
    BY <2>1, <2>4, <2>5 DEF Typed, TypeOK, Request, Row
  <2>7. (\A k \in Handlers : At(k, "insert") => req[k].amount > 0)'
    BY <2>1, IdleIsTyped DEF Typed, TypeOK, At, IdleTyped
  <2> QED BY <2>3, <2>6, <2>7 DEF Typed
<1>4. ASSUME NEW h \in Handlers, Drop(h)
      PROVE  Typed'
  <2>1. BackToIdle(h)
    BY <1>4 DEF Drop, BackToIdle
  <2> QED BY <2>1, BackToIdleEffect, OneRequestTyped
<1>5. ASSUME NEW p \in PayoutIds, NEW s \in PayoutStatuses,
             SetPayoutStatus(p, s)
      PROVE  Typed'
  <2>1. /\ NotFailed' = IF s = "failed" THEN NotFailed \ {p}
                                        ELSE NotFailed \cup {p}
        /\ \A q \in PayoutIds : payouts'[q].amount = payouts[q].amount
        /\ \A q \in PayoutIds : payouts'[q].status
                                  = IF q = p THEN s ELSE payouts[q].status
        /\ payouts[p].status # "none"
        /\ payouts' \in [PayoutIds -> Row]
    BY <1>5, SetCounts
  <2>2. IsFiniteSet(NotFailed')
    BY <2>1, FS_AddElement, FS_RemoveElement DEF Typed
  <2>3. UNCHANGED <<earned, req>> /\ revived' \in 0..MaxRevived
    BY <1>5 DEF SetPayoutStatus, Typed, TypeOK
  <2>4. \A q \in PayoutIds : payouts'[q].status # "none"
                               => payouts'[q].amount > 0
    BY <2>1 DEF Typed, TypeOK
  <2>5. TypeOK'
    BY <2>1, <2>3, <2>4 DEF Typed, TypeOK, Row
  <2>6. (\A k \in Handlers : At(k, "insert") => req[k].amount > 0)'
    BY <2>3 DEF Typed, At
  <2> QED BY <2>2, <2>5, <2>6 DEF Typed
<1>6. ASSUME NEW net \in Nat, Earn(net)
      PROVE  Typed'
  <2>1. earned' \in 0..MaxEarned /\ UNCHANGED <<payouts, revived, req>>
    BY <1>6 DEF Earn, Typed, TypeOK
  <2>2. NotFailed' = NotFailed
    BY <2>1 DEF NotFailed
  <2> QED BY <2>1, <2>2 DEF Typed, TypeOK, At
<1>7. CASE TipCompleted
  <2>1. PICK t \in Tipped : Earn(CreatorNet(t, PlatformBp, ServiceBp))
    BY <1>7 DEF TipCompleted
  <2>2. CreatorNet(t, PlatformBp, ServiceBp) \in Nat
    BY NetIsNatural
  <2> QED BY <1>6, <2>1, <2>2
<1>8. CASE CommissionCredited
  <2>1. PICK t \in Referrals : Earn(Portion(t, CommissionBp))
    BY <1>8 DEF CommissionCredited
  <2>2. Portion(t, CommissionBp) \in Nat
    BY PortionNat
  <2> QED BY <1>6, <2>1, <2>2
<1>9. CASE UNCHANGED vars
  <2>1. NotFailed' = NotFailed
    BY <1>9 DEF vars, NotFailed
  <2> QED BY <1>9, <2>1 DEF vars, Typed, TypeOK, At
<1> QED BY <1>1, <1>2, <1>3, <1>4, <1>5, <1>7, <1>8, <1>9 DEF Next, Serve

LEMMA AlwaysTyped == Spec => []Typed
  BY TypeInit, TypeStep, PTL DEF Spec

(* Every variable keeps its type: what is inserted, and what is ever       *)
(* earned, is an amount, and what was inserted is a positive one.          *)
THEOREM TypeCorrect == Spec => []TypeOK
<1>1. Typed => TypeOK
  BY DEF Typed
<1> QED BY <1>1, AlwaysTyped, PTL


-----------------------------------------------------------------------------
(* How far a balance can be overdrawn.  The bound is not inductive: what   *)
(* keeps it is that what the requests are about to insert is in it, that   *)
(* no request and no row is of more than was earned, and that nothing a    *)
(* request has read of what was earned is ever too much.                   *)
Waiting(r) == {h \in Handlers : r[h].at = "insert"}

Owes(r) == Amounts(r, Waiting(r))

KnownInv == \A h \in Handlers : /\ req[h].earned <= earned
                                /\ req[h].amount <= earned

RowsInv == \A p \in PayoutIds : payouts[p].amount <= earned

DebtInv == Amounts(payouts, NotFailed) + Owes(req)
             <= (Cardinality(Handlers) + revived) * earned

OverdraftInv == Typed /\ KnownInv /\ RowsInv /\ DebtInv

LEMMA OneMore ==
  ASSUME NEW a \in Nat, NEW c \in Nat
  PROVE  (a + 1) * c = a * c + c
BY Z3

LEMMA TimesMonotone ==
  ASSUME NEW a \in Nat, NEW b \in Nat, NEW c \in Nat, NEW d \in Nat,
         a <= b, c <= d
  PROVE  a * c <= b * d
<1>1. a * c <= b * c
  BY Z3
<1>2. b * c <= b * d
  BY Z3
<1>3. a * c \in Nat /\ b * c \in Nat /\ b * d \in Nat
  BY Z3
<1> DEFINE x == a * c  y == b * c  z == b * d
<1> HIDE DEF x, y, z
<1>4. x <= y /\ y <= z /\ x \in Nat /\ y \in Nat /\ z \in Nat
  BY <1>1, <1>2, <1>3 DEF x, y, z
<1>5. x <= z
  BY <1>4
<1> QED BY <1>5 DEF x, z

(* The sets that are summed, and their sums.                               *)
LEMMA RowsFine ==
  ASSUME Typed
  PROVE  /\ IsFiniteSet(NotFailed) /\ NotFailed \subseteq PayoutIds
         /\ \A p \in PayoutIds : payouts[p].amount \in Nat
         /\ Amounts(payouts, NotFailed) \in Nat
         /\ earned \in Nat /\ revived \in Nat
         /\ req \in [Handlers -> Request]
<1>1. IsFiniteSet(NotFailed) /\ NotFailed \subseteq PayoutIds
  BY DEF Typed, NotFailed
<1>2. \A p \in PayoutIds : payouts[p].amount \in Nat
  BY PayoutsAssumption DEF Typed, TypeOK
<1>3. Amounts(payouts, NotFailed) \in Nat
  BY <1>1, <1>2, AmountsNat
<1>4. earned \in Nat /\ revived \in Nat
  BY PayoutsAssumption DEF Typed, TypeOK
<1>5. req \in [Handlers -> Request]
  BY DEF Typed, TypeOK, Request
<1> QED BY <1>1, <1>2, <1>3, <1>4, <1>5

LEMMA HandlersFine ==
  IsFiniteSet(Handlers) /\ Cardinality(Handlers) \in Nat
BY PayoutsAssumption, FS_CardinalityType

(* What is owed, by one request and by the others.                         *)
LEMMA OwesSplit ==
  ASSUME NEW r \in [Handlers -> Request], NEW h \in Handlers
  PROVE  /\ IsFiniteSet(Waiting(r) \ {h})
         /\ \A k \in Handlers : r[k].amount \in Nat
         /\ Amounts(r, Waiting(r) \ {h}) \in Nat
         /\ Owes(r) = IF r[h].at = "insert"
                        THEN r[h].amount + Amounts(r, Waiting(r) \ {h})
                        ELSE Amounts(r, Waiting(r) \ {h})
<1>1. IsFiniteSet(Waiting(r)) /\ IsFiniteSet(Waiting(r) \ {h})
  BY HandlersFine, FS_Subset, FS_RemoveElement DEF Waiting
<1>2. \A k \in Handlers : r[k].amount \in Nat
  BY PayoutsAssumption DEF Request
<1>3. \A k \in Waiting(r) : r[k].amount \in Nat
  BY <1>2 DEF Waiting
<1>4. Amounts(r, Waiting(r) \ {h}) \in Nat
  BY <1>1, <1>3, AmountsNat
<1>5. CASE r[h].at = "insert"
  <2>1. h \in Waiting(r)
    BY <1>5 DEF Waiting
  <2>2. Owes(r) = r[h].amount + Amounts(r, Waiting(r) \ {h})
    BY <1>1, <1>3, <2>1, AmountsRemove DEF Owes
  <2> QED BY <1>1, <1>2, <1>4, <1>5, <2>2
<1>6. CASE r[h].at # "insert"
  <2>1. Waiting(r) \ {h} = Waiting(r)
    BY <1>6 DEF Waiting
  <2> QED BY <1>1, <1>2, <1>4, <1>6, <2>1 DEF Owes
<1> QED BY <1>5, <1>6

(* A step of one request leaves what the others owe.                       *)
LEMMA OthersOwe ==
  ASSUME NEW r \in [Handlers -> Request], NEW q \in [Handlers -> Request],
         NEW h \in Handlers, \A k \in Handlers \ {h} : q[k] = r[k]
  PROVE  Amounts(q, Waiting(q) \ {h}) = Amounts(r, Waiting(r) \ {h})
<1>1. Waiting(q) \ {h} = Waiting(r) \ {h}
  BY DEF Waiting
<1>2. IsFiniteSet(Waiting(r) \ {h}) /\ \A k \in Handlers : r[k].amount \in Nat
  BY OwesSplit
<1> DEFINE rest == Waiting(r) \ {h}
<1>3. \A k \in rest : r[k].amount \in Nat /\ q[k].amount = r[k].amount
  BY <1>2 DEF Waiting
<1> HIDE DEF rest
<1>4. Amounts(q, rest) = Amounts(r, rest)
  BY <1>2, <1>3, AmountsSame DEF rest
<1> QED BY <1>1, <1>4 DEF rest

(* The other requests owe at most the balance each.                        *)
LEMMA OthersOweLittle ==
  ASSUME OverdraftInv, NEW h \in Handlers
  PROVE  Amounts(req, Waiting(req) \ {h}) + earned
           <= Cardinality(Handlers) * earned
<1> DEFINE others == Cardinality(Handlers \ {h})
<1>1. /\ IsFiniteSet(Handlers \ {h})
      /\ others \in Nat /\ Cardinality(Handlers) = others + 1
  <2>1. IsFiniteSet(Handlers) /\ Cardinality(Handlers) \in Nat
    BY HandlersFine
  <2>2. IsFiniteSet(Handlers \ {h}) /\ others = Cardinality(Handlers) - 1
    BY <2>1, FS_RemoveElement
  <2>3. others \in Nat
    BY <2>2, FS_CardinalityType
  <2> QED BY <2>1, <2>2, <2>3
<1>2. /\ IsFiniteSet(Waiting(req) \ {h})
      /\ Waiting(req) \ {h} \subseteq Handlers \ {h}
      /\ \A k \in Handlers : req[k].amount \in Nat
      /\ Amounts(req, Waiting(req) \ {h}) \in Nat
  BY RowsFine, OwesSplit DEF OverdraftInv, Waiting
<1>3. Cardinality(Waiting(req) \ {h}) \in Nat
  BY <1>2, FS_CardinalityType
<1>4. Cardinality(Waiting(req) \ {h}) <= others
  BY <1>1, <1>2, FS_Subset
<1>5. earned \in Nat /\ \A k \in Waiting(req) \ {h} : req[k].amount \in 0..earned
  BY <1>2, RowsFine DEF OverdraftInv, KnownInv
<1>6. Amounts(req, Waiting(req) \ {h}) <= Cardinality(Waiting(req) \ {h}) * earned
  BY <1>2, <1>5, AmountsBounded
<1>7. Cardinality(Waiting(req) \ {h}) * earned <= others * earned
  BY <1>1, <1>3, <1>4, <1>5, TimesMonotone
<1>8. Cardinality(Handlers) * earned = others * earned + earned
  BY <1>1, <1>5, OneMore
<1>9. /\ others * earned \in Nat
      /\ Cardinality(Waiting(req) \ {h}) * earned \in Nat
      /\ Amounts(req, Waiting(req) \ {h}) \in Nat
  <2>1. \A a, c \in Nat : a * c \in Nat
    BY Z3
  <2> QED BY <1>1, <1>2, <1>3, <1>5, <2>1
<1> DEFINE x == others * earned
           y == Cardinality(Waiting(req) \ {h}) * earned
           z == Amounts(req, Waiting(req) \ {h})
           w == Cardinality(Handlers) * earned
<1> HIDE DEF x, y, z, w
<1>10. z <= y /\ y <= x /\ w = x + earned /\ x \in Nat /\ y \in Nat /\ z \in Nat
  BY <1>6, <1>7, <1>8, <1>9 DEF x, y, z, w
<1>11. z + earned <= w
  BY <1>5, <1>10
<1> QED BY <1>11 DEF z, w


Bound == (Cardinality(Handlers) + revived) * earned

LEMMA BoundNat ==
  ASSUME Typed
  PROVE  Bound \in Nat /\ Cardinality(Handlers) * earned <= Bound
<1> DEFINE n == Cardinality(Handlers)
<1>1. n \in Nat /\ revived \in Nat /\ earned \in Nat
  BY RowsFine, HandlersFine
<1> HIDE DEF n
<1>2. n * earned <= (n + revived) * earned
  BY <1>1, TimesMonotone
<1>3. (n + revived) * earned \in Nat
  BY <1>1, Z3
<1> QED BY <1>2, <1>3 DEF Bound, n

(* A request that only reads, or is dropped, owes nothing more; one that   *)
(* is admitted owes no more than is left of what it read, and the others   *)
(* owe at most the balance each.                                           *)
LEMMA DebtOfRequest ==
  ASSUME OverdraftInv, Typed', NEW h \in Handlers, OneRequestSteps(h),
         req'[h].at = "insert" => req'[h].amount
                                    + Amounts(payouts, NotFailed) <= earned
  PROVE  DebtInv'
<1> DEFINE T == Amounts(payouts, NotFailed)
           others == Amounts(req, Waiting(req) \ {h})
           N == Cardinality(Handlers) * earned
<1>1. UNCHANGED <<earned, payouts, revived>> /\ NotFailed' = NotFailed
      /\ req' \in [Handlers -> Request] /\ req \in [Handlers -> Request]
  BY RowsFine DEF OverdraftInv, OneRequestSteps, NotFailed
<1>2. Amounts(req', Waiting(req') \ {h}) = others
  BY <1>1, OthersOwe DEF OneRequestSteps
<1>3. /\ others \in Nat
      /\ Owes(req) = IF req[h].at = "insert" THEN req[h].amount + others
                                             ELSE others
      /\ req[h].amount \in Nat
  BY <1>1, OwesSplit
<1>4. /\ Owes(req') = IF req'[h].at = "insert" THEN req'[h].amount + others
                                               ELSE others
      /\ req'[h].amount \in Nat
  BY <1>1, <1>2, OwesSplit
<1>5. T \in Nat /\ earned \in Nat
  BY RowsFine DEF OverdraftInv
<1>6. T + Owes(req) <= Bound
  BY DEF OverdraftInv, DebtInv, Bound
<1>7. others + earned <= N
  BY OthersOweLittle
<1>8. Bound \in Nat /\ N <= Bound /\ N \in Nat
  <2>1. N \in Nat
    BY <1>5, HandlersFine, Z3
  <2> QED BY <2>1, BoundNat DEF OverdraftInv
<1> HIDE DEF T, others, N
<1>9. T + Owes(req') <= Bound
  <2>1. CASE req'[h].at = "insert"
    <3>1. req'[h].amount + T <= earned
      BY <2>1 DEF T
    <3> QED BY <1>3, <1>4, <1>5, <1>7, <1>8, <2>1, <3>1
  <2>2. CASE req'[h].at # "insert"
    <3>1. Owes(req') = others
      BY <1>4, <2>2
    <3>2. others <= Owes(req) /\ Owes(req) \in Nat
      BY <1>3
    <3> QED BY <1>3, <1>5, <1>6, <1>8, <3>1, <3>2
  <2> QED BY <2>1, <2>2
<1> QED BY <1>1, <1>9 DEF DebtInv, Bound, T

(* An insertion turns what was owed into a row.                            *)
LEMMA DebtOfInsert ==
  ASSUME OverdraftInv, Typed', NEW h \in Handlers, NEW p \in PayoutIds,
         InsertPayout(h, p)
  PROVE  DebtInv'
<1> DEFINE T == Amounts(payouts, NotFailed)
           others == Amounts(req, Waiting(req) \ {h})
<1>1. /\ p \notin NotFailed /\ NotFailed' = NotFailed \cup {p}
      /\ \A q \in PayoutIds \ {p} : payouts'[q] = payouts[q]
      /\ payouts'[p] = [status |-> "pending", amount |-> req[h].amount]
  BY InsertCounts DEF OverdraftInv
<1>2. /\ req[h].at = "insert" /\ req' = [req EXCEPT ![h] = Idle]
      /\ UNCHANGED <<earned, revived>>
  BY DEF InsertPayout, At
<1>3. /\ req \in [Handlers -> Request] /\ req' \in [Handlers -> Request]
      /\ \A k \in Handlers \ {h} : req'[k] = req[k]
      /\ req'[h].at = "idle"
  <2>1. req \in [Handlers -> Request]
    BY RowsFine DEF OverdraftInv
  <2>2. Idle \in Request /\ Idle.at = "idle"
    BY IdleIsTyped DEF IdleTyped
  <2> QED BY <1>2, <2>1, <2>2
<1>4. Amounts(req', Waiting(req') \ {h}) = others
  BY <1>3, OthersOwe
<1>5. others \in Nat /\ Owes(req) = req[h].amount + others
      /\ req[h].amount \in Nat
  BY <1>2, <1>3, OwesSplit
<1>6. Owes(req') = others
  <2>1. req'[h].at # "insert"
    BY <1>3
  <2> QED BY <1>3, <1>4, <2>1, OwesSplit
<1>7. /\ IsFiniteSet(NotFailed) /\ NotFailed \subseteq PayoutIds /\ T \in Nat
      /\ \A q \in PayoutIds : payouts[q].amount \in Nat
  BY RowsFine DEF OverdraftInv
<1>8. Amounts(payouts', NotFailed') = req[h].amount + T
  <2> DEFINE S == NotFailed \cup {p}
  <2>1. IsFiniteSet(S) /\ S \ {p} = NotFailed /\ p \in S
    BY <1>1, <1>7, FS_AddElement
  <2>2. \A q \in NotFailed : /\ payouts'[q].amount = payouts[q].amount
                             /\ payouts[q].amount \in Nat
    BY <1>1, <1>7
  <2>3. payouts'[p].amount = req[h].amount
    BY <1>1
  <2>4. \A q \in S : payouts'[q].amount \in Nat
    BY <1>5, <2>2, <2>3
  <2> HIDE DEF S
  <2>5. Amounts(payouts', S) = payouts'[p].amount + Amounts(payouts', S \ {p})
    BY <2>1, <2>4, AmountsRemove
  <2>6. Amounts(payouts', NotFailed) = T
    BY <1>7, <2>2, AmountsSame
  <2> QED BY <1>1, <2>1, <2>3, <2>5, <2>6 DEF S
<1>9. T + Owes(req) <= Bound /\ Bound \in Nat
  BY BoundNat DEF OverdraftInv, DebtInv, Bound
<1> HIDE DEF T, others
<1>10. Amounts(payouts', NotFailed') + Owes(req') <= Bound
  BY <1>5, <1>6, <1>7, <1>8, <1>9
<1> QED BY <1>2, <1>10 DEF DebtInv, Bound

(* The operator lowers the sum, leaves it, or takes one payout back.       *)
LEMMA DebtOfStatus ==
  ASSUME OverdraftInv, Typed', NEW p \in PayoutIds, NEW s \in PayoutStatuses,
         SetPayoutStatus(p, s)
  PROVE  DebtInv'
<1> DEFINE T == Amounts(payouts, NotFailed)
<1>1. /\ NotFailed' = IF s = "failed" THEN NotFailed \ {p}
                                      ELSE NotFailed \cup {p}
      /\ \A q \in PayoutIds : payouts'[q].amount = payouts[q].amount
      /\ p \notin NotFailed => payouts[p].status = "failed"
  BY SetCounts DEF OverdraftInv
<1>2. /\ UNCHANGED <<earned, req>>
      /\ revived' = IF payouts[p].status = "failed" /\ s # "failed"
                      THEN revived + 1 ELSE revived
  BY DEF SetPayoutStatus
<1>3. /\ IsFiniteSet(NotFailed) /\ NotFailed \subseteq PayoutIds /\ T \in Nat
      /\ \A q \in PayoutIds : payouts[q].amount \in Nat
      /\ earned \in Nat /\ revived \in Nat /\ req \in [Handlers -> Request]
  BY RowsFine DEF OverdraftInv
<1>4. T + Owes(req) <= Bound /\ Bound \in Nat
  BY BoundNat DEF OverdraftInv, DebtInv, Bound
<1>5. Owes(req) \in Nat
  <2>1. IsFiniteSet(Waiting(req)) /\ \A k \in Waiting(req) : req[k].amount \in Nat
    BY <1>3, HandlersFine, FS_Subset, PayoutsAssumption DEF Waiting, Request
  <2> QED BY <2>1, AmountsNat DEF Owes
<1>6. /\ IsFiniteSet(NotFailed') /\ NotFailed' \subseteq PayoutIds
      /\ Amounts(payouts', NotFailed') = Amounts(payouts, NotFailed')
  <2> DEFINE S == NotFailed'
  <2>1. IsFiniteSet(S) /\ S \subseteq PayoutIds
    BY <1>1, <1>3, FS_AddElement, FS_RemoveElement
  <2> HIDE DEF S
  <2>2. \A q \in S : /\ payouts'[q].amount = payouts[q].amount
                     /\ payouts[q].amount \in Nat
    BY <1>1, <1>3, <2>1
  <2>3. Amounts(payouts', S) = Amounts(payouts, S)
    BY <2>1, <2>2, AmountsSame
  <2> QED BY <2>1, <2>3 DEF S
<1>7. CASE NotFailed' \subseteq NotFailed
  <2>1. Amounts(payouts, NotFailed') <= T
    BY <1>3, <1>7, AmountsMonotone
  <2>2. Amounts(payouts', NotFailed') \in Nat
    <3>1. \A q \in NotFailed' : payouts[q].amount \in Nat
      BY <1>3, <1>6
    <3> QED BY <1>6, <3>1, AmountsNat
  <2>3. revived' \in Nat /\ revived <= revived'
    BY <1>2, <1>3
  <2>4. Bound <= (Cardinality(Handlers) + revived') * earned
    <3>1. Cardinality(Handlers) + revived \in Nat
          /\ Cardinality(Handlers) + revived' \in Nat
          /\ Cardinality(Handlers) + revived <= Cardinality(Handlers) + revived'
      BY <1>3, <2>3, HandlersFine
    <3> QED BY <1>3, <3>1, TimesMonotone DEF Bound
  <2>5. (Cardinality(Handlers) + revived') * earned \in Nat
    BY <1>3, <2>3, HandlersFine, Z3
  <2> DEFINE b == (Cardinality(Handlers) + revived') * earned
             t == Amounts(payouts', NotFailed')
  <2>6. t <= T /\ t \in Nat /\ b \in Nat /\ Bound <= b
    BY <1>6, <2>1, <2>2, <2>4, <2>5
  <2> HIDE DEF b, t, T
  <2>7. t + Owes(req) <= b
    BY <1>3, <1>4, <1>5, <2>6
  <2> QED BY <1>2, <2>7 DEF DebtInv, b, t
<1>8. CASE ~(NotFailed' \subseteq NotFailed)
  <2>1. /\ p \notin NotFailed /\ NotFailed' = NotFailed \cup {p}
        /\ revived' = revived + 1
    BY <1>1, <1>2, <1>8
  <2>2. payouts[p].amount <= earned /\ payouts[p].amount \in Nat
    BY <1>3 DEF OverdraftInv, RowsInv
  <2>3. Amounts(payouts, NotFailed') = payouts[p].amount + T
    <3> DEFINE S == NotFailed \cup {p}
    <3>1. IsFiniteSet(S) /\ S \ {p} = NotFailed /\ p \in S
      BY <1>3, <2>1, FS_AddElement
    <3>2. \A q \in S : payouts[q].amount \in Nat
      BY <1>3
    <3> HIDE DEF S
    <3>3. Amounts(payouts, S) = payouts[p].amount + Amounts(payouts, S \ {p})
      BY <3>1, <3>2, AmountsRemove
    <3> QED BY <2>1, <3>1, <3>3 DEF S
  <2>4. (Cardinality(Handlers) + revived') * earned = Bound + earned
    <3> DEFINE n == Cardinality(Handlers) + revived
    <3>1. n \in Nat /\ Cardinality(Handlers) + revived' = n + 1
      BY <1>3, <2>1, HandlersFine
    <3>2. Bound = n * earned
      BY DEF Bound
    <3> HIDE DEF n
    <3> QED BY <1>3, <3>1, <3>2, OneMore
  <2> HIDE DEF T
  <2>5. Amounts(payouts', NotFailed') + Owes(req) <= Bound + earned
    BY <1>3, <1>4, <1>5, <1>6, <2>2, <2>3
  <2> QED BY <1>2, <2>4, <2>5 DEF DebtInv
<1> QED BY <1>7, <1>8

LEMMA DebtOfEarn ==
  ASSUME OverdraftInv, NEW net \in Nat, Earn(net)
  PROVE  DebtInv'
<1>1. earned' = earned + net /\ UNCHANGED <<payouts, revived, req>>
      /\ NotFailed' = NotFailed
  BY DEF Earn, NotFailed
<1> DEFINE n == Cardinality(Handlers) + revived
           T == Amounts(payouts, NotFailed)
<1>2. n \in Nat /\ earned \in Nat /\ earned' \in Nat /\ earned <= earned'
  BY <1>1, RowsFine, HandlersFine DEF OverdraftInv
<1>3. T + Owes(req) <= n * earned /\ T \in Nat /\ Owes(req) \in Nat
  <2>1. IsFiniteSet(Waiting(req)) /\ \A k \in Waiting(req) : req[k].amount \in Nat
    BY RowsFine, HandlersFine, FS_Subset, PayoutsAssumption
       DEF OverdraftInv, Waiting, Request
  <2>2. T + Owes(req) <= n * earned /\ T \in Nat
    BY RowsFine DEF OverdraftInv, DebtInv
  <2> QED BY <2>1, <2>2, AmountsNat DEF Owes
<1> DEFINE more == earned'
<1>4. more \in Nat /\ earned <= more
  BY <1>2
<1> HIDE DEF n, T, more
<1>5. n * earned <= n * more
  <2>1. n <= n
    BY <1>2
  <2> QED BY <1>2, <1>4, <2>1, TimesMonotone
<1>6. n * earned \in Nat /\ n * more \in Nat
  BY <1>2, <1>4, Z3
<1>7. T + Owes(req) <= n * more
  BY <1>3, <1>5, <1>6
<1> QED BY <1>1, <1>7 DEF DebtInv, n, T, more

(* No request and no row comes to be of more than was earned.              *)
LEMMA OverdraftInit == Init => OverdraftInv
<1> SUFFICES ASSUME Init PROVE OverdraftInv
  OBVIOUS
<1>1. Typed
  BY TypeInit
<1>2. KnownInv /\ RowsInv
  BY DEF Init, KnownInv, RowsInv, Idle
<1>3. NotFailed = {} /\ Waiting(req) = {}
  BY DEF Init, NotFailed, Waiting, Idle
<1>4. DebtInv
  <2>1. Amounts(payouts, NotFailed) = 0 /\ Owes(req) = 0
    BY <1>3, AmountsEmpty DEF Owes
  <2>2. Bound \in Nat
    BY <1>1, BoundNat
  <2> QED BY <2>1, <2>2 DEF DebtInv, Bound
<1> QED BY <1>1, <1>2, <1>4 DEF OverdraftInv

LEMMA OverdraftStep == OverdraftInv /\ [Next]_vars => OverdraftInv'
<1> SUFFICES ASSUME OverdraftInv, [Next]_vars PROVE OverdraftInv'
  OBVIOUS
<1>1. Typed /\ Typed'
  BY TypeStep DEF OverdraftInv
<1>2. earned \in Nat /\ req \in [Handlers -> Request]
  BY <1>1, RowsFine
<1> DEFINE Kept == KnownInv' /\ RowsInv' /\ DebtInv'
<1>3. ASSUME NEW h \in Handlers, NEW want \in Asked \cup {Everything},
             ReadEarned(h, want)
      PROVE  Kept
  <2>1. /\ OneRequestSteps(h)
        /\ req'[h].at = "earned" /\ req'[h].earned = earned
    BY <1>1, <1>3, ReadEarnedEffect
  <2>2. req'[h].amount = 0
    BY <1>2, <1>3 DEF ReadEarned, Idle
  <2>3. KnownInv' /\ RowsInv'
    BY <1>2, <2>1, <2>2 DEF OneRequestSteps, OverdraftInv, KnownInv, RowsInv
  <2> QED BY <1>1, <2>1, <2>3, DebtOfRequest
<1>4. ASSUME NEW h \in Handlers, BackToIdle(h)
      PROVE  Kept
  <2>1. OneRequestSteps(h) /\ req'[h].at = "idle"
    BY <1>1, <1>4, BackToIdleEffect
  <2>2. req'[h].amount = 0 /\ req'[h].earned = 0
    BY <1>2, <1>4 DEF BackToIdle, Idle
  <2>3. KnownInv' /\ RowsInv'
    BY <1>2, <2>1, <2>2 DEF OneRequestSteps, OverdraftInv, KnownInv, RowsInv
  <2> QED BY <1>1, <2>1, <2>3, DebtOfRequest
<1>5. ASSUME NEW h \in Handlers, ReadWithdrawn(h)
      PROVE  Kept
  <2>1. ASSUME NEW amount \in 1..MaxEarned, Accepted(h, amount),
               amount + Withdrawn <= req[h].earned
        PROVE  Kept
    <3>1. /\ OneRequestSteps(h)
          /\ req'[h].amount = amount /\ req'[h].earned = req[h].earned
      BY <1>1, <2>1, AcceptedEffect
    <3>2. Withdrawn = Amounts(payouts, NotFailed) /\ Withdrawn \in Nat
      BY <1>1, WithdrawnIsTotal
    <3>3. req[h].earned <= earned /\ req[h].earned \in Nat
      BY <1>2, PayoutsAssumption DEF OverdraftInv, KnownInv, Request
    <3>4. amount \in Nat /\ amount + Withdrawn <= earned
      BY <1>2, <2>1, <3>2, <3>3, PayoutsAssumption
    <3>5. amount <= earned
      BY <1>2, <3>2, <3>4
    <3>6. KnownInv' /\ RowsInv'
      BY <1>2, <3>1, <3>3, <3>5
         DEF OneRequestSteps, OverdraftInv, KnownInv, RowsInv
    <3> QED BY <1>1, <3>1, <3>2, <3>4, <3>6, DebtOfRequest
  <2> QED BY <1>1, <1>4, <1>5, <2>1, AdmittedFits
<1>6. ASSUME NEW h \in Handlers, NEW p \in PayoutIds, InsertPayout(h, p)
      PROVE  Kept
  <2>1. /\ \A q \in PayoutIds \ {p} : payouts'[q] = payouts[q]
        /\ payouts'[p].amount = req[h].amount
    <3>1. /\ \A q \in PayoutIds \ {p} : payouts'[q] = payouts[q]
          /\ payouts'[p] = [status |-> "pending", amount |-> req[h].amount]
      BY <1>1, <1>6, InsertCounts
    <3> QED BY <3>1
  <2>2. req' = [req EXCEPT ![h] = Idle] /\ UNCHANGED <<earned, revived>>
    BY <1>6 DEF InsertPayout
  <2>3. KnownInv'
    BY <1>2, <2>2 DEF OverdraftInv, KnownInv, Idle
  <2>4. RowsInv'
    BY <2>1, <2>2 DEF OverdraftInv, KnownInv, RowsInv
  <2> QED BY <1>1, <1>6, <2>3, <2>4, DebtOfInsert
<1>7. ASSUME NEW p \in PayoutIds, NEW s \in PayoutStatuses,
             SetPayoutStatus(p, s)
      PROVE  Kept
  <2>1. /\ \A q \in PayoutIds : payouts'[q].amount = payouts[q].amount
        /\ UNCHANGED <<earned, req>>
    BY <1>1, <1>7, SetCounts DEF SetPayoutStatus
  <2>2. KnownInv' /\ RowsInv'
    BY <2>1 DEF OverdraftInv, KnownInv, RowsInv
  <2> QED BY <1>1, <1>7, <2>2, DebtOfStatus
<1>8. ASSUME NEW net \in Nat, Earn(net)
      PROVE  Kept
  <2>1. earned' = earned + net /\ UNCHANGED <<payouts, req>>
    BY <1>8 DEF Earn
  <2>2. \A h \in Handlers : req[h].earned \in Nat /\ req[h].amount \in Nat
    BY <1>2, PayoutsAssumption DEF Request
  <2>3. \A p \in PayoutIds : payouts[p].amount \in Nat
    BY <1>1, RowsFine
  <2>4. KnownInv' /\ RowsInv'
    BY <1>2, <2>1, <2>2, <2>3 DEF OverdraftInv, KnownInv, RowsInv
  <2> QED BY <1>8, <2>4, DebtOfEarn
<1>9. ASSUME TipCompleted PROVE Kept
  <2>1. PICK t \in Tipped : Earn(CreatorNet(t, PlatformBp, ServiceBp))
    BY <1>9 DEF TipCompleted
  <2>2. CreatorNet(t, PlatformBp, ServiceBp) \in Nat
    BY NetIsNatural, PayoutsAssumption
  <2> QED BY <1>8, <2>1, <2>2
<1>10. ASSUME CommissionCredited PROVE Kept
  <2>1. PICK t \in Referrals : Earn(Portion(t, CommissionBp))
    BY <1>10 DEF CommissionCredited
  <2>2. Portion(t, CommissionBp) \in Nat
    BY PortionNat, PayoutsAssumption
  <2> QED BY <1>8, <2>1, <2>2
<1>11. ASSUME NEW h \in Handlers, Drop(h)
       PROVE  Kept
  <2>1. BackToIdle(h)
    BY <1>11 DEF Drop, BackToIdle
  <2> QED BY <1>4, <2>1
<1>12. ASSUME UNCHANGED vars PROVE Kept
  <2>1. UNCHANGED <<earned, payouts, revived, req>> /\ NotFailed' = NotFailed
    BY <1>12 DEF vars, NotFailed
  <2> QED BY <2>1 DEF OverdraftInv, KnownInv, RowsInv, DebtInv
<1>13. Kept
  BY <1>3, <1>5, <1>6, <1>7, <1>9, <1>10, <1>11, <1>12 DEF Next, Serve
<1> QED BY <1>1, <1>13 DEF OverdraftInv

LEMMA AlwaysBounded == Spec => []OverdraftInv
  BY OverdraftInit, OverdraftStep, PTL DEF Spec

(* A balance is exceeded at most once for each further request served at   *)
(* the same time and once for each failed payout that was taken back.      *)
THEOREM OverdraftCorrect == Spec => []OverdraftExplained
<1>1. OverdraftInv => OverdraftExplained
  <2> SUFFICES ASSUME OverdraftInv PROVE OverdraftExplained
    OBVIOUS
  <2>1. /\ Amounts(payouts, NotFailed) \in Nat
        /\ IsFiniteSet(Waiting(req))
        /\ \A k \in Waiting(req) : req[k].amount \in Nat
    BY RowsFine, HandlersFine, FS_Subset, PayoutsAssumption
       DEF OverdraftInv, Waiting, Request
  <2>2. Owes(req) \in Nat
    BY <2>1, AmountsNat DEF Owes
  <2>3. Amounts(payouts, NotFailed) + Owes(req) <= Bound /\ Bound \in Nat
    BY BoundNat DEF OverdraftInv, DebtInv, Bound
  <2>4. Amounts(payouts, NotFailed) <= Bound
    BY <2>1, <2>2, <2>3
  <2>5. Total(NotFailed) = Amounts(payouts, NotFailed)
    BY DEF Total, Amounts
  <2> QED BY <2>4, <2>5 DEF OverdraftExplained, Bound
<1> QED BY <1>1, AlwaysBounded, PTL

(* With one request at a time, and as long as no failed payout was taken   *)
(* back, no creator withdraws more than what was earned: overlap and the   *)
(* operator are the only ways to it, a restart or a dropped call is none.  *)
THEOREM OneAtATimeIsCovered ==
  ASSUME Cardinality(Handlers) = 1
  PROVE  Spec => [](revived = 0 => NeverOverdrawn)
<1>1. OverdraftExplained /\ TypeOK => (revived = 0 => NeverOverdrawn)
  <2> SUFFICES ASSUME OverdraftExplained, TypeOK, revived = 0
               PROVE  NeverOverdrawn
    OBVIOUS
  <2>1. earned \in Nat
    BY PayoutsAssumption DEF TypeOK
  <2>2. (Cardinality(Handlers) + revived) * earned = earned
    BY <2>1
  <2> QED BY <2>2 DEF OverdraftExplained, NeverOverdrawn
<1> QED BY <1>1, OverdraftCorrect, TypeCorrect, PTL
=============================================================================
