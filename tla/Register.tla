------------------------------- MODULE Register -------------------------------
(***************************************************************************)
(* The registration page of frontend-next (app/register/page.tsx): three   *)
(* steps, a referral code that is looked up while it is typed, and the     *)
(* accounts kept by backend-rust/accounts.                                 *)
(***************************************************************************)
EXTENDS Naturals, FiniteSets

CONSTANTS
  RefCodes,    (* referral codes that can be typed                         *)
  RealCodes,   (* those that exist                                         *)
  NoCode,      (* an empty field                                           *)
  MaxLookups   (* bound: codes typed                                       *)

ASSUME RegisterAssumption == /\ RealCodes \subseteq RefCodes /\ NoCode \notin RefCodes
                             /\ MaxLookups \in Nat

VARIABLES
  step,       (* the step shown: 0 account, 1 security, 2 finish           *)
  valid,      (* the steps whose fields are filled in as they must be      *)
  referral,   (* the code typed                                            *)
  refStatus,  (* "idle", "checking", "valid" or "invalid"                  *)
  lookups,    (* lookups waiting or under way, and whether still wanted    *)
  typings,    (* codes typed so far                                        *)
  misheard,   (* history: the lookup of this code could not be answered    *)
  joining,    (* the account asked for                                     *)
  joined      (* accounts of this email                                    *)

registerVars == <<step, valid, referral, refStatus, lookups, typings, misheard,
                  joining, joined>>

NoJoin == [at |-> "none"]

RegisterInit == /\ step = 0 /\ valid = {}
                /\ referral = NoCode /\ refStatus = "idle" /\ lookups = {}
                /\ typings = 0 /\ misheard = FALSE
                /\ joining = NoJoin /\ joined \in {0, 1}
-----------------------------------------------------------------------------
Looking == UNCHANGED <<step, valid, joining, joined>>

(* The fields of the step shown are filled in, or no longer as they must   *)
(* be: who one is, the password twice, and the terms (and a guardian).     *)
FillIn(s) == /\ step = s
             /\ valid' \in {valid \cup {s}, valid \ {s}}
             /\ UNCHANGED <<step, referral, refStatus, lookups, typings, misheard,
                            joining, joined>>

FillAccount == FillIn(0)
FillSecurity == FillIn(1)
FillFinish == FillIn(2)

(* A code is typed, or comes with the link the page was opened by: lookups *)
(* of earlier codes are no longer wanted.                                  *)
CanTypeCode == step = 2 \/ step + typings = 0

TypeCode ==
  /\ CanTypeCode
  /\ typings < MaxLookups
  /\ typings' = typings + 1
  /\ \E c \in (RefCodes \cup {NoCode}) \ {referral} :
       /\ referral' = c
       /\ refStatus' = IF c = NoCode THEN "idle" ELSE "checking"
       /\ lookups' = {[l EXCEPT !.alive = FALSE] : l \in lookups}
                       \cup {[code |-> k, n |-> typings', alive |-> TRUE] : k \in {c} \ {NoCode}}
  /\ misheard' = FALSE
  /\ Looking

AnswerAnyLookup(l) == \* mutant: answers are heard whether wanted or not
  /\ lookups' = lookups \ {l}
  /\ \E heard \in BOOLEAN :
       /\ refStatus' = IF heard /\ l.code \in RealCodes THEN "valid" ELSE "invalid"
       /\ misheard' = ~heard
  /\ UNCHANGED <<referral, typings>> /\ Looking

(* 400 ms later the lookup is answered, or fails, which also means         *)
(* "invalid"; or it is no longer wanted.                                   *)
AnswerLookup(l) ==
  /\ lookups' = lookups \ {l}
  /\ IF l.alive
       THEN \E heard \in BOOLEAN :
              /\ refStatus' = IF heard /\ l.code \in RealCodes THEN "valid" ELSE "invalid"
              /\ misheard' = ~heard
       ELSE UNCHANGED <<refStatus, misheard>>
  /\ UNCHANGED <<referral, typings>> /\ Looking
-----------------------------------------------------------------------------
Paging == UNCHANGED <<valid, referral, refStatus, lookups, typings, misheard,
                      joining, joined>>

Continue == step < 2 /\ step \in valid /\ step' = step + 1 /\ Paging

StepBack == step > 0 /\ step' = step - 1 /\ Paging

(* handleSubmit: the last step is checked, a code still being looked up is *)
(* let through.                                                            *)
CanSubmit == step = 2 /\ joining = NoJoin

Submit == /\ CanSubmit /\ 2 \in valid
          /\ ~(referral # NoCode /\ refStatus = "invalid")
          /\ joining' = [at |-> "sent", code |-> referral]
          /\ UNCHANGED <<step, valid, referral, refStatus, lookups, typings,
                         misheard, joined>>

(* register: the email is UNIQUE.                                          *)
StoreAccount == /\ joining.at = "sent" /\ joined = 0
                /\ joined' = joined + 1
                /\ joining' = [joining EXCEPT !.at = "stored"]
                /\ UNCHANGED <<step, valid, referral, refStatus, lookups, typings,
                               misheard>>

(* Signed in, and on to the dashboard or the wizard.                       *)
Joined == /\ joining.at = "stored"
          /\ joining' = [joining EXCEPT !.at = "in"]
          /\ UNCHANGED <<step, valid, referral, refStatus, lookups, typings,
                         misheard, joined>>

JoinFails == /\ joining.at \in {"sent", "stored"}
             /\ joining' = NoJoin
             /\ UNCHANGED <<step, valid, referral, refStatus, lookups, typings,
                            misheard, joined>>

RegisterNext == /\ joining.at # "in"
                /\ \/ FillAccount \/ FillSecurity \/ FillFinish
                   \/ TypeCode \/ \E l \in lookups : AnswerLookup(l)
                   \/ Continue \/ StepBack
                   \/ Submit \/ StoreAccount \/ Joined \/ JoinFails
-----------------------------------------------------------------------------
(* What is said of a referral code is said of the code in the field: an    *)
(* answer to an earlier code never lets a code that does not exist through *)
(* as valid, nor refuses one that does unless its own lookup failed.       *)
StatusOfCode ==
  /\ refStatus = "valid" => referral \in RealCodes
  /\ refStatus = "invalid" => referral \notin RealCodes \/ misheard
===============================================================================
