------------------------------ MODULE PagesProofs ------------------------------
(***************************************************************************)
(* Proofs about module Pages, for any number of windows, codes, calls,     *)
(* admins and rows.  A step of the whole is a step or a stutter of every   *)
(* part, so each property follows from an invariant of its own part.       *)
(***************************************************************************)
EXTENDS Pages, FiniteSetTheorems, SequenceTheorems, TLAPS

LEMMA StepsOfParts ==
  ASSUME [Next]_pagesVars
  PROVE  /\ [CodesNext]_codesVars      /\ [SessionNext]_sessionVars
         /\ [RegisterNext]_registerVars /\ [OnboardNext]_onboardVars
         /\ [TipPageNext]_tipPageVars  /\ [CallbackNext]_callbackVars
         /\ [ReaderNext]_readerVars    /\ [VettingNext]_vettingVars
         /\ [DeskNext]_deskVars
BY DEF Next, AtCodes, AtSession, AtRegister, AtOnboard, AtTipPage, AtCallback,
       AtReader, AtVetting, AtDesk, pagesVars
-----------------------------------------------------------------------------
(***************************************************************************)
(* One-time codes.                                                         *)
(***************************************************************************)

Holds(p, c) == verifying[p] = [at |-> "selected", code |-> c]

CodesTyped ==
  /\ otps \in [CodeIds -> {"none", "unused", "used"}]
  /\ newest \in Nat
  /\ verifying \in [OtpPages -> {NoVerify, [at |-> "marked"]}
                                  \cup [at : {"asked", "selected"}, code : CodeIds]]
  /\ accepted \in [CodeIds -> Nat]

(* What was accepted is marked; who still holds it, or holds it with       *)
(* another, held it when it was not.                                       *)
CodesInv ==
  /\ CodesTyped
  /\ \A c \in CodeIds : c > newest => otps[c] = "none"
  /\ \A c \in CodeIds : accepted[c] > 0 => otps[c] = "used"
  /\ \A c \in CodeIds, p \in OtpPages : Holds(p, c) => otps[c] # "none"
  /\ \A c \in CodeIds, p \in OtpPages : accepted[c] > 0 /\ Holds(p, c) => c \in raced
  /\ \A c \in CodeIds, p, q \in OtpPages :
       p # q /\ Holds(p, c) /\ Holds(q, c) => c \in raced
  /\ SpentOnce

LEMMA CodesInitInv == CodesInit => CodesInv
  BY CodesAssumption DEF CodesInit, CodesInv, CodesTyped, CodeIds, NoVerify, Holds,
                         SpentOnce

(* A step of a request or of time.                                         *)
LEMMA RowsKeepInv ==
  ASSUME CodesInv, UNCHANGED <<verifying, raced, accepted>>, newest' \in Nat,
         otps' \in [CodeIds -> {"none", "unused", "used"}],
         \A c \in CodeIds : otps[c] = "used" => otps'[c] = "used",
         \A c \in CodeIds : otps[c] # "none" => otps'[c] # "none",
         \A c \in CodeIds : c > newest' => otps'[c] = "none"
  PROVE  CodesInv'
BY DEF CodesInv, CodesTyped, Holds, SpentOnce

LEMMA CodesStepInv == CodesInv /\ [CodesNext]_codesVars => CodesInv'
<1> SUFFICES ASSUME CodesInv, [CodesNext]_codesVars PROVE CodesInv'
  OBVIOUS
<1>1. ASSUME UNCHANGED <<verifying, raced, accepted, newest, otps>> PROVE CodesInv'
  BY <1>1, RowsKeepInv DEF CodesInv, CodesTyped
<1>2. ASSUME NEW p \in OtpPages, OpenPage(p) \/ Resend(p) \/ Cooled(p) PROVE CodesInv'
  BY <1>1, <1>2 DEF OpenPage, Resend, Cooled
<1>3. ASSUME NEW r \in CodeIds, Retire(r) PROVE CodesInv'
  BY <1>3, RowsKeepInv DEF Retire, CodesInv, CodesTyped
<1>4. ASSUME NEW r \in CodeIds, Insert(r) PROVE CodesInv'
  <2>1. newest' = newest + 1 /\ newest \in Nat /\ \A c \in CodeIds : c \in Nat
    BY <1>4 DEF Insert, CodesInv, CodesTyped, CodeIds
  <2>2. \A c \in CodeIds : otps'[c] = IF c = newest + 1 THEN "unused" ELSE otps[c]
    BY <1>4 DEF Insert, CodesInv, CodesTyped
  <2>3. otps' \in [CodeIds -> {"none", "unused", "used"}]
    BY <1>4 DEF Insert, CodesInv, CodesTyped
  <2>4. \A c \in CodeIds : c > newest => otps[c] = "none"
    BY DEF CodesInv
  <2>5. /\ \A c \in CodeIds : otps[c] = "used" => otps'[c] = "used"
        /\ \A c \in CodeIds : otps[c] # "none" => otps'[c] # "none"
        /\ \A c \in CodeIds : c > newest' => otps'[c] = "none"
    BY <2>1, <2>2, <2>4
  <2> QED BY <1>4, <2>1, <2>3, <2>5, RowsKeepInv DEF Insert
<1>5. ASSUME NEW r \in CodeIds, RequestAnswered(r) \/ RequestFails(r) PROVE CodesInv'
  BY <1>1, <1>5 DEF RequestAnswered, RequestFails, RequestEnds
<1>6. ASSUME NEW c \in CodeIds, Expire(c) PROVE CodesInv'
  BY <1>1, <1>6 DEF Expire
<1>7. ASSUME NEW p \in OtpPages, NEW v, Verifies(p, v), UNCHANGED <<otps, raced, accepted>>,
             v \in {NoVerify} \cup [at : {"asked"}, code : CodeIds]
      PROVE  CodesInv'
  <2>1. \A q \in OtpPages, c \in CodeIds : Holds(q, c)' => Holds(q, c)
    BY <1>7 DEF Verifies, CodesInv, CodesTyped, Holds, NoVerify
  <2>2. CodesTyped'
    BY <1>7 DEF Verifies, CodesInv, CodesTyped
  <2> QED BY <1>7, <2>1, <2>2 DEF Verifies, CodesInv, SpentOnce
<1>8. ASSUME NEW p \in OtpPages, NEW c \in CodeIds, Verify(p, c) PROVE CodesInv'
  BY <1>7, <1>8 DEF Verify
<1>9. ASSUME NEW p \in OtpPages, VerifyFails(p) PROVE CodesInv'
  BY <1>7, <1>9 DEF VerifyFails
<1>10. ASSUME NEW p \in OtpPages, Select(p) PROVE CodesInv'
  <2>1. PICK c \in Unspent \ expired :
          /\ raced' = IF \E q \in OtpPages : Holds(q, c) THEN raced \cup {c} ELSE raced
          /\ Verifies(p, [at |-> "selected", code |-> c])
    BY <1>10 DEF Select, Holds
  <2>2. c \in CodeIds /\ otps[c] = "unused"
    BY <2>1 DEF Unspent
  <2>3. CodesTyped'
    BY <1>10, <2>1, <2>2 DEF Select, Verifies, CodesInv, CodesTyped
  <2>4. raced \subseteq raced' /\ UNCHANGED <<otps, accepted, newest>>
    BY <1>10, <2>1 DEF Select, Verifies
  <2>5. \A q \in OtpPages, d \in CodeIds : Holds(q, d)' => Holds(q, d) \/ (q = p /\ d = c)
    BY <2>1, <2>2 DEF Verifies, CodesInv, CodesTyped, Holds
  <2>6. ~(accepted[c] > 0)
    BY <2>2 DEF CodesInv
  <2>7. \A q \in OtpPages : Holds(q, c) => c \in raced'
    BY <2>1
  <2> QED BY <2>2, <2>3, <2>4, <2>5, <2>6, <2>7 DEF CodesInv, SpentOnce
<1>11. ASSUME NEW p \in OtpPages, Mark(p) PROVE CodesInv'
  <2>1. PICK c \in CodeIds : c = verifying[p].code /\ Holds(p, c)
    BY <1>11 DEF Mark, CodesInv, CodesTyped, Holds, NoVerify
  <2>2. /\ otps' = [otps EXCEPT ![c] = "used"]
        /\ accepted' = [accepted EXCEPT ![c] = @ + 1]
        /\ Verifies(p, [at |-> "marked"])
        /\ UNCHANGED <<raced, newest>>
    BY <1>11, <2>1 DEF Mark, Verifies
  <2>3. CodesTyped'
    BY <2>1, <2>2 DEF Verifies, CodesInv, CodesTyped
  <2>4. \A q \in OtpPages, d \in CodeIds : Holds(q, d)' => Holds(q, d) /\ q # p
    BY <2>2 DEF Verifies, CodesInv, CodesTyped, Holds
  <2>5. /\ accepted[c] \in Nat /\ accepted'[c] = accepted[c] + 1 /\ otps'[c] = "used"
        /\ \A d \in CodeIds \ {c} : accepted'[d] = accepted[d] /\ otps'[d] = otps[d]
    BY <2>1, <2>2 DEF CodesInv, CodesTyped
  <2>6. accepted'[c] > 1 => c \in raced
    BY <2>1, <2>5 DEF CodesInv
  <2>7. ASSUME NEW q \in OtpPages, Holds(q, c)' PROVE c \in raced
    <3>1. Holds(q, c) /\ q # p
      BY <2>1, <2>4, <2>7
    <3>2. \A d \in CodeIds, r, s \in OtpPages :
            r # s /\ Holds(r, d) /\ Holds(s, d) => d \in raced
      BY DEF CodesInv
    <3> QED BY <2>1, <3>1, <3>2
  <2>8. \A d \in CodeIds : accepted'[d] > 0 => otps'[d] = "used"
    BY <2>5 DEF CodesInv
  <2>9. \A d \in CodeIds : d > newest' => otps'[d] = "none"
    BY <2>1, <2>2, <2>5 DEF CodesInv
  <2>10. \A d \in CodeIds, q \in OtpPages : Holds(q, d)' => otps'[d] # "none"
    BY <2>4, <2>5 DEF CodesInv
  <2>11. \A d \in CodeIds, q \in OtpPages :
           accepted'[d] > 0 /\ Holds(q, d)' => d \in raced'
    BY <2>2, <2>4, <2>5, <2>7 DEF CodesInv
  <2>12. \A d \in CodeIds, q, r \in OtpPages :
           q # r /\ Holds(q, d)' /\ Holds(r, d)' => d \in raced'
    BY <2>2, <2>4 DEF CodesInv
  <2>13. SpentOnce'
    BY <2>2, <2>5, <2>6 DEF CodesInv, SpentOnce
  <2> QED BY <2>3, <2>8, <2>9, <2>10, <2>11, <2>12, <2>13 DEF CodesInv
<1>12. CASE UNCHANGED codesVars
  BY <1>1, <1>12 DEF codesVars
<1> QED BY <1>2, <1>3, <1>4, <1>5, <1>6, <1>8, <1>9, <1>10, <1>11, <1>12 DEF CodesNext

(* A code is accepted twice only by verifications that had both selected   *)
(* it before either marked it.                                             *)
THEOREM CodesSpentOnce == Spec => []SpentOnce
<1>1. Init => CodesInv
  BY CodesInitInv DEF Init
<1>2. CodesInv /\ [Next]_pagesVars => CodesInv'
  BY CodesStepInv, StepsOfParts
<1>3. CodesInv => SpentOnce
  BY DEF CodesInv
<1> QED BY <1>1, <1>2, <1>3, PTL DEF Spec

-----------------------------------------------------------------------------
(* The unused codes, as requests that run side by side leave them.         *)
ActiveInv ==
  /\ \A r \in CodeIds : requests[r].at = "retired" /\ ~requests[r].passed => Unspent = {}
  /\ crossed \/ \A c, d \in Unspent : c = d

Requests == [at : {"asked", "retired", "stored"}, page : OtpPages,
             again : BOOLEAN, passed : BOOLEAN]

RequestsTyped ==
  /\ requests \in [CodeIds -> {NoRequest, Ended} \cup Requests]
  /\ otps \in [CodeIds -> {"none", "unused", "used"}]
  /\ crossed \in BOOLEAN

LEMMA ActiveInit == CodesInit => ActiveInv /\ RequestsTyped
  BY DEF CodesInit, ActiveInv, RequestsTyped, Unspent, NoRequest

LEMMA RequestMoves ==
  ASSUME RequestsTyped, NEW r \in CodeIds,
         requests[r].at \in {"asked", "retired", "stored"}
  PROVE  /\ requests[r] \in Requests
         /\ \A a \in {"asked", "retired", "stored"} :
              /\ [requests[r] EXCEPT !.at = a] \in Requests
              /\ [requests[r] EXCEPT !.at = a].at = a
         /\ [requests[r] EXCEPT !.passed = TRUE] \in Requests
         /\ [requests[r] EXCEPT !.passed = TRUE].passed
<1>1. requests[r] \in Requests
  BY DEF RequestsTyped, NoRequest, Ended
<1> QED BY <1>1 DEF Requests

(* Nothing is retired by this step, and no code is inserted.               *)
LEMMA FewerActive ==
  ASSUME ActiveInv, RequestsTyped, UNCHANGED crossed, Unspent' \subseteq Unspent,
         \A r \in CodeIds : requests'[r].at = "retired" =>
           requests[r].at = "retired" /\ requests'[r].passed = requests[r].passed
  PROVE  ActiveInv'
BY DEF ActiveInv

LEMMA RequestStep ==
  ASSUME RequestsTyped, NEW p \in OtpPages, NEW again \in BOOLEAN, Request(p, again)
  PROVE  /\ requests' \in [CodeIds -> {NoRequest, Ended} \cup Requests]
         /\ \A r \in CodeIds : requests'[r].at = "retired" =>
              requests[r].at = "retired" /\ requests'[r].passed = requests[r].passed
BY DEF RequestsTyped, Request, Requests

LEMMA ActiveStep == ActiveInv /\ RequestsTyped /\ [CodesNext]_codesVars
                      => ActiveInv' /\ RequestsTyped'
<1> SUFFICES ASSUME ActiveInv, RequestsTyped, [CodesNext]_codesVars
             PROVE  ActiveInv' /\ RequestsTyped'
  OBVIOUS
<1>1. ASSUME UNCHANGED <<requests, crossed, otps>> PROVE ActiveInv' /\ RequestsTyped'
  BY <1>1 DEF ActiveInv, RequestsTyped, Unspent
<1>2. ASSUME NEW p \in OtpPages, OpenPage(p) \/ Resend(p)
      PROVE  ActiveInv' /\ RequestsTyped'
  <2>1. \E again \in BOOLEAN : Request(p, again)
    BY <1>2 DEF OpenPage, Resend
  <2>2. UNCHANGED <<otps, crossed>> /\ Unspent' = Unspent
    BY <1>2 DEF OpenPage, Resend, Unspent
  <2> QED BY <2>1, <2>2, RequestStep, FewerActive DEF RequestsTyped
<1>3. ASSUME NEW r \in CodeIds, Retire(r) PROVE ActiveInv' /\ RequestsTyped'
  <2>1. Unspent' = {}
    BY <1>3 DEF Retire, Unspent, RequestsTyped
  <2>2. RequestsTyped'
    <3>1. requests' = [requests EXCEPT ![r] = [requests[r] EXCEPT !.at = "retired"]]
      BY <1>3 DEF Retire
    <3>2. [requests[r] EXCEPT !.at = "retired"] \in Requests
      BY <1>3, RequestMoves DEF Retire
    <3>3. requests' \in [CodeIds -> {NoRequest, Ended} \cup Requests]
      BY <3>1, <3>2 DEF RequestsTyped
    <3>4. otps' \in [CodeIds -> {"none", "unused", "used"}] /\ crossed' \in BOOLEAN
      BY <1>3 DEF Retire, RequestsTyped
    <3> QED BY <3>3, <3>4 DEF RequestsTyped
  <2> QED BY <2>1, <2>2 DEF ActiveInv
<1>4. ASSUME NEW r \in CodeIds, Insert(r) PROVE ActiveInv' /\ RequestsTyped'
  <2>1. requests[r] \in Requests /\ requests[r].passed \in BOOLEAN
    BY <1>4, RequestMoves DEF Insert, Requests
  <2>2. requests' = [q \in CodeIds |->
                       IF q = r THEN [requests[q] EXCEPT !.at = "stored"]
                       ELSE IF requests[q].at = "retired"
                         THEN [requests[q] EXCEPT !.passed = TRUE]
                       ELSE requests[q]]
    BY <1>4 DEF Insert
  <2>3. ASSUME NEW q \in CodeIds
        PROVE  /\ requests'[q] \in {NoRequest, Ended} \cup Requests
               /\ requests'[q].at = "retired" => requests'[q].passed
    <3>1. CASE q = r
      <4>1. requests'[q] = [requests[r] EXCEPT !.at = "stored"]
        BY <2>2, <3>1
      <4> QED BY <1>4, <4>1, RequestMoves DEF Insert
    <3>2. CASE q # r /\ requests[q].at = "retired"
      <4>1. requests'[q] = [requests[q] EXCEPT !.passed = TRUE]
        BY <2>2, <3>2
      <4> QED BY <3>2, <4>1, RequestMoves
    <3>3. CASE q # r /\ requests[q].at # "retired"
      BY <2>2, <3>3 DEF RequestsTyped
    <3> QED BY <3>1, <3>2, <3>3
  <2>4. RequestsTyped'
    <3>1. requests' \in [CodeIds -> {NoRequest, Ended} \cup Requests]
      BY <2>2, <2>3
    <3>2. otps' \in [CodeIds -> {"none", "unused", "used"}] /\ crossed' \in BOOLEAN
      BY <1>4, <2>1 DEF Insert, RequestsTyped
    <3> QED BY <3>1, <3>2 DEF RequestsTyped
  <2>5. Unspent' \subseteq Unspent \cup {newest'}
    BY <1>4 DEF Insert, Unspent, RequestsTyped
  <2>6. crossed' \/ \A c, d \in Unspent' : c = d
    <3>1. CASE requests[r].passed
      BY <1>4, <2>1, <3>1 DEF Insert, RequestsTyped
    <3>2. CASE ~requests[r].passed
      <4>1. Unspent = {}
        BY <1>4, <3>2 DEF Insert, ActiveInv
      <4> QED BY <2>5, <4>1
    <3> QED BY <3>1, <3>2
  <2> QED BY <2>3, <2>4, <2>6 DEF ActiveInv
<1>5. ASSUME NEW r \in CodeIds, RequestAnswered(r) \/ RequestFails(r)
      PROVE  ActiveInv' /\ RequestsTyped'
  <2>1. /\ requests' = [requests EXCEPT ![r] = Ended] /\ UNCHANGED <<otps, crossed>>
        /\ Unspent' = Unspent
    BY <1>5 DEF RequestAnswered, RequestFails, RequestEnds, Unspent
  <2>2. RequestsTyped'
    BY <2>1 DEF RequestsTyped
  <2>3. \A q \in CodeIds : requests'[q].at = "retired" =>
          requests[q].at = "retired" /\ requests'[q].passed = requests[q].passed
    BY <2>1 DEF RequestsTyped, Ended
  <2> QED BY <2>1, <2>2, <2>3, FewerActive
<1>6. ASSUME NEW p \in OtpPages, Mark(p) PROVE ActiveInv' /\ RequestsTyped'
  <2>1. UNCHANGED <<requests, crossed>>
        /\ otps' = [otps EXCEPT ![verifying[p].code] = "used"]
    BY <1>6 DEF Mark, Verifies
  <2>2. Unspent' \subseteq Unspent
    BY <2>1 DEF Unspent, RequestsTyped
  <2>3. RequestsTyped'
    BY <2>1 DEF RequestsTyped
  <2> QED BY <2>1, <2>2, <2>3, FewerActive
<1>7. ASSUME NEW p \in OtpPages,
             Cooled(p) \/ Select(p) \/ VerifyFails(p) \/ \E c \in CodeIds : Verify(p, c)
      PROVE  ActiveInv' /\ RequestsTyped'
  BY <1>1, <1>7 DEF Cooled, Select, VerifyFails, Verify, Verifies
<1>8. ASSUME NEW c \in CodeIds, Expire(c) PROVE ActiveInv' /\ RequestsTyped'
  BY <1>1, <1>8 DEF Expire
<1>9. CASE UNCHANGED codesVars
  BY <1>1, <1>9 DEF codesVars
<1> QED BY <1>2, <1>3, <1>4, <1>5, <1>6, <1>7, <1>8, <1>9 DEF CodesNext

LEMMA AtMostOne ==
  ASSUME NEW S, \A c, d \in S : c = d
  PROVE  ~(Cardinality(S) > 1)
<1>1. CASE S = {}
  BY <1>1, FS_EmptySet
<1>2. CASE S # {}
  <2>1. PICK c : S = {c}
    BY <1>2
  <2> QED BY <2>1, FS_Singleton
<1> QED BY <1>1, <1>2

(* One unused code, but for overlapping requests that none has followed.   *)
THEOREM OneCodeActive == Spec => []OneActive
<1>1. Init => ActiveInv /\ RequestsTyped
  BY ActiveInit DEF Init
<1>2. ActiveInv /\ RequestsTyped /\ [Next]_pagesVars => ActiveInv' /\ RequestsTyped'
  BY ActiveStep, StepsOfParts
<1>3. ActiveInv => OneActive
  BY AtMostOne DEF ActiveInv, OneActive
<1> QED BY <1>1, <1>2, <1>3, PTL DEF Spec

-----------------------------------------------------------------------------
(***************************************************************************)
(* Who is signed in.                                                       *)
(***************************************************************************)

Holders == Accounts \cup {NoOne}

SessionInv == /\ stored \in Holders
              /\ token \in [Windows -> Holders] /\ user \in [Windows -> Holders]
              /\ owning \in [Windows -> Holders] /\ signing \in [Windows -> Holders]
              /\ SameIdentity

LEMMA SessionStepInv == SessionInv /\ [SessionNext]_sessionVars => SessionInv'
<1> SUFFICES ASSUME SessionInv, [SessionNext]_sessionVars PROVE SessionInv'
  OBVIOUS
<1> USE DEF SessionInv, SameIdentity, isAuthenticated, Holders
<1>1. ASSUME NEW w \in Windows, Boot(w) PROVE SessionInv'
  BY <1>1 DEF Boot
<1>2. ASSUME NEW w \in Windows, MeAnswered(w) PROVE SessionInv'
  BY <1>2 DEF MeAnswered, MeEnds
<1>3. ASSUME NEW w \in Windows, MeFails(w) PROVE SessionInv'
  BY <1>3 DEF MeFails, MeEnds
<1>4. ASSUME NEW w \in Windows, NEW a \in Accounts, SignIn(w, a) PROVE SessionInv'
  BY <1>4 DEF SignIn
<1>5. ASSUME NEW w \in Windows, SignedIn(w) PROVE SessionInv'
  BY <1>5 DEF SignedIn, Persist
<1>6. ASSUME NEW w \in Windows, SignInFails(w) PROVE SessionInv'
  BY <1>6 DEF SignInFails
<1>7. ASSUME NEW w \in Windows, SignOut(w) PROVE SessionInv'
  BY <1>7 DEF SignOut
<1>8. CASE UNCHANGED sessionVars
  BY <1>8 DEF sessionVars
<1> QED BY <1>1, <1>2, <1>3, <1>4, <1>5, <1>6, <1>7, <1>8 DEF SessionNext

(* The account shown is the account acted for, but where the first answer  *)
(* came after somebody had signed in or out.                               *)
THEOREM IdentityIsOne == Spec => []SameIdentity
<1>1. Init => SessionInv
  BY DEF Init, SessionInit, SessionInv, SameIdentity, isAuthenticated, Holders
<1>2. SessionInv /\ [Next]_pagesVars => SessionInv'
  BY SessionStepInv, StepsOfParts
<1>3. SessionInv => SameIdentity
  BY DEF SessionInv
<1> QED BY <1>1, <1>2, <1>3, PTL DEF Spec
-----------------------------------------------------------------------------
(***************************************************************************)
(* Referral codes and quotes: what is still wanted is about what is shown. *)
(***************************************************************************)

Lookups == [code : RefCodes, n : Nat, alive : BOOLEAN]

LookupInv == /\ lookups \subseteq Lookups /\ typings \in Nat
             /\ \A l \in lookups : l.alive => l.code = referral
             /\ StatusOfCode

LEMMA LookupStepInv == LookupInv /\ [RegisterNext]_registerVars => LookupInv'
<1> SUFFICES ASSUME LookupInv, [RegisterNext]_registerVars PROVE LookupInv'
  OBVIOUS
<1>1. ASSUME UNCHANGED <<referral, refStatus, lookups, typings, misheard>> PROVE LookupInv'
  BY <1>1 DEF LookupInv, StatusOfCode
<1>2. CASE TypeCode
  <2> DEFINE dead == {[l EXCEPT !.alive = FALSE] : l \in lookups}
             new(c) == {[code |-> k, n |-> typings', alive |-> TRUE] : k \in {c} \ {NoCode}}
  <2>1. PICK c \in RefCodes \cup {NoCode} :
          /\ referral' = c
          /\ refStatus' = IF c = NoCode THEN "idle" ELSE "checking"
          /\ lookups' = dead \cup new(c)
    BY <1>2 DEF TypeCode
  <2>2. typings' \in Nat
    BY <1>2 DEF TypeCode, LookupInv
  <2>3. \A l \in dead : l \in Lookups /\ ~l.alive
    BY DEF LookupInv, Lookups
  <2>4. \A l \in new(c) : l \in Lookups /\ l.code = c
    <3>1. \A k \in {c} \ {NoCode} : /\ k \in RefCodes /\ k = c
                                    /\ [code |-> k, n |-> typings', alive |-> TRUE] \in Lookups
      BY <2>2 DEF Lookups
    <3> QED BY <3>1
  <2> HIDE DEF dead, new
  <2>5. lookups' \subseteq Lookups /\ \A l \in lookups' : l.alive => l.code = referral'
    BY <2>1, <2>3, <2>4
  <2> QED BY <2>1, <2>2, <2>5 DEF LookupInv, StatusOfCode
<1>3. ASSUME NEW l \in lookups, AnswerLookup(l) PROVE LookupInv'
  <2>1. UNCHANGED <<referral, typings>> /\ lookups' = lookups \ {l}
    BY <1>3 DEF AnswerLookup
  <2>2. StatusOfCode'
    BY <1>3 DEF AnswerLookup, LookupInv, StatusOfCode
  <2> QED BY <2>1, <2>2 DEF LookupInv
<1>4. CASE UNCHANGED registerVars
  BY <1>1, <1>4 DEF registerVars
<1> QED BY <1>1, <1>2, <1>3, <1>4
        DEF RegisterNext, FillAccount, FillSecurity, FillFinish, FillIn, Continue,
            StepBack, Paging, Submit, StoreAccount, Joined, JoinFails

(* What is said of a referral code is said of the code in the field.       *)
THEOREM StatusIsOfCode == Spec => []StatusOfCode
<1>1. Init => LookupInv
  BY DEF Init, RegisterInit, LookupInv, StatusOfCode
<1>2. LookupInv /\ [Next]_pagesVars => LookupInv'
  BY LookupStepInv, StepsOfParts
<1>3. LookupInv => StatusOfCode
  BY DEF LookupInv
<1> QED BY <1>1, <1>2, <1>3, PTL DEF Spec

Quotes == [of : Nat, n : Nat, alive : BOOLEAN]

QuoteInv == /\ amount \in Nat /\ changes \in Nat /\ quoting \subseteq Quotes
            /\ \A q \in quoting : q.alive => q.of = amount
            /\ QuoteIsOfAmount

LEMMA QuotingIs ==
  ASSUME NEW a \in Nat, NEW n \in Nat
  PROVE  /\ Quoting(a, n) \subseteq Quotes
         /\ \A q \in Quoting(a, n) : q.alive /\ q.of = a
         /\ a >= MinTip => Quoting(a, n) # {}
<1>1. [of |-> a, n |-> n, alive |-> TRUE] \in Quotes
  BY DEF Quotes
<1>2. CASE a < MinTip
  BY <1>2 DEF Quoting, MinTip
<1>3. CASE ~(a < MinTip)
  <2>1. Quoting(a, n) = {[of |-> a, n |-> n, alive |-> TRUE]}
    BY <1>3 DEF Quoting
  <2> QED BY <1>1, <2>1
<1> QED BY <1>2, <1>3

LEMMA QuoteStepInv == QuoteInv /\ [TipPageNext]_tipPageVars => QuoteInv'
<1> SUFFICES ASSUME QuoteInv, [TipPageNext]_tipPageVars PROVE QuoteInv'
  OBVIOUS
<1>1. ASSUME UNCHANGED <<amount, quote, quoting, changes>> PROVE QuoteInv'
  BY <1>1 DEF QuoteInv, QuoteIsOfAmount, Slip
<1>2. CASE ChangeAmount
  <2> DEFINE dead == {[q EXCEPT !.alive = FALSE] : q \in quoting}
             new == Quoting(amount', changes')
  <2>1. amount' \in Nat /\ changes' \in Nat /\ quoting' = dead \cup new
    BY <1>2, TipPageAssumption DEF ChangeAmount, Offered, QuoteInv
  <2>2. \A q \in dead : q \in Quotes /\ ~q.alive
    BY DEF QuoteInv, Quotes
  <2>3. /\ new \subseteq Quotes
        /\ \A q \in new : q.alive /\ q.of = amount'
        /\ amount' >= MinTip => new # {}
    BY <2>1, QuotingIs
  <2> HIDE DEF dead, new
  <2>4. QuoteIsOfAmount'
    BY <2>1, <2>3 DEF QuoteIsOfAmount, Slip
  <2>5. quoting' \subseteq Quotes /\ \A q \in quoting' : q.alive => q.of = amount'
    BY <2>1, <2>2, <2>3
  <2> QED BY <2>1, <2>4, <2>5 DEF QuoteInv
<1>3. ASSUME NEW q \in quoting, QuoteAnswered(q) PROVE QuoteInv'
  <2>1. quoting' = quoting \ {q} /\ UNCHANGED <<amount, changes>>
    BY <1>3 DEF QuoteAnswered
  <2>2. CASE q.alive
    BY <1>3, <2>1, <2>2 DEF QuoteAnswered, QuoteInv, QuoteIsOfAmount, Slip
  <2>3. CASE ~q.alive
    BY <1>3, <2>1, <2>3 DEF QuoteAnswered, QuoteInv, QuoteIsOfAmount, Slip
  <2> QED BY <2>2, <2>3
<1>4. CASE UNCHANGED tipPageVars
  BY <1>1, <1>4 DEF tipPageVars
<1> QED BY <1>1, <1>2, <1>3, <1>4
        DEF TipPageNext, CreatorLoaded, JarLoaded, Pay, Checkout, ToGateway, PayFails

LEMMA QuoteStart == TipPageInit => QuoteInv
<1> SUFFICES ASSUME TipPageInit PROVE QuoteInv
  OBVIOUS
<1>1. 20 >= MinTip
  BY DEF MinTip
<1>2. /\ quoting \subseteq Quotes /\ quoting # {}
      /\ \A q \in quoting : q.alive /\ q.of = 20
  BY <1>1, QuotingIs DEF TipPageInit
<1> QED BY <1>2 DEF TipPageInit, QuoteInv, QuoteIsOfAmount

(* Once no quote of this amount is awaited, the fees shown are its own.    *)
THEOREM QuoteStaysOfAmount == Spec => []QuoteIsOfAmount
<1>1. Init => QuoteInv
  BY QuoteStart DEF Init
<1>2. QuoteInv /\ [Next]_pagesVars => QuoteInv'
  BY QuoteStepInv, StepsOfParts
<1>3. QuoteInv => QuoteIsOfAmount
  BY DEF QuoteInv
<1> QED BY <1>1, <1>2, <1>3, PTL DEF Spec
-----------------------------------------------------------------------------
(***************************************************************************)
(* The page after the payment.                                             *)
(***************************************************************************)

(* "Completed" is only said, by whom it is said, of what the gateway       *)
(* completed, which stays; what the page is told follows the row.          *)
CallbackInv ==
  /\ ledger \in {"pending"} \cup Outcomes
  /\ notices \subseteq Outcomes
  /\ "completed" \in notices \cup {ledger, verdict} => gateway = "completed"
  /\ answer = "completed" => ledger = "completed"
  /\ answer = "failed" => ledger = "failed" \/ gateway = "completed"
  /\ SettledIsTrue

LEMMA CallbackStepInv == CallbackInv /\ [CallbackNext]_callbackVars => CallbackInv'
<1> SUFFICES ASSUME CallbackInv, [CallbackNext]_callbackVars PROVE CallbackInv'
  OBVIOUS
<1> USE DEF CallbackInv, SettledIsTrue, Outcomes, SaysReceived, SaysNotCharged
<1>1. CASE GatewaySettles
  BY <1>1 DEF GatewaySettles
<1>2. CASE Notify
  BY <1>2 DEF Notify
<1>3. CASE ServeReconcile
  BY <1>3 DEF ServeReconcile
<1>4. CASE Reconcile
  BY <1>4 DEF Reconcile
<1>5. CASE ServeRead
  BY <1>5 DEF ServeRead
<1>6. CASE Answered
  BY <1>6 DEF Answered, Page
<1>7. CASE Undecided \/ ReadFails
  BY <1>7 DEF Undecided, ReadFails, TryAgain, Page
<1>8. CASE ReadInstead
  BY <1>8 DEF ReadInstead
<1>9. CASE Wake
  BY <1>9 DEF Wake, Page
<1>10. CASE CheckAgain
  BY <1>10 DEF CheckAgain, Page
<1>11. CASE UNCHANGED callbackVars
  BY <1>11 DEF callbackVars
<1> QED BY <1>1, <1>2, <1>3, <1>4, <1>5, <1>6, <1>7, <1>8, <1>9, <1>10, <1>11
        DEF CallbackNext, Poll

(* "Payment received!" and "Your card was not charged" are true.           *)
THEOREM SettledStaysTrue == Spec => []SettledIsTrue
<1>1. Init => CallbackInv
  BY DEF Init, CallbackInit, CallbackInv, SettledIsTrue, Outcomes, SaysReceived,
         SaysNotCharged
<1>2. CallbackInv /\ [Next]_pagesVars => CallbackInv'
  BY CallbackStepInv, StepsOfParts
<1>3. CallbackInv => SettledIsTrue
  BY DEF CallbackInv
<1> QED BY <1>1, <1>2, <1>3, PTL DEF Spec

(* A step of the page or of the flow behind it takes the row where the     *)
(* promised ledger goes.                                                   *)
LEMMA RowMoves ==
  ASSUME CallbackInv, [CallbackNext]_callbackVars, ledger' # ledger
  PROVE  /\ ledger \in {"pending", "failed"} /\ ledger' \in Outcomes
         /\ ledger' = "failed" => ledger = "pending"
<1>1. CASE Notify
  BY <1>1 DEF Notify, CallbackInv, Outcomes
<1>2. CASE Reconcile
  BY <1>2 DEF Reconcile, CallbackInv, Outcomes
<1> QED BY <1>1, <1>2 DEF CallbackNext, Poll, GatewaySettles, ServeReconcile, ServeRead, Answered,
           Undecided, ReadInstead, ReadFails, TryAgain, Wake, CheckAgain, Page, callbackVars

LEMMA RowIsPromised ==
  ASSUME CallbackInv, [CallbackNext]_callbackVars
  PROVE  [Promise!Next]_ledger
<1> SUFFICES ASSUME ledger' # ledger PROVE Promise!Next
  OBVIOUS
<1> DEFINE status(l) == [o \in {"order"} |-> l]
<1>1. status(ledger') = [status(ledger) EXCEPT !["order"] = ledger'] /\ status(ledger)["order"] = ledger
  OBVIOUS
<1>2. CASE ledger' = "completed"
  <2>1. ledger \in {"pending", "failed"}
    BY RowMoves
  <2>2. Promise!Complete("order")
    BY <1>1, <1>2, <2>1 DEF Promise!Complete, Promise!Become
  <2> QED BY <2>2 DEF Promise!Next
<1>3. CASE ledger' = "failed"
  <2>1. ledger = "pending"
    BY <1>3, RowMoves
  <2>2. Promise!Fail("order")
    BY <1>1, <1>3, <2>1 DEF Promise!Fail, Promise!Become
  <2> QED BY <2>2 DEF Promise!Next
<1> QED BY <1>2, <1>3, RowMoves DEF Outcomes

(* The row moves as TipLedger says, whatever the page and the webhook do.  *)
THEOREM RowStaysPromised == Spec => RowKeepsPromise
<1>1. Init => CallbackInv
  BY DEF Init, CallbackInit, CallbackInv, SettledIsTrue, Outcomes, SaysReceived,
         SaysNotCharged
<1>2. CallbackInv /\ [Next]_pagesVars => CallbackInv'
  BY CallbackStepInv, StepsOfParts
<1>3. CallbackInv /\ [Next]_pagesVars => [Promise!Next]_ledger
  BY RowIsPromised, StepsOfParts
<1> QED BY <1>1, <1>2, <1>3, PTL DEF Spec, RowKeepsPromise

-----------------------------------------------------------------------------
(***************************************************************************)
(* The wizard.                                                             *)
(***************************************************************************)

Asks(b) == 1..Len(Steps(b))

LEMMA StepsKnown ==
  /\ Len(Steps("none")) = 1
  /\ Len(Steps("individual")) = 10
  /\ Len(Steps("organisation")) = 8
BY DEF Steps, Individual, Organisation

(* No question is asked twice.                                             *)
LEMMA StepsApart ==
  ASSUME NEW b \in Branches, NEW i \in Asks(b), NEW j \in Asks(b), i # j
  PROVE  Steps(b)[i] \cap Steps(b)[j] = {}
<1>1. CASE b = "individual"
  BY <1>1, StepsKnown DEF Steps, Individual, Asks
<1>2. CASE b = "organisation"
  BY <1>2, StepsKnown DEF Steps, Organisation, Asks
<1> QED BY <1>1, <1>2 DEF Branches

(* Every question of a branch is among what was answered.                  *)
Complete(b, g) == \A i \in Asks(b) : Steps(b)[i] \subseteq g

PageOf(b, g, w, d) == [made |-> TRUE, by |-> "wizard", branch |-> b,
                       given |-> g, whole |-> w, docs |-> d]

ByWizard(m) == \E b, g, w, d : b \in Branches /\ m = PageOf(b, g, w, d) /\ Complete(b, g)

Sent(s) == \E b, g, w, d :
             /\ b \in Branches
             /\ s = [at |-> "creating", branch |-> b, given |-> g, whole |-> w, docs |-> d]
             /\ Complete(b, g)

(* The questions of the steps gone by are answered, and so is all of them  *)
(* in what a save sent and in the page made of it.                         *)
WizardInv ==
  /\ branch \in Branches \cup {"none"}
  /\ ask \in Asks(branch)
  /\ \A i \in Asks(branch) : i < ask => Steps(branch)[i] \subseteq given
  /\ saving.at = "creating" => Sent(saving)
  /\ saving.at = "created" => ByWizard(mine)
  /\ mine \in {NoPage, Before} \/ ByWizard(mine)

LEMMA WizardPages ==
  /\ ~NoPage.made /\ Before.by # "wizard"
  /\ \A b, g, w, d : LET m == PageOf(b, g, w, d)
                     IN  m.made /\ m.by = "wizard" /\ m.branch = b /\ m.given = g
BY DEF NoPage, Before, PageOf

LEMMA WizardIsComplete == WizardInv => WizardComplete
<1>1. ASSUME ByWizard(mine) PROVE WizardComplete
  BY <1>1, WizardPages DEF ByWizard, WizardComplete, Complete, Asks
<1>2. ASSUME mine \in {NoPage, Before} PROVE WizardComplete
  BY <1>2, WizardPages DEF WizardComplete
<1> QED BY <1>1, <1>2 DEF WizardInv

LEMMA WizardInit == OnboardInit => WizardInv
<1>1. Asks("none") = 1..1
  BY StepsKnown, Zenon DEF Asks
<1>2. \A i \in 1..1 : ~(i < 1)
  OBVIOUS
<1>3. OnboardInit => branch = "none" /\ ask = 1 /\ saving.at = "none" /\ mine \in {NoPage, Before}
  BY DEF OnboardInit, NoSave
<1> QED BY <1>1, <1>2, <1>3 DEF WizardInv

LEMMA WizardStep == WizardInv /\ [OnboardNext]_onboardVars => WizardInv'
<1> SUFFICES ASSUME WizardInv, [OnboardNext]_onboardVars PROVE WizardInv'
  OBVIOUS
<1>0. ask \in Asks(branch) /\ Len(Steps(branch)) \in Nat /\ ask \in Nat
  BY StepsKnown DEF WizardInv, Branches, Asks
<1>1. ASSUME UNCHANGED <<branch, ask, saving, mine>>, given \subseteq given'
      PROVE  WizardInv'
  BY <1>1 DEF WizardInv
<1>2. ASSUME NEW b \in Branches, ChooseType(b) PROVE WizardInv'
  <2>1. 1 \in Asks(b) /\ \A i \in Asks(b) : ~(i < 1)
    BY StepsKnown DEF Asks, Branches
  <2> QED BY <1>2, <2>1 DEF ChooseType, Editing, WizardInv
<1>3. ASSUME NEW q, Answer(q) PROVE WizardInv'
  BY <1>1, <1>3 DEF Answer, Editing
<1>4. ASSUME NEW q \in Asked, Clear(q) PROVE WizardInv'
  <2>1. \A i \in Asks(branch) : i < ask => q \notin Steps(branch)[i]
    <3>1. CASE branch = "none"
      <4>1. Asks(branch) = 1..1
        BY <3>1, StepsKnown, Zenon DEF Asks
      <4> QED BY <1>0, <4>1
    <3>2. CASE branch \in Branches
      <4>1. \A i \in Asks(branch) : i < ask => i # ask
        BY <1>0 DEF Asks
      <4>2. \A i \in Asks(branch) : i < ask => Steps(branch)[i] \cap Steps(branch)[ask] = {}
        BY <1>0, <3>2, <4>1, StepsApart
      <4> QED BY <4>2 DEF Asked
    <3> QED BY <3>1, <3>2 DEF WizardInv
  <2> QED BY <1>4, <2>1 DEF Clear, Editing, WizardInv
<1>5. CASE FillBank \/ ClearDocuments \/ \E d \in Documents : ReadDocument(d)
  BY <1>1, <1>5 DEF FillBank, ClearDocuments, ReadDocument, Editing
<1>6. ASSUME NEW d \in Documents, DocumentRead(d) PROVE WizardInv'
  BY <1>1, <1>6 DEF DocumentRead
<1>7. ASSUME ask = 1 => branch # "none", CanProceed
      PROVE  \A i \in Asks(branch) : i <= ask => Steps(branch)[i] \subseteq given
  <2>1. CASE ask = 1
    <3>1. Steps(branch)[1] = {}
      BY <1>7, <2>1 DEF WizardInv, Branches, Steps, Individual, Organisation
    <3> QED BY <2>1, <3>1 DEF Asks
  <2>2. CASE ask # 1
    <3>1. Steps(branch)[ask] \subseteq given
      BY <1>7, <2>2 DEF CanProceed, Asked
    <3> QED BY <1>0, <3>1 DEF WizardInv, Asks
  <2> QED BY <2>1, <2>2
<1>8. CASE Advance
  <2>1. ask' = ask + 1 /\ ask < Len(Steps(branch)) /\ UNCHANGED <<branch, given, saving, mine>>
    BY <1>8 DEF Advance, Last, Editing
  <2>2. \A i \in Asks(branch) : i <= ask => Steps(branch)[i] \subseteq given
    BY <1>7, <1>8 DEF Advance, CanProceed
  <2>3. ask' \in Asks(branch) /\ \A i \in Asks(branch) : i < ask' => i <= ask
    BY <1>0, <2>1 DEF Asks
  <2> QED BY <2>1, <2>2, <2>3 DEF WizardInv
<1>9. CASE Back
  <2>1. ask' = ask - 1 /\ ask > 1 /\ UNCHANGED <<branch, given, saving, mine>>
    BY <1>9 DEF Back, Editing
  <2>2. ask' \in Asks(branch) /\ \A i \in Asks(branch) : i < ask' => i < ask
    BY <1>0, <2>1 DEF Asks
  <2> QED BY <2>1, <2>2 DEF WizardInv
<1>10. ASSUME UNCHANGED <<branch, ask, given>>,
              saving'.at = "creating" => Sent(saving'),
              saving'.at = "created" => ByWizard(mine'),
              mine' \in {NoPage, Before} \/ ByWizard(mine')
       PROVE  WizardInv'
  BY <1>10 DEF WizardInv
<1>11. CASE Finish
  <2>1. branch \in Branches
    BY <1>11, StepsKnown DEF Finish, CanProceed, Last, WizardInv
  <2>2. Complete(branch, given)
    <3>1. \A i \in Asks(branch) : i <= ask
      BY <1>0, <1>11 DEF Finish, Last, Asks
    <3> QED BY <1>7, <1>11, <3>1 DEF Finish, CanProceed, Complete
  <2>3. Sent(saving') /\ saving'.at = "creating"
    BY <1>11, <2>1, <2>2 DEF Finish, Sent
  <2> QED BY <1>10, <1>11, <2>3 DEF Finish, Saving, WizardInv
<1>12. CASE CreateCreator
  <2>1. PICK b, g, w, d :
          /\ b \in Branches
          /\ saving = [at |-> "creating", branch |-> b, given |-> g, whole |-> w, docs |-> d]
          /\ Complete(b, g)
    BY <1>12 DEF CreateCreator, WizardInv, Sent
  <2>2. mine' = PageOf(b, g, FALSE, {})
    BY <1>12, <2>1 DEF CreateCreator, PageOf
  <2>3. ByWizard(mine') /\ saving'.at = "created"
    BY <1>12, <2>1, <2>2 DEF CreateCreator, ByWizard
  <2> QED BY <1>10, <1>12, <2>3 DEF CreateCreator, Saving
<1>13. CASE Conflict \/ CreateFails \/ ToDashboard \/ ToLogin
  <2>1. saving' = NoSave /\ UNCHANGED <<mine, branch, ask, given>>
    BY <1>13 DEF Conflict, CreateFails, ToDashboard, ToLogin, Saving
  <2> QED BY <1>10, <2>1 DEF NoSave, WizardInv
<1>14. CASE FollowUp
  <2>1. PICK b, g, w, d : b \in Branches /\ mine = PageOf(b, g, w, d) /\ Complete(b, g)
    BY <1>14 DEF FollowUp, WizardInv, ByWizard
  <2>2. mine' = PageOf(b, g, saving.whole, saving.docs)
    BY <1>14, <2>1 DEF FollowUp, PageOf
  <2>3. ByWizard(mine')
    BY <2>1, <2>2 DEF ByWizard
  <2>4. UNCHANGED <<branch, ask, given>> /\ saving' = [saving EXCEPT !.at = "followed"]
    BY <1>14 DEF FollowUp, Saving
  <2> QED BY <1>10, <1>14, <2>3, <2>4
<1>15. CASE UNCHANGED onboardVars
  BY <1>1, <1>15 DEF onboardVars
<1> QED BY <1>2, <1>3, <1>4, <1>5, <1>6, <1>8, <1>9, <1>11, <1>12, <1>13, <1>14, <1>15
        DEF OnboardNext

(* Every question of its branch was answered when a page is made.          *)
THEOREM WizardStaysComplete == Spec => []WizardComplete
<1>1. Init => WizardInv
  BY WizardInit DEF Init
<1>2. WizardInv /\ [Next]_pagesVars => WizardInv'
  BY WizardStep, StepsOfParts
<1> QED BY <1>1, <1>2, WizardIsComplete, PTL DEF Spec

-----------------------------------------------------------------------------
(***************************************************************************)
(* The supporters' vault.                                                  *)
(***************************************************************************)

Unlocks == [id : Nat, email : Emails, tiers : SUBSET Tiers,
            at : {"asked", "granted", "refused"}]
Subscribings == [id : Nat, email : Emails, tiers : SUBSET Tiers, at : {"asked", "stored"}]

ReaderTyped ==
  /\ email \in Emails /\ subs \in [Emails -> SUBSET Tiers] /\ subTier \in SUBSET Tiers
  /\ unlocks \subseteq Unlocks /\ subscribing \subseteq Subscribings
  /\ calls \in Nat /\ doubtful \in BOOLEAN

(* These are the tiers of now, or a subscription was stored since that the *)
(* page is yet to hear of.                                                 *)
Agree(tiers) == tiers = subs[email] \/ \E s \in subscribing : s.at = "stored"

(* While there is no doubt, one unlock at most is under way, everything is *)
(* about the email shown, and what was granted or is shown agrees.         *)
NoDoubt ==
  /\ \A u, v \in unlocks : u = v
  /\ \A u \in unlocks : u.email = email
  /\ \A s \in subscribing : s.email = email
  /\ PostsShown => posts.of = email
  /\ \A u \in unlocks : u.at = "granted" => Agree(u.tiers)
  /\ PostsShown /\ unlocks = {} => Agree(posts.tiers)

ReaderInv == ReaderTyped /\ (~doubtful => NoDoubt)

LEMMA ReaderIsCurrent == ReaderInv => VaultCurrent
  BY DEF ReaderInv, NoDoubt, Agree, VaultCurrent

LEMMA ReaderStep == ReaderInv /\ [ReaderNext]_readerVars => ReaderInv'
<1> SUFFICES ASSUME ReaderInv, [ReaderNext]_readerVars PROVE ReaderInv'
  OBVIOUS
<1>0. ReaderTyped /\ (~doubtful => NoDoubt)
  BY DEF ReaderInv
<1>1. CASE TypeEmail
  <2>1. ReaderTyped'
    BY <1>0, <1>1 DEF TypeEmail, ReaderTyped
  <2>2. ASSUME ~doubtful' PROVE NoDoubt'
    <3>1. unlocks = {} /\ subscribing = {} /\ ~PostsShown
      BY <1>1, <2>2 DEF TypeEmail, FieldShown
    <3>2. unlocks' = {} /\ subscribing' = {} /\ ~PostsShown'
      BY <1>1, <3>1 DEF TypeEmail, PostsShown
    <3> QED BY <3>2 DEF NoDoubt
  <2> QED BY <2>1, <2>2 DEF ReaderInv
<1>2. ASSUME NEW e \in Emails, AskUnlock(e)
      PROVE  /\ unlocks' \subseteq Unlocks /\ calls' \in Nat
             /\ unlocks = {} => /\ \A u, v \in unlocks' : u = v
                                /\ \A u \in unlocks' : u.email = e /\ u.at # "granted"
             /\ unlocks' # {}
  <2> DEFINE u == [id |-> calls', email |-> e, tiers |-> {}, at |-> "asked"]
  <2>1. calls' \in Nat /\ unlocks' = unlocks \cup {u}
    BY <1>0, <1>2 DEF AskUnlock, ReaderTyped
  <2>2. u \in Unlocks /\ u.email = e /\ u.at # "granted"
    BY <2>1 DEF Unlocks
  <2> HIDE DEF u
  <2> QED BY <1>0, <2>1, <2>2 DEF ReaderTyped
<1>3. CASE Unlock
  <2>1. AskUnlock(email) /\ UNCHANGED <<email, subs, posts, subTier, subscribing>>
        /\ email \in Emails
    BY <1>0, <1>3 DEF Unlock, ReaderTyped
  <2>2. ReaderTyped'
    BY <1>0, <1>2, <1>3, <2>1 DEF Unlock, ReaderTyped
  <2>3. ASSUME ~doubtful' PROVE NoDoubt'
    <3>1. unlocks = {} /\ subscribing = {} /\ ~doubtful
      BY <1>3, <2>3 DEF Unlock
    <3>2. /\ \A u, v \in unlocks' : u = v
          /\ \A u \in unlocks' : u.email = email /\ u.at # "granted"
          /\ unlocks' # {}
      BY <1>2, <2>1, <3>1
    <3> QED BY <1>0, <2>1, <3>1, <3>2 DEF NoDoubt, PostsShown
  <2> QED BY <2>2, <2>3 DEF ReaderInv
<1>4. CASE Subscribe
  <2> DEFINE s == [id |-> calls', email |-> email, tiers |-> subTier, at |-> "asked"]
  <2>1. /\ calls' \in Nat /\ subscribing' = subscribing \cup {s}
        /\ UNCHANGED <<email, subs, posts, subTier, unlocks, doubtful>>
    BY <1>0, <1>4 DEF Subscribe, ReaderTyped
  <2>2. s \in Subscribings /\ s.email = email
    BY <1>0, <2>1 DEF ReaderTyped, Subscribings
  <2> HIDE DEF s
  <2>3. ReaderTyped'
    BY <1>0, <2>1, <2>2 DEF ReaderTyped
  <2>4. \A t : Agree(t) => Agree(t)'
    BY <2>1 DEF Agree
  <2>5. ~doubtful => NoDoubt'
    BY <1>0, <2>1, <2>2, <2>4 DEF NoDoubt, PostsShown
  <2> QED BY <2>1, <2>3, <2>5 DEF ReaderInv
<1>5. ASSUME NEW t \in Tiers, ChooseTier(t) PROVE ReaderInv'
  BY <1>0, <1>5 DEF ChooseTier, ReaderInv, ReaderTyped, NoDoubt, Agree, PostsShown
<1>6. ASSUME NEW u \in unlocks, ServeUnlock(u) PROVE ReaderInv'
  <2>1. u \in Unlocks /\ u.email \in Emails /\ subs[u.email] \in SUBSET Tiers
    BY <1>0 DEF ReaderTyped, Unlocks
  <2>2. PICK v \in Unlocks :
          /\ v.email = u.email /\ v.tiers = subs[u.email]
          /\ unlocks' = (unlocks \ {u}) \cup {v}
          /\ UNCHANGED <<email, subs, posts, subTier, subscribing, calls, doubtful>>
    <3>1. PICK a \in {"granted", "refused"} :
            /\ unlocks' = (unlocks \ {u}) \cup {[u EXCEPT !.at = a, !.tiers = subs[u.email]]}
            /\ UNCHANGED <<email, subs, posts, subTier, subscribing, calls, doubtful>>
      BY <1>6 DEF ServeUnlock, TippedThisMonth
    <3>2. /\ [u EXCEPT !.at = a, !.tiers = subs[u.email]] \in Unlocks
          /\ [u EXCEPT !.at = a, !.tiers = subs[u.email]].email = u.email
          /\ [u EXCEPT !.at = a, !.tiers = subs[u.email]].tiers = subs[u.email]
      BY <2>1 DEF Unlocks
    <3> QED BY <3>1, <3>2
  <2>5. ReaderTyped'
    BY <1>0, <2>2 DEF ReaderTyped
  <2>6. ASSUME ~doubtful PROVE NoDoubt'
    <3>1. \A w \in unlocks : w = u
      BY <1>0, <2>6 DEF NoDoubt
    <3>2. unlocks' = {v} /\ v.email = email
      BY <1>0, <2>2, <2>6, <3>1 DEF NoDoubt
    <3>3. v.tiers = subs'[email']
      BY <2>2, <3>2
    <3>4. \A w \in unlocks' : Agree(w.tiers)'
      BY <3>2, <3>3 DEF Agree
    <3> QED BY <1>0, <2>2, <2>6, <3>2, <3>4 DEF NoDoubt, PostsShown
  <2> QED BY <2>2, <2>5, <2>6 DEF ReaderInv
<1>7. ASSUME NEW u \in unlocks, Unlocked(u) PROVE ReaderInv'
  <2>1. /\ unlocks' = unlocks \ {u} /\ posts' = [of |-> u.email, tiers |-> u.tiers]
        /\ UNCHANGED <<email, subs, subTier, subscribing, calls>>
        /\ doubtful' = (doubtful \/ \E v \in unlocks : v.id > u.id)
    BY <1>7 DEF Unlocked
  <2>2. ReaderTyped'
    BY <1>0, <2>1 DEF ReaderTyped
  <2>3. ASSUME ~doubtful PROVE NoDoubt'
    <3>1. unlocks' = {}
      BY <1>0, <2>1, <2>3 DEF NoDoubt
    <3>2. posts'.of = email /\ Agree(posts'.tiers)
      BY <1>0, <1>7, <2>1, <2>3 DEF NoDoubt, Unlocked
    <3>3. Agree(posts.tiers)'
      BY <2>1, <3>2 DEF Agree
    <3> QED BY <1>0, <2>1, <2>3, <3>1, <3>2, <3>3 DEF NoDoubt
  <2> QED BY <2>1, <2>2, <2>3 DEF ReaderInv
<1>8. ASSUME NEW u \in unlocks, UnlockFails(u) PROVE ReaderInv'
  BY <1>0, <1>8 DEF UnlockFails, ReaderInv, ReaderTyped
<1>9. ASSUME NEW s \in subscribing, ServeSubscribe(s) PROVE ReaderInv'
  <2> DEFINE z == [s EXCEPT !.at = "stored"]
  <2>1. s \in Subscribings /\ s.email \in Emails /\ s.tiers \in SUBSET Tiers
    BY <1>0 DEF ReaderTyped, Subscribings
  <2>2. z \in Subscribings /\ z.at = "stored" /\ z.email = s.email
    BY <2>1 DEF Subscribings
  <2>3. /\ subs' = [subs EXCEPT ![s.email] = @ \cup s.tiers]
        /\ subscribing' = (subscribing \ {s}) \cup {z}
        /\ UNCHANGED <<email, posts, subTier, unlocks, calls, doubtful>>
    BY <1>9 DEF ServeSubscribe
  <2> HIDE DEF z
  <2>4. subs' \in [Emails -> SUBSET Tiers]
    BY <1>0, <2>1, <2>3 DEF ReaderTyped
  <2>5. ReaderTyped'
    BY <1>0, <2>2, <2>3, <2>4 DEF ReaderTyped
  <2>6. \A t : Agree(t)'
    BY <2>2, <2>3 DEF Agree
  <2>7. ~doubtful => NoDoubt'
    BY <1>0, <2>2, <2>3, <2>6 DEF NoDoubt, PostsShown
  <2> QED BY <2>3, <2>5, <2>7 DEF ReaderInv
<1>10. ASSUME NEW s \in subscribing, Subscribed(s) PROVE ReaderInv'
  <2>1. s.email \in Emails
    BY <1>0 DEF ReaderTyped, Subscribings
  <2>2. /\ AskUnlock(s.email) /\ subscribing' = subscribing \ {s}
        /\ UNCHANGED <<email, subs, posts, subTier>>
        /\ doubtful' = (doubtful \/ unlocks # {})
    BY <1>10 DEF Subscribed
  <2>3. ReaderTyped'
    BY <1>0, <1>2, <2>1, <2>2 DEF ReaderTyped
  <2>4. ASSUME ~doubtful' PROVE NoDoubt'
    <3>1. unlocks = {} /\ ~doubtful /\ s.email = email
      BY <1>0, <2>2, <2>4 DEF NoDoubt
    <3>2. /\ \A u, v \in unlocks' : u = v
          /\ \A u \in unlocks' : u.email = email /\ u.at # "granted"
          /\ unlocks' # {}
      BY <1>2, <2>1, <2>2, <3>1
    <3> QED BY <1>0, <2>2, <3>1, <3>2 DEF NoDoubt, PostsShown
  <2> QED BY <2>3, <2>4 DEF ReaderInv
<1>11. ASSUME NEW s \in subscribing, SubscribeFails(s) PROVE ReaderInv'
  BY <1>0, <1>11 DEF SubscribeFails, ReaderInv, ReaderTyped
<1>12. CASE UNCHANGED readerVars
  BY <1>0, <1>12 DEF readerVars, ReaderInv, ReaderTyped, NoDoubt, Agree, PostsShown
<1> QED BY <1>1, <1>3, <1>4, <1>5, <1>6, <1>7, <1>8, <1>9, <1>10, <1>11, <1>12
        DEF ReaderNext

LEMMA ReaderStart == ReaderInit => ReaderInv
<1> SUFFICES ASSUME ReaderInit PROVE ReaderInv
  OBVIOUS
<1>1. subs \in [Emails -> SUBSET Tiers]
  BY DEF ReaderInit
<1>2. /\ unlocks = {} /\ subscribing = {} /\ posts = Locked /\ calls = 0
      /\ email \in Emails /\ subTier = {} /\ doubtful = FALSE
  BY DEF ReaderInit
<1>3. ReaderTyped
  BY <1>1, <1>2 DEF ReaderTyped
<1>4. NoDoubt
  BY <1>2 DEF NoDoubt, PostsShown
<1> QED BY <1>3, <1>4 DEF ReaderInv

(* The posts shown are those of the email shown, with every tier it        *)
(* subscribes to unlocked, unless a call failed or another overtook it.    *)
THEOREM VaultStaysCurrent == Spec => []VaultCurrent
<1>1. Init => ReaderInv
  BY ReaderStart DEF Init
<1>2. ReaderInv /\ [Next]_pagesVars => ReaderInv'
  BY ReaderStep, StepsOfParts
<1> QED BY <1>1, <1>2, ReaderIsCurrent, PTL DEF Spec


-----------------------------------------------------------------------------
(***************************************************************************)
(* Vetting: a decision to verify was taken on both documents.              *)
(***************************************************************************)

OnBoth(v) == v.status = "verified" => Whole(v.docs)

VettingInv ==
  /\ DOMAIN vetting = Admins
  /\ \A a \in Admins : vetting[a].at = "deciding" => OnBoth(vetting[a])
  /\ \A d \in abandoned : OnBoth(d)
  /\ VerifiedAsSeen

(* A dialog that does not decide leaves the others as they were.           *)
LEMMA DialogMoves ==
  ASSUME VettingInv, NEW a \in Admins, NEW v, Dialog(a, v),
         v.at = "deciding" => OnBoth(v)
  PROVE  /\ DOMAIN vetting' = Admins
         /\ \A b \in Admins : vetting'[b].at = "deciding" => OnBoth(vetting'[b])
<1>1. vetting' = [vetting EXCEPT ![a] = v] /\ DOMAIN vetting = Admins
  BY DEF Dialog, VettingInv
<1>2. DOMAIN vetting' = Admins
  BY <1>1
<1>3. \A b \in Admins : vetting'[b] = IF b = a THEN v ELSE vetting[b]
  BY <1>1
<1> QED BY <1>2, <1>3 DEF VettingInv

LEMMA DialogOnly ==
  ASSUME VettingInv, NEW a \in Admins, NEW v, Dialog(a, v), Decided,
         v.at = "deciding" => OnBoth(v),
         \A d \in abandoned' : OnBoth(d)
  PROVE  VettingInv'
<1>1. VerifiedAsSeen'
  BY DEF VettingInv, VerifiedAsSeen, Decided, Whole
<1> QED BY <1>1, DialogMoves DEF VettingInv, OnBoth, Whole

(* A decision to verify is of documents that are whole.                    *)
LEMMA Settles ==
  ASSUME NEW d, OnBoth(d), Settle(d)
  PROVE  VerifiedAsSeen'
<1>1. ASSUME kyc' = "verified", ~swapped' PROVE Whole(file') /\ approved' = file'
  BY <1>1 DEF Settle, OnBoth
<1> QED BY <1>1 DEF VerifiedAsSeen, Whole

LEMMA VettingStep == VettingInv /\ [VettingNext]_vettingVars => VettingInv'
<1> SUFFICES ASSUME VettingInv, [VettingNext]_vettingVars PROVE VettingInv'
  OBVIOUS
<1>0. \A d \in abandoned : OnBoth(d)
  BY DEF VettingInv
<1>1. ASSUME NEW k \in Kinds, Upload(k) PROVE VettingInv'
  <2>1. swapped' = TRUE /\ UNCHANGED <<vetting, abandoned>>
    BY <1>1 DEF Upload
  <2>2. VerifiedAsSeen'
    BY <2>1 DEF VerifiedAsSeen
  <2> QED BY <2>1, <2>2 DEF VettingInv, OnBoth, Whole
<1>2. ASSUME NEW a \in Admins, Vet(a) \/ ServeVerification(a) \/ VetEnds(a) \/ DecisionFails(a)
      PROVE  VettingInv'
  <2>1. CASE Vet(a)
    BY <1>0, <2>1, DialogOnly DEF Vet, Server
  <2>2. CASE ServeVerification(a)
    BY <1>0, <2>2, DialogOnly DEF ServeVerification, Server
  <2>3. CASE VetEnds(a)
    <3> DEFINE d == [docs |-> vetting[a].docs, status |-> vetting[a].status]
    <3>1. /\ Dialog(a, Closed) /\ Decided
          /\ \/ vetting[a].at = "deciding" /\ abandoned' = abandoned \cup {d}
             \/ UNCHANGED abandoned
      BY <2>3 DEF VetEnds
    <3>2. vetting[a].at = "deciding" => OnBoth(d)
      BY DEF VettingInv, OnBoth
    <3>3. \A e \in abandoned' : OnBoth(e)
      BY <1>0, <3>1, <3>2
    <3> QED BY <3>1, <3>3, DialogOnly DEF Closed
  <2>4. CASE DecisionFails(a)
    BY <1>0, <2>4, DialogOnly DEF DecisionFails, Server
  <2> QED BY <1>2, <2>1, <2>2, <2>3, <2>4
<1>3. ASSUME NEW a \in Admins, NEW s \in Statuses, Decide(a, s) PROVE VettingInv'
  BY <1>0, <1>3, DialogOnly DEF Decide, Server, OnBoth
<1>4. ASSUME NEW a \in Admins, ServeDecision(a) PROVE VettingInv'
  <2>1. VerifiedAsSeen' /\ UNCHANGED abandoned
    BY <1>4, Settles DEF ServeDecision, VettingInv
  <2>2. /\ DOMAIN vetting' = Admins
        /\ \A b \in Admins : vetting'[b].at = "deciding" => OnBoth(vetting'[b])
    BY <1>4, DialogMoves DEF ServeDecision
  <2> QED BY <1>0, <2>1, <2>2 DEF VettingInv, OnBoth, Whole
<1>5. ASSUME NEW d \in abandoned, ServeAbandoned(d) PROVE VettingInv'
  <2>1. VerifiedAsSeen' /\ UNCHANGED vetting /\ abandoned' \subseteq abandoned
    BY <1>0, <1>5, Settles DEF ServeAbandoned
  <2> QED BY <1>0, <2>1 DEF VettingInv, OnBoth, Whole
<1>6. ASSUME NEW s \in Statuses, SetKyc(s) PROVE VettingInv'
  <2>1. byTable' = TRUE /\ UNCHANGED <<vetting, abandoned>>
    BY <1>6 DEF SetKyc
  <2> QED BY <2>1 DEF VettingInv, VerifiedAsSeen, OnBoth, Whole
<1>7. CASE UNCHANGED vettingVars
  BY <1>7 DEF vettingVars, VettingInv, VerifiedAsSeen, OnBoth, Whole
<1> QED BY <1>1, <1>2, <1>3, <1>4, <1>5, <1>6, <1>7 DEF VettingNext

(* A creator verified from the dialog has the documents the admin saw.     *)
THEOREM VerifiedStaysAsSeen == Spec => []VerifiedAsSeen
<1>1. Init => VettingInv
  BY DEF Init, VettingInit, VettingInv, VerifiedAsSeen, Closed
<1>2. VettingInv /\ [Next]_pagesVars => VettingInv'
  BY VettingStep, StepsOfParts
<1>3. VettingInv => VerifiedAsSeen
  BY DEF VettingInv
<1> QED BY <1>1, <1>2, <1>3, PTL DEF Spec


-----------------------------------------------------------------------------
(***************************************************************************)
(* The desk: what was served of a payout or a dispute is settled.          *)
(***************************************************************************)

Settled == IF list = "payouts" THEN {"completed", "failed"} ELSE {"resolved", "rejected"}

Acts == [by : Clerks, row : RowIds, at : {"asked", "served", "done", "lost"},
         value : {"active", "inactive", "gone", "fan", "creator", "refund",
                  "completed", "failed", "resolved", "rejected"}]

DeskTyped == list \in Lists /\ DOMAIN state = RowIds /\ acts \in Seq(Acts)

ServedSettles ==
  Final => \A i \in DOMAIN acts :
             /\ acts[i].value \in Settled
             /\ acts[i].at \in {"served", "done"} => state[acts[i].row] \in Settled

DeskInv == DeskTyped /\ ServedSettles /\ TwiceOnlyStale

LEMMA ButtonsAct ==
  ASSUME list \in Lists, NEW s, NEW v \in Buttons(s)
  PROVE  /\ v \in {"active", "inactive", "gone", "fan", "creator", "refund",
                   "completed", "failed", "resolved", "rejected"}
         /\ Final => v \in Settled /\ s \notin Settled
BY DEF Buttons, CreatorActs, UserActs, RefundActs, SettleActs, DisputeActs, Final, Settled, Lists

(* A step that only moves requests along, and settles what it serves.      *)
LEMMA Along ==
  ASSUME DeskInv, NEW i \in DOMAIN acts, NEW z \in {"served", "done", "lost"},
         acts' = [acts EXCEPT ![i].at = z],
         UNCHANGED <<list, stale>>,
         acts[i].at \in {"asked", "served"},
         z = "lost" \/ z = "served" \/ acts[i].at = "served",
         DOMAIN state' = RowIds,
         \A r \in RowIds : Final /\ state[r] \in Settled => state'[r] \in Settled,
         Final /\ z = "served" => state'[acts[i].row] \in Settled
  PROVE  DeskInv'
<1>1. acts \in Seq(Acts) /\ acts[i] \in Acts /\ DOMAIN acts' = DOMAIN acts
  BY DEF DeskInv, DeskTyped
<1>2. [acts[i] EXCEPT !.at = z] \in Acts
  BY <1>1 DEF Acts
<1>3. acts' \in Seq(Acts)
  BY <1>1, <1>2, ExceptSeq
<1>4. /\ \A j \in DOMAIN acts : acts'[j].row = acts[j].row /\ acts'[j].value = acts[j].value
      /\ \A j \in DOMAIN acts : j # i => acts'[j].at = acts[j].at
      /\ acts'[i].at = z
  BY <1>1 DEF Acts
<1>5. \A j \in DOMAIN acts : acts[j].row \in RowIds
  <2>1. \A j \in DOMAIN acts : acts[j] \in Acts
    BY <1>1
  <2> QED BY <2>1 DEF Acts
<1>6. DeskTyped'
  BY <1>3 DEF DeskInv, DeskTyped
<1>7. ServedSettles'
  <2>1. Settled' = Settled /\ Final' = Final
    BY DEF Settled, Final
  <2>2. ASSUME Final, NEW j \in DOMAIN acts, acts'[j].at \in {"served", "done"}
        PROVE  state'[acts[j].row] \in Settled
    <3>1. CASE j # i \/ z # "served"
      BY <1>4, <1>5, <2>2, <3>1 DEF DeskInv, ServedSettles
    <3>2. CASE j = i /\ z = "served"
      BY <2>2, <3>2
    <3> QED BY <3>1, <3>2
  <2> QED BY <1>1, <1>4, <2>1, <2>2 DEF DeskInv, ServedSettles
<1>8. TwiceOnlyStale'
  <2>1. \A j \in DOMAIN acts : acts'[j].at # "lost" => acts[j].at # "lost"
    BY <1>4
  <2>2. \A j \in DOMAIN acts :
          acts'[j].at \in {"asked", "served"} => acts[j].at \in {"asked", "served"}
    BY <1>4
  <2>3. \A r : UnderWay(r)' \subseteq UnderWay(r)
    BY <1>1, <1>4, <2>2 DEF UnderWay
  <2> QED BY <1>1, <1>4, <2>1, <2>3 DEF DeskInv, TwiceOnlyStale, Final
<1> QED BY <1>6, <1>7, <1>8 DEF DeskInv

(* Whichever service answers, the request is served, and its row becomes   *)
(* what was asked for; but for a refund.                                   *)
LEMMA Served ==
  ASSUME NEW i, ServeAct(i)
  PROVE  Forwarded(i) /\ (state' = state \/ Stores(i)) /\ (Final => Stores(i))
BY DEF ServeAct, SetActive, DeleteCreator, SetRole, DeleteUser, Refund, SetPayoutStatus,
       SetDisputeStatus, Final

LEMMA DeskStep == DeskInv /\ [DeskNext]_deskVars => DeskInv'
<1> SUFFICES ASSUME DeskInv, [DeskNext]_deskVars PROVE DeskInv'
  OBVIOUS
<1>0. UNCHANGED <<list, state, acts, stale>> => DeskInv'
  BY DEF DeskInv, DeskTyped, ServedSettles, TwiceOnlyStale, Final, Settled, UnderWay
<1>1. ASSUME NEW a \in Clerks, Reopen(a) PROVE DeskInv'
  BY <1>0, <1>1 DEF Reopen
<1>2. ASSUME NEW f \in fetches,
             ServeFetch(f) \/ Fetched(f) \/ FetchedNone(f) \/ FetchFails(f)
      PROVE  DeskInv'
  BY <1>0, <1>2 DEF ServeFetch, Fetched, FetchedNone, FetchFails
<1>3. ASSUME NEW a \in Clerks, NEW r \in RowIds, NEW v \in Buttons(seen[a][r]), Act(a, r, v)
      PROVE  DeskInv'
  <2> DEFINE z == [by |-> a, row |-> r, value |-> v, at |-> "asked"]
             n == Len(acts) + 1
  <2>1. /\ acts' = Append(acts, z) /\ busy[a] # r /\ UNCHANGED <<list, state>>
        /\ (\/ seen[a][r] # state[r]
            \/ \E i \in UnderWay(r) : acts[i].by # a \/ busy[a] # r) => r \in stale'
        /\ stale \subseteq stale'
    BY <1>3 DEF Act, CanPress
  <2>2. acts \in Seq(Acts) /\ z \in Acts
    BY <1>3, ButtonsAct DEF DeskInv, DeskTyped, Acts
  <2>3. z.row = r /\ z.value = v /\ z.at = "asked"
    OBVIOUS
  <2> HIDE DEF z
  <2>4. /\ acts' \in Seq(Acts) /\ DOMAIN acts = 1 .. Len(acts) /\ DOMAIN acts' = 1 .. n
        /\ \A i \in DOMAIN acts : acts'[i] = acts[i]
        /\ acts'[n] = z /\ Len(acts) \in Nat
    BY <2>1, <2>2, AppendProperties
  <2>5. DeskTyped'
    BY <2>1, <2>4 DEF DeskInv, DeskTyped
  <2>6. Settled' = Settled /\ Final' = Final
    BY <2>1 DEF Settled, Final
  <2>7. \A i \in DOMAIN acts' : i \in DOMAIN acts \/ i = n
    BY <2>4
  <2>8. ServedSettles'
    <3>1. ASSUME Final, NEW i \in DOMAIN acts'
          PROVE  /\ acts'[i].value \in Settled
                 /\ acts'[i].at \in {"served", "done"} => state[acts'[i].row] \in Settled
      <4>1. CASE i \in DOMAIN acts
        BY <2>4, <3>1, <4>1 DEF DeskInv, ServedSettles
      <4>2. CASE i = n
        BY <1>3, <2>3, <2>4, <3>1, <4>2, ButtonsAct DEF DeskInv, DeskTyped
      <4> QED BY <2>7, <4>1, <4>2
    <3> QED BY <2>1, <2>6, <3>1 DEF ServedSettles
  <2>9. UnderWay(r) # {} => r \in stale'
    BY <2>1
  <2>10. ASSUME NEW i \in DOMAIN acts, acts[i].row = r,
                IF Final THEN acts[i].at # "lost" ELSE i \in UnderWay(r)
         PROVE  r \in stale'
    <3>1. CASE i \in UnderWay(r)
      BY <2>9, <3>1
    <3>2. CASE Final /\ i \notin UnderWay(r)
      <4>1. acts[i] \in Acts
        BY <2>2
      <4>2. acts[i].at = "done"
        BY <2>10, <3>2, <4>1 DEF UnderWay, Acts
      <4>3. state[r] \in Settled
        BY <2>10, <3>2, <4>2 DEF DeskInv, ServedSettles
      <4>4. seen[a][r] \notin Settled
        BY <3>2, ButtonsAct DEF DeskInv, DeskTyped
      <4> QED BY <2>1, <4>3, <4>4
    <3> QED BY <2>10, <3>1, <3>2
  <2>11. ASSUME NEW i \in DOMAIN acts', NEW j \in DOMAIN acts',
                i < j, acts'[i].row = acts'[j].row,
                IF Final THEN acts'[i].at # "lost"
                ELSE \A k \in {i, j} : acts'[k].at \in {"asked", "served"}
         PROVE  acts'[i].row \in stale'
    <3>1. i \in DOMAIN acts
      BY <2>4, <2>7, <2>11
    <3>2. CASE j \in DOMAIN acts
      <4>1. acts'[i] = acts[i] /\ acts'[j] = acts[j]
        BY <2>4, <3>1, <3>2
      <4>2. IF Final THEN acts[i].at # "lost" ELSE {i, j} \subseteq UnderWay(acts[i].row)
        BY <2>11, <3>1, <3>2, <4>1 DEF UnderWay
      <4>3. acts[i].row \in stale
        BY <2>11, <3>1, <3>2, <4>1, <4>2 DEF DeskInv, TwiceOnlyStale
      <4> QED BY <2>1, <4>1, <4>3
    <3>3. CASE j = n
      <4>1. acts'[i] = acts[i] /\ acts'[j].row = r
        BY <2>3, <2>4, <3>1, <3>3
      <4>2. IF Final THEN acts[i].at # "lost" ELSE i \in UnderWay(r)
        BY <2>11, <3>1, <4>1 DEF UnderWay
      <4> QED BY <2>10, <2>11, <3>1, <4>1, <4>2
    <3> QED BY <2>7, <3>2, <3>3
  <2>12. TwiceOnlyStale'
    BY <2>6, <2>11 DEF TwiceOnlyStale, UnderWay
  <2> QED BY <2>5, <2>8, <2>12 DEF DeskInv
<1>4. ASSUME NEW i \in DOMAIN acts, ServeAct(i) PROVE DeskInv'
  <2>1. acts[i] \in Acts /\ acts[i].row \in RowIds
    <3>1. acts[i] \in Acts
      BY DEF DeskInv, DeskTyped
    <3> QED BY <3>1 DEF Acts
  <2>2. /\ acts' = [acts EXCEPT ![i].at = "served"] /\ acts[i].at = "asked"
        /\ UNCHANGED <<list, stale>>
        /\ state' = state \/ Stores(i)
        /\ Final => Stores(i)
    BY <1>4, Served DEF Forwarded
  <2>3. DOMAIN state' = RowIds
    BY <2>2 DEF DeskInv, DeskTyped, Stores
  <2>4. Final => acts[i].value \in Settled
    BY DEF DeskInv, ServedSettles
  <2>5. Final => /\ state'[acts[i].row] \in Settled
                 /\ \A r \in RowIds : state[r] \in Settled => state'[r] \in Settled
    BY <2>1, <2>2, <2>4 DEF DeskInv, DeskTyped, Stores
  <2> QED BY <2>2, <2>3, <2>5, Along
<1>5. ASSUME NEW i \in DOMAIN acts, ActAnswered(i) PROVE DeskInv'
  BY <1>5, Along DEF ActAnswered, DeskInv, DeskTyped
<1>6. ASSUME NEW i \in DOMAIN acts, ActFails(i) PROVE DeskInv'
  <2>1. /\ acts[i].at \in {"asked", "served"} /\ UNCHANGED <<list, state, stale>>
        /\ acts' = [acts EXCEPT ![i].at = IF @ = "asked" THEN "lost" ELSE "done"]
    BY <1>6 DEF ActFails
  <2>2. CASE acts[i].at = "asked"
    <3>1. acts' = [acts EXCEPT ![i].at = "lost"]
      BY <2>1, <2>2
    <3> QED BY <2>1, <3>1, Along DEF DeskInv, DeskTyped
  <2>3. CASE acts[i].at = "served"
    <3>1. acts' = [acts EXCEPT ![i].at = "done"]
      BY <2>1, <2>3
    <3> QED BY <2>1, <2>3, <3>1, Along DEF DeskInv, DeskTyped
  <2> QED BY <2>1, <2>2, <2>3
<1>7. CASE UNCHANGED deskVars
  BY <1>0, <1>7 DEF deskVars
<1> QED BY <1>1, <1>2, <1>3, <1>4, <1>5, <1>6, <1>7 DEF DeskNext

LEMMA DeskStart == DeskInit => DeskInv
<1> SUFFICES ASSUME DeskInit PROVE DeskInv
  OBVIOUS
<1>1. list \in Lists /\ DOMAIN state = RowIds /\ acts = << >>
  BY DEF DeskInit
<1>2. acts \in Seq(Acts) /\ DOMAIN acts = {}
  BY <1>1
<1> QED BY <1>1, <1>2 DEF DeskInv, DeskTyped, ServedSettles, TwiceOnlyStale

(* No payout and no dispute is settled twice, and no row has two requests  *)
(* under way, unless an admin asked from a list that had the row wrong or  *)
(* could not see the other request.                                        *)
THEOREM TwiceStaysStale == Spec => []TwiceOnlyStale
<1>1. Init => DeskInv
  BY DeskStart DEF Init
<1>2. DeskInv /\ [Next]_pagesVars => DeskInv'
  BY DeskStep, StepsOfParts
<1>3. DeskInv => TwiceOnlyStale
  BY DEF DeskInv
<1> QED BY <1>1, <1>2, <1>3, PTL DEF Spec

-----------------------------------------------------------------------------
(***************************************************************************)
(* What a page shows as under way is under way, and what it says was done  *)
(* has its row: facts that no run checks.                                  *)
(***************************************************************************)

(* The page after the payment never hangs: it shows its spinner exactly    *)
(* while a request or a timer is under way that will take it further; it   *)
(* asks only of an order the link names, fewer than MaxTries times; and an *)
(* answer or a verdict is only ever of the request that is under way.      *)
SpinnerPolls ==
  /\ shown = "loading" <=> poll # "none"
  /\ poll # "none" => known /\ forced = "none" /\ tries < MaxTries
  /\ verdict # "none" => poll = "reconcile" /\ answer = "none"
  /\ answer # "none" => poll \in {"reconcile", "read"}

PollTyped ==
  /\ ledger \in {"pending"} \cup Outcomes
  /\ gateway \in {"pending"} \cup Outcomes /\ notices \subseteq Outcomes
  /\ shown \in {"loading", "pending"} \cup Outcomes
  /\ poll \in {"none", "reconcile", "read", "wait"} /\ tries \in Nat
  /\ {verdict, answer} \subseteq {"none", "pending"} \cup Outcomes

LEMMA PollStep == PollTyped /\ SpinnerPolls /\ [CallbackNext]_callbackVars
                  => PollTyped' /\ SpinnerPolls'
<1> SUFFICES ASSUME PollTyped, SpinnerPolls, [CallbackNext]_callbackVars
             PROVE  PollTyped' /\ SpinnerPolls'
  OBVIOUS
<1> USE CallbackAssumption DEF PollTyped, SpinnerPolls, Outcomes
<1>1. CASE GatewaySettles \/ Notify
  BY <1>1 DEF GatewaySettles, Notify
<1>2. CASE ServeReconcile
  BY <1>2 DEF ServeReconcile
<1>3. CASE Reconcile
  BY <1>3 DEF Reconcile
<1>4. CASE ServeRead
  BY <1>4 DEF ServeRead
<1>5. CASE Answered
  BY <1>5 DEF Answered, Page
<1>6. ASSUME TryAgain, poll # "none", verdict = "none"
      PROVE  PollTyped' /\ SpinnerPolls'
  BY <1>6 DEF TryAgain, Page
<1>7. CASE Undecided \/ ReadFails
  BY <1>6, <1>7 DEF Undecided, ReadFails
<1>8. CASE ReadInstead \/ Wake
  BY <1>8 DEF ReadInstead, Wake, Page
<1>9. CASE CheckAgain
  BY <1>9 DEF CheckAgain, SaysProcessing, Page
<1>10. CASE UNCHANGED callbackVars
  BY <1>10 DEF callbackVars
<1> QED BY <1>1, <1>2, <1>3, <1>4, <1>5, <1>7, <1>8, <1>9, <1>10 DEF CallbackNext, Poll

(* The page after the payment is never left at its spinner with nothing    *)
(* under way.                                                              *)
THEOREM SpinnerAlwaysPolls == Spec => []SpinnerPolls
<1>1. Init => PollTyped /\ SpinnerPolls
  BY CallbackAssumption DEF Init, CallbackInit, PollTyped, SpinnerPolls, Outcomes
<1>2. PollTyped /\ SpinnerPolls /\ [Next]_pagesVars => PollTyped' /\ SpinnerPolls'
  BY PollStep, StepsOfParts
<1> HIDE DEF PollTyped, SpinnerPolls
<1> QED BY <1>1, <1>2, PTL DEF Spec
-----------------------------------------------------------------------------
(* What the vault shows was earned: an unlock is granted, and posts are    *)
(* shown, only for an email that tipped this month or subscribes; and no   *)
(* tier is shown as unlocked that the email does not subscribe to.         *)
Earned(e, tiers) == (e \in Tippers \/ subs[e] # {}) /\ tiers \subseteq subs[e]

UnlockedIsEarned ==
  /\ \A u \in unlocks : u.at = "granted" => Earned(u.email, u.tiers)
  /\ PostsShown => posts.of \in Emails /\ Earned(posts.of, posts.tiers)

EarnedInv == ReaderInv /\ UnlockedIsEarned

LEMMA EarnedStep == EarnedInv /\ [ReaderNext]_readerVars => EarnedInv'
<1> SUFFICES ASSUME EarnedInv, [ReaderNext]_readerVars PROVE UnlockedIsEarned'
  BY ReaderStep DEF EarnedInv
<1>0. ReaderTyped /\ UnlockedIsEarned
  BY DEF EarnedInv, ReaderInv
<1>1. ASSUME UNCHANGED <<subs, posts>>,
             \A u \in unlocks' : u \in unlocks \/ u.at # "granted"
      PROVE  UnlockedIsEarned'
  BY <1>0, <1>1 DEF UnlockedIsEarned, Earned, PostsShown
<1>2. ASSUME NEW e, AskUnlock(e)
      PROVE  \A u \in unlocks' : u \in unlocks \/ u.at # "granted"
  BY <1>2 DEF AskUnlock
<1>3. CASE TypeEmail \/ Subscribe \/ \E t \in Tiers : ChooseTier(t)
  BY <1>1, <1>3 DEF TypeEmail, Subscribe, ChooseTier
<1>4. CASE Unlock
  BY <1>1, <1>2, <1>4 DEF Unlock
<1>5. ASSUME NEW u \in unlocks, ServeUnlock(u) PROVE UnlockedIsEarned'
  <2>1. u \in Unlocks /\ UNCHANGED <<subs, posts>>
    BY <1>0, <1>5 DEF ReaderTyped, ServeUnlock
  <2>2. PICK v : /\ unlocks' = (unlocks \ {u}) \cup {v}
                 /\ v = [u EXCEPT !.at = IF u.email \in Tippers \/ subs[u.email] # {}
                                         THEN "granted" ELSE "refused",
                                  !.tiers = subs[u.email]]
    BY <1>5 DEF ServeUnlock, TippedThisMonth
  <2>3. v.email = u.email /\ v.tiers = subs[u.email]
        /\ (v.at = "granted" => u.email \in Tippers \/ subs[u.email] # {})
    BY <2>1, <2>2 DEF Unlocks
  <2>4. v.at = "granted" => Earned(v.email, v.tiers)
    BY <2>3 DEF Earned
  <2> HIDE DEF Earned
  <2>5. \A w \in unlocks' : w.at = "granted" => Earned(w.email, w.tiers)
    BY <1>0, <2>2, <2>4 DEF UnlockedIsEarned
  <2> QED BY <1>0, <2>1, <2>5 DEF UnlockedIsEarned, Earned, PostsShown
<1>6. ASSUME NEW u \in unlocks, Unlocked(u) PROVE UnlockedIsEarned'
  <2>1. u \in Unlocks
    BY <1>0 DEF ReaderTyped
  <2> QED BY <1>0, <1>6, <2>1 DEF Unlocked, UnlockedIsEarned, Earned, PostsShown, Unlocks
<1>7. ASSUME NEW u \in unlocks, UnlockFails(u) PROVE UnlockedIsEarned'
  BY <1>1, <1>7 DEF UnlockFails
<1>8. ASSUME NEW s \in subscribing, ServeSubscribe(s) PROVE UnlockedIsEarned'
  <2>1. /\ subs' = [subs EXCEPT ![s.email] = @ \cup s.tiers]
        /\ UNCHANGED <<posts, unlocks>> /\ DOMAIN subs = Emails
    BY <1>0, <1>8 DEF ServeSubscribe, ReaderTyped
  <2>2. \A e \in Emails : subs[e] \subseteq subs'[e]
    BY <2>1
  <2>3. \A e \in Emails : \A t : Earned(e, t) => Earned(e, t)'
    BY <2>2 DEF Earned
  <2>4. \A u \in unlocks : u.email \in Emails
    BY <1>0 DEF ReaderTyped, Unlocks
  <2> QED BY <1>0, <2>1, <2>3, <2>4 DEF UnlockedIsEarned, PostsShown
<1>9. ASSUME NEW s \in subscribing, Subscribed(s) PROVE UnlockedIsEarned'
  BY <1>1, <1>2, <1>9 DEF Subscribed
<1>10. ASSUME NEW s \in subscribing, SubscribeFails(s) PROVE UnlockedIsEarned'
  BY <1>1, <1>10 DEF SubscribeFails
<1>11. CASE UNCHANGED readerVars
  BY <1>1, <1>11 DEF readerVars
<1> QED BY <1>3, <1>4, <1>5, <1>6, <1>7, <1>8, <1>9, <1>10, <1>11 DEF ReaderNext

(* Nobody is shown the posts, or a tier of them as unlocked, who did not   *)
(* tip or subscribe - whatever was typed, overtaken or lost meanwhile.     *)
THEOREM UnlockedStaysEarned == Spec => []UnlockedIsEarned
<1>1. Init => EarnedInv
  BY ReaderStart DEF Init, EarnedInv, UnlockedIsEarned, ReaderInit, PostsShown
<1>2. EarnedInv /\ [Next]_pagesVars => EarnedInv'
  BY EarnedStep, StepsOfParts
<1>3. EarnedInv => UnlockedIsEarned
  BY DEF EarnedInv
<1> QED BY <1>1, <1>2, <1>3, PTL DEF Spec

-----------------------------------------------------------------------------
(* A row an admin sees busy has a request of theirs under way: it is not   *)
(* left without its buttons by a request that has ended.                   *)
BusyIsUnderWay ==
  \A a \in Clerks : busy[a] # NoRow => \E i \in UnderWay(busy[a]) : acts[i].by = a

BusyInv == /\ acts \in Seq(Acts) /\ list \in Lists
           /\ DOMAIN busy = Clerks /\ BusyIsUnderWay

(* A step that keeps who asked what, and frees the row of whoever's        *)
(* request it ends.                                                        *)
LEMMA BusyKept ==
  ASSUME BusyIsUnderWay, DOMAIN busy' = Clerks,
         DOMAIN acts \subseteq DOMAIN acts',
         \A j \in DOMAIN acts : acts'[j].by = acts[j].by /\ acts'[j].row = acts[j].row,
         \A a \in Clerks :
           \/ busy'[a] = NoRow
           \/ /\ busy'[a] = busy[a]
              /\ \A j \in DOMAIN acts :
                   acts[j].by = a /\ acts[j].at \in {"asked", "served"}
                   => acts'[j].at \in {"asked", "served"}
           \/ \E j \in DOMAIN acts' : /\ acts'[j].row = busy'[a] /\ acts'[j].by = a
                                      /\ acts'[j].at \in {"asked", "served"}
  PROVE  BusyIsUnderWay'
<1> SUFFICES ASSUME NEW a \in Clerks, busy'[a] # NoRow
             PROVE  \E i \in DOMAIN acts' : /\ acts'[i].row = busy'[a] /\ acts'[i].by = a
                                            /\ acts'[i].at \in {"asked", "served"}
  BY DEF BusyIsUnderWay, UnderWay
<1>1. CASE /\ busy'[a] = busy[a]
           /\ \A j \in DOMAIN acts :
                acts[j].by = a /\ acts[j].at \in {"asked", "served"}
                => acts'[j].at \in {"asked", "served"}
  <2>1. PICK i \in UnderWay(busy[a]) : acts[i].by = a
    BY <1>1 DEF BusyIsUnderWay
  <2>2. i \in DOMAIN acts /\ acts[i].row = busy[a] /\ acts[i].at \in {"asked", "served"}
    BY <2>1 DEF UnderWay
  <2> QED BY <1>1, <2>1, <2>2
<1> QED BY <1>1

LEMMA BusyStep == BusyInv /\ [DeskNext]_deskVars => BusyInv'
<1> SUFFICES ASSUME BusyInv, [DeskNext]_deskVars PROVE BusyInv'
  OBVIOUS
<1>0. /\ acts \in Seq(Acts) /\ list \in Lists /\ DOMAIN busy = Clerks /\ BusyIsUnderWay
  BY DEF BusyInv
<1>1. ASSUME UNCHANGED <<list, busy, acts>> PROVE BusyInv'
  BY <1>0, <1>1 DEF BusyInv, BusyIsUnderWay, UnderWay
<1>2. ASSUME NEW a \in Clerks, Reopen(a) PROVE BusyInv'
  <2>1. UNCHANGED <<list, acts>> /\ busy' = [busy EXCEPT ![a] = NoRow]
    BY <1>2 DEF Reopen
  <2> QED BY <1>0, <2>1 DEF BusyInv, BusyIsUnderWay, UnderWay
<1>3. ASSUME NEW f \in fetches,
             ServeFetch(f) \/ Fetched(f) \/ FetchedNone(f) \/ FetchFails(f)
      PROVE  BusyInv'
  BY <1>1, <1>3 DEF ServeFetch, Fetched, FetchedNone, FetchFails
<1>4. ASSUME NEW a \in Clerks, NEW r \in RowIds, NEW v \in Buttons(seen[a][r]), Act(a, r, v)
      PROVE  BusyInv'
  <2> DEFINE z == [by |-> a, row |-> r, value |-> v, at |-> "asked"]
             n == Len(acts) + 1
  <2>1. acts' = Append(acts, z) /\ busy' = [busy EXCEPT ![a] = r] /\ UNCHANGED list
    BY <1>4 DEF Act
  <2>2. z \in Acts /\ z.row = r /\ z.by = a /\ z.at = "asked"
    BY <1>0, <1>4, ButtonsAct DEF Acts
  <2> HIDE DEF z
  <2>3. /\ acts' \in Seq(Acts) /\ DOMAIN acts = 1 .. Len(acts) /\ DOMAIN acts' = 1 .. n
        /\ \A i \in DOMAIN acts : acts'[i] = acts[i]
        /\ acts'[n] = z /\ Len(acts) \in Nat
    BY <1>0, <2>1, <2>2, AppendProperties
  <2>4. n \in DOMAIN acts' /\ DOMAIN acts \subseteq DOMAIN acts'
    BY <2>3
  <2>5. BusyIsUnderWay'
    BY <1>0, <2>1, <2>2, <2>3, <2>4, BusyKept
  <2> QED BY <1>0, <2>1, <2>3, <2>5 DEF BusyInv
<1>5. ASSUME NEW i \in DOMAIN acts, NEW z \in {"served", "done", "lost"},
             acts' = [acts EXCEPT ![i].at = z], UNCHANGED list,
             \/ z = "served" /\ UNCHANGED busy
             \/ Free(i)
      PROVE  BusyInv'
  <2>1. acts[i] \in Acts /\ DOMAIN acts' = DOMAIN acts
    BY <1>0, <1>5
  <2>2. [acts[i] EXCEPT !.at = z] \in Acts
    BY <2>1 DEF Acts
  <2>3. acts' \in Seq(Acts)
    BY <1>0, <1>5, <2>2, ExceptSeq
  <2>4. /\ \A j \in DOMAIN acts : acts'[j].by = acts[j].by /\ acts'[j].row = acts[j].row
        /\ \A j \in DOMAIN acts : j # i => acts'[j].at = acts[j].at
        /\ acts'[i].at = z
    BY <1>5, <2>1 DEF Acts
  <2>5. acts[i].by \in Clerks
    BY <2>1 DEF Acts
  <2>6. CASE z = "served" /\ UNCHANGED busy
    BY <1>0, <1>5, <2>1, <2>3, <2>4, <2>6, BusyKept DEF BusyInv
  <2>7. CASE Free(i)
    BY <1>0, <1>5, <2>1, <2>3, <2>4, <2>5, <2>7, BusyKept DEF BusyInv, Free
  <2> QED BY <1>5, <2>6, <2>7
<1>6. ASSUME NEW i \in DOMAIN acts, ServeAct(i) \/ ActAnswered(i) PROVE BusyInv'
  BY <1>5, <1>6, Served DEF Forwarded, ActAnswered
<1>7. ASSUME NEW i \in DOMAIN acts, ActFails(i) PROVE BusyInv'
  <2>1. /\ acts' = [acts EXCEPT ![i].at = IF @ = "asked" THEN "lost" ELSE "done"]
        /\ Free(i) /\ UNCHANGED list
    BY <1>7 DEF ActFails
  <2>2. CASE acts[i].at = "asked"
    <3>1. acts' = [acts EXCEPT ![i].at = "lost"]
      BY <2>1, <2>2
    <3> QED BY <1>5, <2>1, <3>1
  <2>3. CASE acts[i].at # "asked"
    <3>1. acts' = [acts EXCEPT ![i].at = "done"]
      BY <2>1, <2>3
    <3> QED BY <1>5, <2>1, <3>1
  <2> QED BY <2>2, <2>3
<1>8. CASE UNCHANGED deskVars
  BY <1>1, <1>8 DEF deskVars
<1> QED BY <1>2, <1>3, <1>4, <1>6, <1>7, <1>8 DEF DeskNext

(* No row of the admin portal stays busy when the request that made it so  *)
(* has ended.                                                              *)
THEOREM BusyStaysUnderWay == Spec => []BusyIsUnderWay
<1>1. ASSUME DeskInit PROVE BusyInv
  <2>1. list \in Lists /\ acts = << >> /\ busy = [a \in Clerks |-> NoRow]
    BY <1>1 DEF DeskInit
  <2> QED BY <2>1 DEF BusyInv, BusyIsUnderWay
<1>2. Init => BusyInv
  BY <1>1 DEF Init
<1>3. BusyInv /\ [Next]_pagesVars => BusyInv'
  BY BusyStep, StepsOfParts
<1>4. BusyInv => BusyIsUnderWay
  BY DEF BusyInv
<1> QED BY <1>2, <1>3, <1>4, PTL DEF Spec
-----------------------------------------------------------------------------
(* What is settled was settled by a request that was served.               *)
SettledBy(r) == \E i \in DOMAIN acts : acts[i].row = r /\ acts[i].at \in {"served", "done"}

VerdictInv == DeskInv /\ (Final => \A r \in RowIds : state[r] \in Settled => SettledBy(r))

LEMMA VerdictStep ==
  ASSUME VerdictInv, [DeskNext]_deskVars
  PROVE  VerdictInv'
<1>0. DeskInv /\ DeskInv' /\ list \in Lists /\ acts \in Seq(Acts) /\ DOMAIN state = RowIds
  BY DeskStep DEF VerdictInv, DeskInv, DeskTyped
<1> SUFFICES ASSUME Final', NEW r \in RowIds, state'[r] \in Settled'
             PROVE  SettledBy(r)'
  BY <1>0 DEF VerdictInv
<1>1. UNCHANGED list
  BY Served DEF DeskNext, Reopen, Act, ServeFetch, Fetched, FetchedNone, FetchFails, Forwarded,
                ActAnswered, ActFails, deskVars
<1>2. Final /\ Settled' = Settled
  BY <1>1 DEF Final, Settled
<1>3. ASSUME UNCHANGED <<state, acts>> PROVE SettledBy(r)'
  BY <1>2, <1>3 DEF VerdictInv, SettledBy
<1>4. ASSUME NEW a \in Clerks, NEW q \in RowIds, NEW v \in Buttons(seen[a][q]), Act(a, q, v)
      PROVE  SettledBy(r)'
  <2> DEFINE z == [by |-> a, row |-> q, value |-> v, at |-> "asked"]
  <2>1. acts' = Append(acts, z) /\ UNCHANGED state
    BY <1>4 DEF Act
  <2>2. /\ DOMAIN acts = 1 .. Len(acts) /\ DOMAIN acts' = 1 .. Len(acts) + 1
        /\ \A i \in DOMAIN acts : acts'[i] = acts[i]
    BY <1>0, <2>1, AppendProperties
  <2>3. SettledBy(r)
    BY <1>2, <2>1 DEF VerdictInv
  <2>4. PICK i \in DOMAIN acts : acts[i].row = r /\ acts[i].at \in {"served", "done"}
    BY <2>3 DEF SettledBy
  <2>5. i \in DOMAIN acts' /\ acts'[i] = acts[i]
    BY <1>0, <2>2, LenProperties
  <2> QED BY <2>4, <2>5 DEF SettledBy
<1>5. ASSUME NEW i \in DOMAIN acts, NEW z \in {"served", "done", "lost"},
             acts' = [acts EXCEPT ![i].at = z],
             z = "lost" => acts[i].at = "asked",
             r # acts[i].row \/ z # "served" => state'[r] = state[r]
      PROVE  SettledBy(r)'
  <2>1. acts[i] \in Acts /\ DOMAIN acts' = DOMAIN acts
    BY <1>0, <1>5
  <2>2. /\ \A j \in DOMAIN acts : acts'[j].row = acts[j].row
        /\ \A j \in DOMAIN acts : j # i => acts'[j].at = acts[j].at
        /\ acts'[i].at = z
    BY <1>5, <2>1 DEF Acts
  <2>3. CASE r = acts[i].row /\ z = "served"
    BY <2>1, <2>2, <2>3 DEF SettledBy
  <2>4. CASE state'[r] = state[r]
    <3>1. PICK j \in DOMAIN acts : acts[j].row = r /\ acts[j].at \in {"served", "done"}
      BY <1>2, <2>4 DEF VerdictInv, SettledBy
    <3> QED BY <1>5, <2>1, <2>2, <3>1 DEF SettledBy
  <2> QED BY <1>5, <2>3, <2>4
<1>6. ASSUME NEW i \in DOMAIN acts, ServeAct(i) PROVE SettledBy(r)'
  <2>1. /\ acts' = [acts EXCEPT ![i].at = "served"]
        /\ state' = state \/ Stores(i)
    BY <1>6, Served DEF Forwarded
  <2>2. r # acts[i].row => state'[r] = state[r]
    BY <1>0, <2>1 DEF Stores
  <2> QED BY <1>5, <2>1, <2>2
<1>7. ASSUME NEW i \in DOMAIN acts, ActAnswered(i) PROVE SettledBy(r)'
  BY <1>5, <1>7 DEF ActAnswered
<1>8. ASSUME NEW i \in DOMAIN acts, ActFails(i) PROVE SettledBy(r)'
  <2>1. /\ acts' = [acts EXCEPT ![i].at = IF @ = "asked" THEN "lost" ELSE "done"]
        /\ UNCHANGED state
    BY <1>8 DEF ActFails
  <2>2. CASE acts[i].at = "asked"
    <3>1. acts' = [acts EXCEPT ![i].at = "lost"]
      BY <2>1, <2>2
    <3> QED BY <1>5, <2>1, <2>2, <3>1
  <2>3. CASE acts[i].at # "asked"
    <3>1. acts' = [acts EXCEPT ![i].at = "done"]
      BY <2>1, <2>3
    <3> QED BY <1>5, <2>1, <3>1
  <2> QED BY <2>2, <2>3
<1> QED BY <1>3, <1>4, <1>6, <1>7, <1>8
        DEF DeskNext, Reopen, ServeFetch, Fetched, FetchedNone, FetchFails, deskVars

(* What the portal decided of a payout or a dispute stays: a settled row   *)
(* is never open again, and it keeps the very verdict it has unless an     *)
(* admin asked from a list that had it wrong, or blind to another request. *)
VerdictKept ==
  Final => \A r \in RowIds : state[r] \in Settled =>
             /\ state'[r] \in Settled
             /\ r \notin stale => state'[r] = state[r]

(* The portal's verdicts on payouts and disputes stay, whoever asks again. *)
THEOREM VerdictsStay == Spec => [][VerdictKept]_deskVars
<1>1. ASSUME VerdictInv, [DeskNext]_deskVars PROVE [VerdictKept]_deskVars
  <2> SUFFICES ASSUME Final, NEW r \in RowIds, state[r] \in Settled, state'[r] # state[r]
               PROVE  state'[r] \in Settled /\ r \in stale
    BY DEF VerdictKept
  <2>1. DeskInv /\ DOMAIN state = RowIds /\ acts \in Seq(Acts)
    BY <1>1 DEF VerdictInv, DeskInv, DeskTyped
  <2>2. PICK i \in DOMAIN acts : ServeAct(i)
    BY <1>1 DEF DeskNext, Reopen, Act, ServeFetch, Fetched, FetchedNone, FetchFails, ActAnswered,
                ActFails, deskVars
  <2>3. /\ acts[i].row = r /\ acts[i].at = "asked" /\ state'[r] = acts[i].value
    BY <2>1, <2>2, Served DEF Forwarded, Stores
  <2>4. state'[r] \in Settled
    BY <2>1, <2>3 DEF DeskInv, ServedSettles
  <2>5. PICK j \in DOMAIN acts : acts[j].row = r /\ acts[j].at \in {"served", "done"}
    BY <1>1 DEF VerdictInv, SettledBy
  <2>6. i \in Nat /\ j \in Nat /\ i # j
    BY <2>1, <2>3, <2>5
  <2>7. i < j \/ j < i
    BY <2>6
  <2>8. r \in stale
    BY <2>1, <2>3, <2>5, <2>7 DEF DeskInv, TwiceOnlyStale
  <2> QED BY <2>4, <2>8
<1>2. DeskInit => VerdictInv
  <2> SUFFICES ASSUME DeskInit PROVE VerdictInv
    OBVIOUS
  <2>1. state \in [RowIds -> First(list)]
    BY DEF DeskInit
  <2>2. Final => \A r \in RowIds : state[r] \notin Settled
    BY <2>1 DEF Final, First, Settled
  <2> QED BY <2>2, DeskStart DEF VerdictInv
<1>3. Init => VerdictInv
  BY <1>2 DEF Init
<1>4. VerdictInv /\ [Next]_pagesVars => VerdictInv' /\ [VerdictKept]_deskVars
  BY <1>1, VerdictStep, StepsOfParts
<1> HIDE DEF VerdictInv, VerdictKept
<1> QED BY <1>3, <1>4, PTL DEF Spec

-----------------------------------------------------------------------------
(* A code lives once: it is inserted unused and then used, never unused or *)
(* gone again; and what a verification counts as accepted is a code that   *)
(* was sent, once, and is used from then on.                               *)
CodeLife ==
  \A c \in CodeIds :
    /\ otps[c] = "used" => otps'[c] = "used"
    /\ otps[c] = "none" => otps'[c] # "used"
    /\ otps[c] = "unused" => otps'[c] # "none"
    /\ accepted'[c] # accepted[c] =>
         (accepted'[c] = accepted[c] + 1 /\ otps[c] # "none" /\ otps'[c] = "used")

LEMMA CodeLives == CodesInv /\ [CodesNext]_codesVars => [CodeLife]_codesVars
<1> SUFFICES ASSUME CodesInv, [CodesNext]_codesVars PROVE CodeLife \/ UNCHANGED codesVars
  OBVIOUS
<1>0. CodesTyped
  BY DEF CodesInv
<1>1. ASSUME UNCHANGED <<otps, accepted>> PROVE CodeLife
  BY <1>1 DEF CodeLife
<1>2. ASSUME NEW r \in CodeIds, Retire(r) PROVE CodeLife
  BY <1>0, <1>2 DEF Retire, CodeLife, CodesTyped
<1>3. ASSUME NEW r \in CodeIds, Insert(r) PROVE CodeLife
  <2>1. newest' = newest + 1 /\ newest \in Nat /\ \A c \in CodeIds : c \in Nat
    BY <1>0, <1>3 DEF Insert, CodesTyped, CodeIds
  <2>2. \A c \in CodeIds : otps'[c] = IF c = newest + 1 THEN "unused" ELSE otps[c]
    BY <1>0, <1>3 DEF Insert, CodesTyped
  <2>3. \A c \in CodeIds : c = newest + 1 => otps[c] = "none"
    BY <2>1 DEF CodesInv
  <2>4. UNCHANGED accepted
    BY <1>3 DEF Insert
  <2> QED BY <2>2, <2>3, <2>4 DEF CodeLife
<1>4. ASSUME NEW p \in OtpPages, Mark(p) PROVE CodeLife
  <2>1. PICK c \in CodeIds : c = verifying[p].code /\ Holds(p, c)
    BY <1>0, <1>4 DEF Mark, CodesTyped, Holds, NoVerify
  <2>2. /\ otps' = [otps EXCEPT ![c] = "used"]
        /\ accepted' = [accepted EXCEPT ![c] = @ + 1]
    BY <1>4, <2>1 DEF Mark
  <2>3. otps[c] # "none"
    BY <2>1 DEF CodesInv
  <2> QED BY <1>0, <2>1, <2>2, <2>3 DEF CodeLife, CodesTyped
<1>5. ASSUME NEW p \in OtpPages,
             \/ OpenPage(p) \/ Resend(p) \/ Cooled(p) \/ Select(p) \/ VerifyFails(p)
             \/ \E c \in CodeIds : Verify(p, c)
      PROVE  CodeLife
  BY <1>1, <1>5 DEF OpenPage, Resend, Cooled, Select, VerifyFails, Verify
<1>6. ASSUME NEW r \in CodeIds, RequestAnswered(r) \/ RequestFails(r) PROVE CodeLife
  BY <1>1, <1>6 DEF RequestAnswered, RequestFails, RequestEnds
<1>7. ASSUME NEW c \in CodeIds, Expire(c) PROVE CodeLife
  BY <1>1, <1>7 DEF Expire
<1> QED BY <1>2, <1>3, <1>4, <1>5, <1>6, <1>7 DEF CodesNext

(* However requests and verifications overlap, no used code becomes usable *)
(* again.                                                                  *)
THEOREM CodesLiveOnce == Spec => [][CodeLife]_codesVars
<1>1. Init => CodesInv
  BY CodesInitInv DEF Init
<1>2. CodesInv /\ [Next]_pagesVars => CodesInv' /\ [CodeLife]_codesVars
  BY CodesStepInv, CodeLives, StepsOfParts
<1> HIDE DEF CodesInv, CodeLife
<1> QED BY <1>1, <1>2, PTL DEF Spec
-----------------------------------------------------------------------------
(* The code field says "checking" exactly while the lookup of the code in  *)
(* it is under way, and one lookup at most is still wanted: whatever is    *)
(* typed meanwhile, the field neither hangs nor waits for two answers.     *)
CheckingIsLooking ==
  /\ refStatus = "checking" <=> \E l \in lookups : l.alive
  /\ \A l, m \in lookups : l.alive /\ m.alive => l = m
  /\ refStatus = "idle" <=> referral = NoCode

LEMMA CheckingStep ==
  LookupInv /\ CheckingIsLooking /\ [RegisterNext]_registerVars => CheckingIsLooking'
<1> SUFFICES ASSUME LookupInv, CheckingIsLooking, [RegisterNext]_registerVars
             PROVE  CheckingIsLooking'
  OBVIOUS
<1>1. ASSUME UNCHANGED <<referral, refStatus, lookups>> PROVE CheckingIsLooking'
  BY <1>1 DEF CheckingIsLooking
<1>2. CASE TypeCode
  <2> DEFINE dead == {[l EXCEPT !.alive = FALSE] : l \in lookups}
             new(c) == {[code |-> k, n |-> typings', alive |-> TRUE] : k \in {c} \ {NoCode}}
  <2>1. PICK c \in RefCodes \cup {NoCode} :
          /\ referral' = c
          /\ refStatus' = IF c = NoCode THEN "idle" ELSE "checking"
          /\ lookups' = dead \cup new(c)
    BY <1>2 DEF TypeCode
  <2>2. \A l \in dead : ~l.alive
    BY DEF LookupInv, Lookups
  <2>3. /\ \A l, m \in new(c) : l = m
        /\ \A l \in new(c) : l.alive
        /\ new(c) # {} <=> c # NoCode
    <3>1. CASE c = NoCode
      BY <3>1
    <3>2. CASE c # NoCode
      <4>1. PICK r : r.alive /\ new(c) = {r}
        <5>1. new(c) = {[code |-> c, n |-> typings', alive |-> TRUE]}
          BY <3>2
        <5> QED BY <5>1
      <4> HIDE DEF new
      <4> QED BY <3>2, <4>1
    <3> QED BY <3>1, <3>2
  <2> HIDE DEF dead, new
  <2> QED BY <2>1, <2>2, <2>3 DEF CheckingIsLooking
<1>3. ASSUME NEW l \in lookups, AnswerLookup(l) PROVE CheckingIsLooking'
  <2>1. lookups' = lookups \ {l} /\ UNCHANGED referral
    BY <1>3 DEF AnswerLookup
  <2>2. CASE l.alive
    <3>1. refStatus' \in {"valid", "invalid"}
      BY <1>3, <2>2 DEF AnswerLookup
    <3>2. \A m \in lookups' : ~m.alive
      BY <2>1, <2>2 DEF CheckingIsLooking
    <3>3. referral # NoCode
      BY <2>2 DEF CheckingIsLooking
    <3> QED BY <2>1, <3>1, <3>2, <3>3 DEF CheckingIsLooking
  <2>3. CASE ~l.alive
    <3>1. UNCHANGED refStatus
      BY <1>3, <2>3 DEF AnswerLookup
    <3> QED BY <2>1, <2>3, <3>1 DEF CheckingIsLooking
  <2> QED BY <2>2, <2>3
<1>4. CASE UNCHANGED registerVars
  BY <1>1, <1>4 DEF registerVars
<1> QED BY <1>1, <1>2, <1>3, <1>4
        DEF RegisterNext, FillAccount, FillSecurity, FillFinish, FillIn, Continue,
            StepBack, Paging, Submit, StoreAccount, Joined, JoinFails

(* The referral code's field never hangs at "checking".                    *)
THEOREM CheckingStaysLooking == Spec => []CheckingIsLooking
<1>1. Init => LookupInv /\ CheckingIsLooking
  BY DEF Init, RegisterInit, LookupInv, StatusOfCode, CheckingIsLooking
<1>2. LookupInv /\ CheckingIsLooking /\ [Next]_pagesVars => LookupInv' /\ CheckingIsLooking'
  BY LookupStepInv, CheckingStep, StepsOfParts
<1> HIDE DEF LookupInv, CheckingIsLooking
<1> QED BY <1>1, <1>2, PTL DEF Spec
-----------------------------------------------------------------------------
(* While a save of the wizard is under way, the form still shows what was  *)
(* sent; the page it made is of those answers, and what the second request *)
(* brought is what the same save kept for it.                              *)
SaveOf(s, w, d) == [at |-> s, branch |-> branch, given |-> given, whole |-> w, docs |-> d]

SaveIsOfForm ==
  saving # NoSave =>
    /\ branch \in Branches /\ ask = Last
    /\ \E w, d : \/ saving = SaveOf("creating", w, d)
                 \/ saving = SaveOf("created", w, d) /\ mine = PageOf(branch, given, FALSE, {})
                 \/ saving = SaveOf("followed", w, d) /\ mine = PageOf(branch, given, w, d)

SaveInv == WizardInv /\ SaveIsOfForm

LEMMA SaveStep == SaveInv /\ [OnboardNext]_onboardVars => SaveInv'
<1> SUFFICES ASSUME SaveInv, [OnboardNext]_onboardVars PROVE SaveIsOfForm'
  BY WizardStep DEF SaveInv
<1>0. /\ SaveIsOfForm /\ branch \in Branches \cup {"none"}
      /\ \A s, w, d : SaveOf(s, w, d).at = s
  BY DEF SaveInv, WizardInv, SaveOf
<1>1. ASSUME UNCHANGED <<branch, ask, given, saving, mine>> PROVE SaveIsOfForm'
  BY <1>0, <1>1 DEF SaveIsOfForm, SaveOf, Last
<1>2. ASSUME saving' = NoSave PROVE SaveIsOfForm'
  BY <1>2 DEF SaveIsOfForm
<1>3. ASSUME saving # NoSave
      PROVE  /\ ask \in {8, 10} /\ Asked = {} /\ ~OnBank
             /\ branch \in Branches /\ ask = Last
  <2>1. branch \in Branches /\ ask = Len(Steps(branch))
    BY <1>0, <1>3 DEF SaveIsOfForm, Last
  <2>2. CASE branch = "individual"
    BY <2>1, <2>2, StepsKnown DEF Asked, Steps, Individual, OnBank, Last
  <2>3. CASE branch = "organisation"
    BY <2>1, <2>3, StepsKnown DEF Asked, Steps, Organisation, OnBank, Last
  <2> QED BY <2>1, <2>2, <2>3 DEF Branches, Last
<1>4. ASSUME NEW b \in Branches, ChooseType(b) PROVE SaveIsOfForm'
  BY <1>2, <1>3, <1>4 DEF ChooseType, Editing
<1>5. ASSUME NEW q \in Asked, Answer(q) \/ Clear(q) PROVE SaveIsOfForm'
  BY <1>2, <1>3, <1>5 DEF Answer, Clear, Editing
<1>6. CASE FillBank \/ ClearDocuments \/ \E d \in Documents : ReadDocument(d) \/ DocumentRead(d)
  BY <1>1, <1>6 DEF FillBank, ClearDocuments, ReadDocument, DocumentRead, Editing
<1>7. CASE Advance \/ Back
  BY <1>2, <1>7 DEF Advance, Back, Editing, Idle
<1>8. CASE Finish
  <2>1. branch \in Branches
    BY <1>0, <1>8, StepsKnown DEF Finish, CanProceed, Last
  <2>2. /\ saving' = [at |-> "creating", branch |-> branch, given |-> given,
                      whole |-> bank = "whole", docs |-> docs]
        /\ UNCHANGED <<branch, ask, given>> /\ ask = Last
    BY <1>8 DEF Finish, Saving
  <2> QED BY <2>1, <2>2 DEF SaveIsOfForm, SaveOf, Last
<1>9. CASE CreateCreator
  <2>1. saving # NoSave /\ saving.at = "creating"
    BY <1>9 DEF CreateCreator, NoSave
  <2>2. PICK w, d : saving = SaveOf("creating", w, d)
    BY <1>0, <2>1 DEF SaveIsOfForm
  <2>3. /\ saving' = [saving EXCEPT !.at = "created"]
        /\ mine' = PageOf(branch, given, FALSE, {})
        /\ UNCHANGED <<branch, ask, given>>
    BY <1>9, <2>2 DEF CreateCreator, Saving, PageOf, SaveOf
  <2>4. saving' = SaveOf("created", w, d)
    BY <2>2, <2>3 DEF SaveOf
  <2> QED BY <1>0, <2>1, <2>3, <2>4 DEF SaveIsOfForm, SaveOf, Last
<1>10. CASE FollowUp
  <2>1. saving # NoSave /\ saving.at = "created"
    BY <1>10 DEF FollowUp, NoSave
  <2>2. PICK w, d : saving = SaveOf("created", w, d) /\ mine = PageOf(branch, given, FALSE, {})
    <3>1. PICK w, d : \/ saving = SaveOf("creating", w, d)
                      \/ saving = SaveOf("created", w, d) /\ mine = PageOf(branch, given, FALSE, {})
                      \/ saving = SaveOf("followed", w, d) /\ mine = PageOf(branch, given, w, d)
      BY <1>0, <2>1 DEF SaveIsOfForm
    <3>2. SaveOf("creating", w, d).at = "creating" /\ SaveOf("followed", w, d).at = "followed"
      BY DEF SaveOf
    <3>3. saving # SaveOf("creating", w, d) /\ saving # SaveOf("followed", w, d)
      BY <2>1, <3>2
    <3> QED BY <3>1, <3>3
  <2>3. /\ saving' = [saving EXCEPT !.at = "followed"]
        /\ mine' = [mine EXCEPT !.whole = saving.whole, !.docs = saving.docs]
        /\ UNCHANGED <<branch, ask, given>>
    BY <1>10 DEF FollowUp, Saving
  <2>4. saving' = SaveOf("followed", w, d) /\ mine' = PageOf(branch, given, w, d)
    BY <2>2, <2>3 DEF SaveOf, PageOf
  <2> QED BY <1>0, <2>1, <2>3, <2>4 DEF SaveIsOfForm, SaveOf, PageOf, Last
<1>11. CASE Conflict \/ CreateFails \/ ToDashboard \/ ToLogin
  BY <1>2, <1>11 DEF Conflict, CreateFails, ToDashboard, ToLogin
<1>12. CASE UNCHANGED onboardVars
  BY <1>1, <1>12 DEF onboardVars
<1> QED BY <1>4, <1>5, <1>6, <1>7, <1>8, <1>9, <1>10, <1>11, <1>12 DEF OnboardNext

(* What the wizard saved is what its form shows.                           *)
THEOREM SavesStayOfForm == Spec => []SaveIsOfForm
<1>1. Init => SaveInv
  BY WizardInit DEF Init, OnboardInit, SaveInv, SaveIsOfForm
<1>2. SaveInv /\ [Next]_pagesVars => SaveInv'
  BY SaveStep, StepsOfParts
<1>3. SaveInv => SaveIsOfForm
  BY DEF SaveInv
<1> QED BY <1>1, <1>2, <1>3, PTL DEF Spec
-----------------------------------------------------------------------------
(* Unless the table was used, a verified creator had both documents before *)
(* an admin who decided, though they may be others by now; and one with    *)
(* both documents on file is in the vetting.                               *)
VettedIsWhole ==
  /\ kyc = "verified" /\ ~byTable => Whole(approved)
  /\ kyc = "not_started" /\ ~byTable => ~Whole(file)

(* A dialog never decides "not_started".                                   *)
NoReset(v) == v.at = "deciding" => v.status # "not_started"
NoneResets == /\ \A a \in Admins : NoReset(vetting[a])
              /\ \A d \in abandoned : d.status # "not_started"

LEMMA VettedStep ==
  ASSUME VettingInv, VettedIsWhole, [VettingNext]_vettingVars,
         NoneResets, DOMAIN file = Kinds
  PROVE  VettedIsWhole'
<1>1. ASSUME NEW k \in Kinds, Upload(k) PROVE VettedIsWhole'
  <2>1. PICK d : /\ file' = [file EXCEPT ![k] = d]
                 /\ kyc' = IF kyc = "not_started"
                              /\ \A m \in Kinds : file[m] # NoDoc \/ (m = k /\ d # NoDoc)
                             THEN "pending" ELSE kyc
                 /\ UNCHANGED <<approved, byTable>>
    BY <1>1 DEF Upload
  <2>2. ASSUME Whole(file') PROVE \A m \in Kinds : file[m] # NoDoc \/ (m = k /\ d # NoDoc)
    BY <2>1, <2>2 DEF Whole
  <2> QED BY <2>1, <2>2 DEF VettedIsWhole, Whole
<1>2. ASSUME Decided PROVE VettedIsWhole'
  BY <1>2 DEF Decided, VettedIsWhole, Whole
<1>6. ASSUME NEW d, Settle(d), OnBoth(d), d.status # "not_started" PROVE VettedIsWhole'
  BY <1>6 DEF Settle, VettedIsWhole, OnBoth, Whole
<1>3. ASSUME NEW a \in Admins, ServeDecision(a) PROVE VettedIsWhole'
  BY <1>3, <1>6 DEF ServeDecision, VettingInv, NoReset, NoneResets
<1>7. ASSUME NEW d \in abandoned, ServeAbandoned(d) PROVE VettedIsWhole'
  BY <1>6, <1>7 DEF ServeAbandoned, VettingInv, NoneResets
<1>4. ASSUME NEW s \in Statuses, SetKyc(s) PROVE VettedIsWhole'
  BY <1>4 DEF SetKyc, VettedIsWhole
<1>5. CASE UNCHANGED vettingVars
  BY <1>5 DEF vettingVars, VettedIsWhole, Whole
<1> QED BY <1>1, <1>2, <1>3, <1>4, <1>5, <1>7
        DEF VettingNext, Vet, ServeVerification, VetEnds, DecisionFails, Decide, Server


VettedInv ==
  /\ VettingInv /\ VettedIsWhole /\ DOMAIN file = Kinds /\ NoneResets

LEMMA VettedInvStep == VettedInv /\ [VettingNext]_vettingVars => VettedInv'
<1> SUFFICES ASSUME VettedInv, [VettingNext]_vettingVars PROVE VettedInv'
  OBVIOUS
<1>1. VettingInv' /\ VettedIsWhole'
  BY VettingStep, VettedStep DEF VettedInv
<1>2. DOMAIN file' = Kinds
  BY DEF VettedInv, VettingNext, Upload, Vet, ServeVerification, VetEnds, DecisionFails, Decide,
         ServeDecision, ServeAbandoned, Settle, SetKyc, Server, Decided, vettingVars
<1>3. ASSUME NEW a \in Admins, NEW v, Dialog(a, v),
             NoReset(v)
      PROVE  \A b \in Admins : NoReset(vetting'[b])
  <2>1. vetting' = [vetting EXCEPT ![a] = v] /\ DOMAIN vetting = Admins
    BY <1>3 DEF Dialog, VettedInv, VettingInv
  <2>2. \A b \in Admins : vetting'[b] = IF b = a THEN v ELSE vetting[b]
    BY <2>1
  <2> QED BY <1>3, <2>2 DEF VettedInv, NoneResets
<1>4. \A b \in Admins : NoReset(vetting'[b])
  <2>1. ASSUME NEW a \in Admins, Vet(a) PROVE \A b \in Admins : NoReset(vetting'[b])
    BY <1>3, <2>1 DEF Vet, NoReset
  <2>2. ASSUME NEW a \in Admins, ServeVerification(a) PROVE \A b \in Admins : NoReset(vetting'[b])
    BY <1>3, <2>2 DEF ServeVerification, NoReset
  <2>3. ASSUME NEW a \in Admins, VetEnds(a) PROVE \A b \in Admins : NoReset(vetting'[b])
    BY <1>3, <2>3 DEF VetEnds, Closed, NoReset
  <2>4. ASSUME NEW a \in Admins, ServeDecision(a) PROVE \A b \in Admins : NoReset(vetting'[b])
    BY <1>3, <2>4 DEF ServeDecision, NoReset
  <2>5. ASSUME NEW a \in Admins, DecisionFails(a) PROVE \A b \in Admins : NoReset(vetting'[b])
    BY <1>3, <2>5 DEF DecisionFails, NoReset
  <2>6. ASSUME NEW a \in Admins, NEW s \in Statuses, Decide(a, s) PROVE \A b \in Admins : NoReset(vetting'[b])
    BY <1>3, <2>6 DEF Decide, NoReset
  <2>7. CASE \/ \E k \in Kinds : Upload(k)
             \/ \E s \in Statuses : SetKyc(s)
             \/ \E d \in abandoned : ServeAbandoned(d)
             \/ UNCHANGED vettingVars
    BY <2>7 DEF Upload, SetKyc, ServeAbandoned, vettingVars, VettedInv, NoneResets
  <2> QED BY <2>1, <2>2, <2>3, <2>4, <2>5, <2>6, <2>7 DEF VettingNext
<1>5. \A d \in abandoned' : d.status # "not_started"
  <2>1. ASSUME NEW a \in Admins, VetEnds(a) PROVE \A d \in abandoned' : d.status # "not_started"
    BY <2>1 DEF VetEnds, VettedInv, NoneResets, NoReset
  <2>2. CASE abandoned' \subseteq abandoned
    BY <2>2 DEF VettedInv, NoneResets
  <2> QED BY <2>1, <2>2
          DEF VettingNext, Upload, Vet, ServeVerification, DecisionFails, Decide, ServeDecision,
              ServeAbandoned, SetKyc, Server, vettingVars
<1> QED BY <1>1, <1>2, <1>4, <1>5 DEF VettedInv, NoneResets

(* Nobody is verified from a dialog without both documents, and both       *)
(* documents on file never lie about without a vetting.                    *)
THEOREM VettedStaysWhole == Spec => []VettedIsWhole
<1>1. Init => VettedInv
  <2> SUFFICES ASSUME VettingInit PROVE VettedInv
    BY DEF Init
  <2>1. VettingInv
    BY DEF VettingInit, VettingInv, VerifiedAsSeen, Closed
  <2>2. ~Whole(Nothing) /\ DOMAIN Nothing = Kinds
    BY DEF Whole, Nothing, Kinds
  <2> QED BY <2>1, <2>2 DEF VettingInit, VettedInv, VettedIsWhole, NoneResets, NoReset, Closed
<1>2. VettedInv /\ [Next]_pagesVars => VettedInv'
  BY VettedInvStep, StepsOfParts
<1>3. VettedInv => VettedIsWhole
  BY DEF VettedInv
<1> QED BY <1>1, <1>2, <1>3, PTL DEF Spec
-----------------------------------------------------------------------------
(* Whatever is typed and clicked, the page orders at least the minimum, of *)
(* a creator that can take tips, and leaves for the gateway only with an   *)
(* order made; and one quote at most is still wanted.                      *)
OrdersAreDue ==
  /\ \A a \in orders : a >= MinTip
  /\ paying.at = "ordered" => paying.amount \in orders
  /\ paying.at = "left" => orders # {}
  /\ paying # NoPay => creator = "ready"
  /\ \A q, r \in quoting : q.alive /\ r.alive => q = r

OrdersInv == /\ QuoteInv /\ OrdersAreDue
             /\ paying.at \in {"none", "asked", "ordered", "left"}
             /\ paying.at = "asked" => /\ paying.amount >= MinTip
                                       /\ paying = [at |-> "asked", amount |-> paying.amount,
                                                    jar |-> paying.jar]

LEMMA OrdersStep == OrdersInv /\ [TipPageNext]_tipPageVars => OrdersInv'
<1> SUFFICES ASSUME OrdersInv, [TipPageNext]_tipPageVars PROVE OrdersInv'
  OBVIOUS
<1>0. QuoteInv'
  BY QuoteStepInv DEF OrdersInv
<1>1. CASE CreatorLoaded \/ JarLoaded \/ UNCHANGED tipPageVars
  BY <1>0, <1>1 DEF OrdersInv, OrdersAreDue, CreatorLoaded, JarLoaded, tipPageVars
<1>2. CASE ChangeAmount
  <2> DEFINE dead == {[q EXCEPT !.alive = FALSE] : q \in quoting}
             new == Quoting(amount', changes')
  <2>1. /\ quoting' = dead \cup new
        /\ UNCHANGED <<creator, paying, orders>>
    BY <1>2 DEF ChangeAmount
  <2>2. \A q \in dead : ~q.alive
    BY DEF OrdersInv, QuoteInv, Quotes
  <2>3. \A q, r \in new : q = r
    BY DEF Quoting
  <2> HIDE DEF dead, new
  <2> QED BY <1>0, <2>1, <2>2, <2>3 DEF OrdersInv, OrdersAreDue
<1>3. ASSUME NEW q \in quoting, QuoteAnswered(q) PROVE OrdersInv'
  BY <1>0, <1>3 DEF OrdersInv, OrdersAreDue, QuoteAnswered
<1>4. CASE Pay
  BY <1>0, <1>4 DEF OrdersInv, OrdersAreDue, Pay, CanPay, Form, NoPay
<1>5. CASE Checkout
  BY <1>0, <1>5 DEF OrdersInv, OrdersAreDue, Checkout, NoPay
<1>6. CASE ToGateway \/ PayFails
  BY <1>0, <1>6 DEF OrdersInv, OrdersAreDue, ToGateway, PayFails, NoPay
<1> QED BY <1>1, <1>2, <1>3, <1>4, <1>5, <1>6 DEF TipPageNext

(* No order of the tip page is below the minimum, and none is paid that    *)
(* was not made.                                                           *)
THEOREM OrdersStayDue == Spec => []OrdersAreDue
<1>1. Init => OrdersInv
  <2> SUFFICES ASSUME TipPageInit PROVE OrdersInv
    BY DEF Init
  <2>1. \A q, r \in Quoting(20, 0) : q = r
    BY DEF Quoting
  <2> QED BY <2>1, QuoteStart DEF TipPageInit, OrdersInv, OrdersAreDue, NoPay
<1>2. OrdersInv /\ [Next]_pagesVars => OrdersInv'
  BY OrdersStep, StepsOfParts
<1>3. OrdersInv => OrdersAreDue
  BY DEF OrdersInv
<1> QED BY <1>1, <1>2, <1>3, PTL DEF Spec
================================================================================
