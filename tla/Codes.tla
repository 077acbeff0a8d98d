--------------------------------- MODULE Codes ---------------------------------
(***************************************************************************)
(* One-time codes: the page that asks for them and takes them              *)
(* (otp-verify of frontend-next), and request_otp and verify_otp of        *)
(* backend-rust/accounts, for one user with several pages open.            *)
(*                                                                         *)
(* Each handler is two statements outside a transaction: a request retires *)
(* the unused codes and then inserts one, a verification selects the       *)
(* newest unused code and then marks it used.                              *)
(***************************************************************************)
EXTENDS Naturals, FiniteSets

CONSTANTS
  OtpPages,    (* the pages open                                           *)
  MaxRequests  (* bound: requests, and so codes                            *)

ASSUME CodesAssumption == MaxRequests \in Nat

VARIABLES
  otps,      (* the rows: "none", "unused" or "used"                       *)
  newest,    (* the number of codes inserted                               *)
  expired,   (* unused codes of more than ten minutes ago                  *)
  requests,  (* the requests: how far, of which page, and whether another  *)
             (* inserted a code since this one retired them                *)
  verifying, (* the verification of each page: how far, with which code    *)
  opened,    (* pages that asked for their first code                      *)
  cooling,   (* pages that wait a minute before another one                *)
  crossed,   (* history: of the last requests, two overlapped              *)
  raced,     (* history: codes that two verifications had selected at once *)
  accepted   (* history: how often each code was accepted                  *)

codesVars == <<otps, newest, expired, requests, verifying, opened, cooling,
               crossed, raced, accepted>>

CodeIds == 1..MaxRequests
NoRequest == [at |-> "none"]
Ended == [at |-> "ended"]
NoVerify == [at |-> "none"]

Unspent == {c \in CodeIds : otps[c] = "unused"}
Begun == {r \in CodeIds : requests[r] # NoRequest}
Resending(p) == \E r \in Begun : /\ requests[r] # Ended
                                 /\ requests[r].page = p /\ requests[r].again

CodesInit ==
  /\ otps = [c \in CodeIds |-> "none"] /\ newest = 0 /\ expired = {}
  /\ requests = [r \in CodeIds |-> NoRequest]
  /\ verifying = [p \in OtpPages |-> NoVerify]
  /\ opened = {} /\ cooling = {}
  /\ crossed = FALSE /\ raced = {}
  /\ accepted = [c \in CodeIds |-> 0]
-----------------------------------------------------------------------------
Request(p, again) ==
  /\ Cardinality(Begun) < MaxRequests
  /\ requests' = [requests EXCEPT ![Cardinality(Begun) + 1] =
                    [at |-> "asked", page |-> p, again |-> again, passed |-> FALSE]]

(* A page asks once when it is opened, and again on Resend, which waits    *)
(* for earlier resends and the minute, and not for the first request.      *)
OpenPage(p) == /\ p \notin opened
               /\ opened' = opened \cup {p}
               /\ Request(p, FALSE)
               /\ UNCHANGED <<otps, newest, expired, verifying, cooling, crossed,
                              raced, accepted>>

CanResend(p) == p \in opened \ cooling /\ ~Resending(p)

Resend(p) == /\ CanResend(p)
             /\ Request(p, TRUE)
             /\ UNCHANGED <<otps, newest, expired, verifying, opened, cooling,
                            crossed, raced, accepted>>

RetireNothing(r) == \* mutant: no UPDATE before the INSERT
  /\ requests[r].at = "asked"
  /\ requests' = [requests EXCEPT ![r].at = "retired"]
  /\ crossed' = FALSE
  /\ UNCHANGED <<otps, newest, expired, verifying, opened, cooling, raced, accepted>>

Retire(r) ==
  /\ requests[r].at = "asked"
  /\ requests' = [requests EXCEPT ![r].at = "retired"]
  /\ otps' = [c \in CodeIds |-> IF otps[c] = "unused" THEN "used" ELSE otps[c]]
  /\ expired' = {} /\ crossed' = FALSE
  /\ UNCHANGED <<newest, verifying, opened, cooling, raced, accepted>>

Insert(r) ==
  /\ requests[r].at = "retired"
  /\ newest' = newest + 1
  /\ otps' = [otps EXCEPT ![newest'] = "unused"]
  /\ requests' = [q \in CodeIds |->
                    IF q = r THEN [requests[q] EXCEPT !.at = "stored"]
                    ELSE IF requests[q].at = "retired"
                      THEN [requests[q] EXCEPT !.passed = TRUE]
                    ELSE requests[q]]
  /\ crossed' = (crossed \/ requests[r].passed)
  /\ UNCHANGED <<expired, verifying, opened, cooling, raced, accepted>>

RequestEnds(r) ==
  /\ requests[r].at \in {"asked", "retired", "stored"}
  /\ requests' = [requests EXCEPT ![r] = Ended]
  /\ UNCHANGED <<otps, newest, expired, verifying, opened, crossed, raced, accepted>>

(* "A one-time code has been sent."                                        *)
RequestAnswered(r) == /\ requests[r].at = "stored"
                      /\ RequestEnds(r)
                      /\ cooling' = cooling \cup {requests[r].page}

(* Refused, stopped between its statements, or its answer lost.            *)
RequestFails(r) == RequestEnds(r) /\ UNCHANGED cooling

Cooled(p) == /\ p \in cooling
             /\ cooling' = cooling \ {p}
             /\ UNCHANGED <<otps, newest, expired, requests, verifying, opened,
                            crossed, raced, accepted>>

Expire(c) == /\ otps[c] = "unused" /\ c \notin expired
             /\ expired' = expired \cup {c}
             /\ UNCHANGED <<otps, newest, requests, verifying, opened, cooling,
                            crossed, raced, accepted>>
-----------------------------------------------------------------------------
Verifies(p, v) == /\ verifying' = [verifying EXCEPT ![p] = v]
                  /\ UNCHANGED <<newest, expired, requests, opened, cooling, crossed>>

(* The six digits in the boxes: of a code that was sent, old or new.       *)
Typed == {c \in CodeIds : otps[c] # "none"}

CanVerify(p) == p \in opened /\ verifying[p] = NoVerify

Verify(p, c) == /\ CanVerify(p) /\ c \in Typed
                /\ Verifies(p, [at |-> "asked", code |-> c])
                /\ UNCHANGED <<otps, raced, accepted>>

(* SELECT the newest unused code: it must be the one typed, and young.     *)
Select(p) ==
  /\ verifying[p].at = "asked"
  /\ \E c \in Unspent \ expired :
       /\ \A d \in Unspent : d <= c
       /\ c = verifying[p].code
       /\ raced' = IF \E q \in OtpPages : verifying[q] = [at |-> "selected", code |-> c]
                     THEN raced \cup {c} ELSE raced
       /\ Verifies(p, [at |-> "selected", code |-> c])
  /\ UNCHANGED <<otps, accepted>>

MarkLater(p) == \* mutant: accepted without being marked
  /\ verifying[p].at = "selected"
  /\ accepted' = [accepted EXCEPT ![verifying[p].code] = @ + 1]
  /\ Verifies(p, [at |-> "marked"])
  /\ UNCHANGED <<otps, raced>>

Mark(p) ==
  /\ verifying[p].at = "selected"
  /\ otps' = [otps EXCEPT ![verifying[p].code] = "used"]
  /\ accepted' = [accepted EXCEPT ![verifying[p].code] = @ + 1]
  /\ Verifies(p, [at |-> "marked"])
  /\ UNCHANGED raced

(* Invalid, expired, lost, or the answer lost: the page can try again.     *)
(* (A page that is answered leaves for the dashboard.)                     *)
VerifyFails(p) == /\ verifying[p] # NoVerify
                  /\ Verifies(p, NoVerify)
                  /\ UNCHANGED <<otps, raced, accepted>>

CodesNext ==
  \/ \E p \in OtpPages : \/ OpenPage(p) \/ Resend(p) \/ Cooled(p)
                      \/ Select(p) \/ Mark(p) \/ VerifyFails(p)
                      \/ \E c \in CodeIds : Verify(p, c)
  \/ \E r \in CodeIds : Retire(r) \/ Insert(r) \/ RequestAnswered(r) \/ RequestFails(r)
  \/ \E c \in CodeIds : Expire(c)
-----------------------------------------------------------------------------
(* However requests and verifications interleave, a code is accepted twice *)
(* only by verifications that had both selected it before either marked    *)
(* it: never again once it was marked or retired.                          *)
SpentOnce == \A c \in CodeIds : accepted[c] > 1 => c \in raced

(* There is one code to verify with, unless two requests overlapped and no *)
(* request was served since.                                               *)
OneActive == Cardinality(Unspent) > 1 => crossed
===============================================================================
