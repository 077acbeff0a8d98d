--------------------------- MODULE RemindersProofs ---------------------------
(***************************************************************************)
(* Proofs about module Reminders, for any number of users and sweeps.      *)
(***************************************************************************)
EXTENDS Reminders, FiniteSetTheorems, TLAPS

(* What a step of one sweep leaves alone.                                  *)
OthersKept(s) == \A r \in Sweeps \ {s} : sweep'[r] = sweep[r]

LEMMA TodoIsDue ==
  ASSUME TypeOK, NEW s \in Sweeps
  PROVE  \A u : sweep[s].todo \ u \subseteq Due
BY DEF TypeOK, SweepOK

Sweep == [at : {"asleep", "filter", "send", "record"}, todo : SUBSET User]

LEMMA ContinueEffect ==
  ASSUME TypeOK, NEW s \in Sweeps, NEW at \in {"filter", "send"},
         NEW todo, todo \subseteq Due, Continue(s, at, todo)
  PROVE  /\ OthersKept(s)
         /\ sweep'[s].todo = todo
         /\ sweep'[s].at = IF todo = {} THEN "asleep" ELSE at
         /\ sweep' \in [Sweeps -> Sweep]
<1>1. todo \subseteq User
  BY RemindersAssumption DEF TypeOK, User, Due
<1>2. sweep \in [Sweeps -> Sweep]
  BY DEF TypeOK, Sweep
<1>3. CASE todo = {}
  <2>1. sweep' = [sweep EXCEPT ![s] = Asleep]
    BY <1>3 DEF Continue
  <2>2. Asleep \in Sweep /\ Asleep.todo = {} /\ Asleep.at = "asleep"
    BY DEF Asleep, Sweep
  <2> QED BY <1>2, <1>3, <2>1, <2>2 DEF OthersKept
<1>4. CASE todo # {}
  <2>1. sweep' = [sweep EXCEPT ![s] = [at |-> at, todo |-> todo]]
    BY <1>4 DEF Continue
  <2>2. [at |-> at, todo |-> todo] \in Sweep
    BY <1>1 DEF Sweep
  <2> QED BY <1>2, <1>4, <2>1, <2>2 DEF OthersKept
<1> QED BY <1>3, <1>4

(* A step of one sweep keeps the type when it does so for that sweep.      *)
LEMMA OneSweepSteps ==
  ASSUME TypeOK, NEW s \in Sweeps, OthersKept(s), UNCHANGED due,
         sweep' \in [Sweeps -> Sweep], SweepOK(s)'
  PROVE  /\ sweep' \in [Sweeps -> Sweep]
         /\ \A r \in Sweeps : SweepOK(r)'
BY DEF TypeOK, OthersKept, SweepOK, Due

(* Every variable keeps its type.                                          *)
LEMMA TypeInit == Init => TypeOK
  BY RemindersAssumption DEF Init, TypeOK, Asleep, Due, SweepOK

LEMMA TypeStep == TypeOK /\ [Next]_vars => TypeOK'
<1> SUFFICES ASSUME TypeOK, [Next]_vars PROVE TypeOK'
  OBVIOUS
<1> USE RemindersAssumption
<1> DEFINE SweepsFine == /\ sweep' \in [Sweeps -> Sweep]
                         /\ \A r \in Sweeps : SweepOK(r)'
<1>1. ASSUME NEW s \in Sweeps, Select(s) PROVE TypeOK'
  <2>1. Candidates \subseteq Due
    BY DEF Candidates, TypeOK, Due
  <2>2. OthersKept(s) /\ sweep' \in [Sweeps -> Sweep] /\ SweepOK(s)'
    BY <1>1, <2>1, ContinueEffect DEF Select, SweepOK, Due
  <2> QED BY <1>1, <2>2, OneSweepSteps DEF Select, TypeOK, Sweep
<1>2. ASSUME NEW s \in Sweeps, Filter(s) PROVE TypeOK'
  <2>1. sweep[s].todo \ profiles \subseteq Due
    BY TodoIsDue
  <2>2. OthersKept(s) /\ sweep' \in [Sweeps -> Sweep] /\ SweepOK(s)'
    BY <1>2, <2>1, ContinueEffect DEF Filter, SweepOK, Due
  <2> QED BY <1>2, <2>2, OneSweepSteps DEF Filter, TypeOK, Sweep
<1>3. ASSUME NEW s \in Sweeps, NEW u \in User, MoveOn(s, u), UNCHANGED due
      PROVE  SweepsFine
  <2>1. sweep[s].todo \ {u} \subseteq Due
    BY TodoIsDue
  <2>2. OthersKept(s) /\ sweep' \in [Sweeps -> Sweep] /\ SweepOK(s)'
    BY <1>3, <2>1, ContinueEffect DEF MoveOn, SweepOK, Due
  <2> QED BY <1>3, <2>2, OneSweepSteps
<1>4. ASSUME NEW s \in Sweeps, NEW u \in User, Send(s, u) PROVE TypeOK'
  <2>1. CASE MoveOn(s, u) /\ UNCHANGED <<emails, unrecorded>>
    BY <1>3, <1>4, <2>1 DEF Send, Delivered, TypeOK, Sweep
  <2>3. CASE /\ unrecorded[u] < MaxUnrecorded
             /\ emails' = [emails EXCEPT ![u] = @ + 1]
             /\ unrecorded' = [unrecorded EXCEPT ![u] = @ + 1]
             /\ MoveOn(s, u)
    <3>1. /\ emails' \in [User -> Nat]
          /\ unrecorded' \in [User -> 0..MaxUnrecorded]
      BY <2>3 DEF TypeOK
    <3> QED BY <1>3, <1>4, <2>3, <3>1 DEF Send, Delivered, TypeOK, Sweep
  <2>2. CASE /\ emails' = [emails EXCEPT ![u] = @ + 1]
             /\ sweep' = [sweep EXCEPT ![s].at = "record"]
             /\ UNCHANGED unrecorded
    <3>1. emails' \in [User -> Nat]
      BY <2>2 DEF TypeOK
    <3>2. OthersKept(s) /\ sweep' \in [Sweeps -> Sweep]
      BY <2>2 DEF TypeOK, OthersKept, Sweep
    <3>3. SweepOK(s)'
      BY <1>4, <2>2 DEF TypeOK, SweepOK, Due, Send, Delivered
    <3> QED BY <1>4, <3>1, <3>2, <3>3, OneSweepSteps DEF Send, Delivered, TypeOK, Sweep
  <2> QED BY <1>4, <2>1, <2>2, <2>3 DEF Send, Delivered
<1>5. ASSUME NEW s \in Sweeps, NEW u \in User, Record(s, u) PROVE TypeOK'
  BY <1>3, <1>5 DEF Record, TypeOK, Sweep
<1>6. ASSUME NEW s \in Sweeps, sweep' = [sweep EXCEPT ![s] = Asleep],
             UNCHANGED due
      PROVE  SweepsFine
  <2>1. OthersKept(s) /\ sweep' \in [Sweeps -> Sweep]
    BY <1>6 DEF TypeOK, OthersKept, Sweep, Asleep
  <2>2. SweepOK(s)'
    BY <1>6 DEF TypeOK, SweepOK, Asleep
  <2> QED BY <1>6, <2>1, <2>2, OneSweepSteps
<1>7. ASSUME NEW s \in Sweeps, Abort(s) PROVE TypeOK'
  BY <1>6, <1>7 DEF Abort, TypeOK, Sweep
<1>8. ASSUME NEW s \in Sweeps, NEW u \in User, CutShort(s, u) PROVE TypeOK'
  <2>1. unrecorded' \in [User -> 0..MaxUnrecorded]
    BY <1>8 DEF CutShort, TypeOK
  <2> QED BY <1>6, <1>8, <2>1 DEF CutShort, TypeOK, Sweep
<1>9. ASSUME UNCHANGED sweep, Due \subseteq Due'
      PROVE  SweepsFine
  BY <1>9 DEF TypeOK, SweepOK, Sweep
<1>10. CASE BecomeDue
  <2>1. Due \subseteq Due' /\ due' \in 0..Users /\ past \in 0..due'
    BY <1>10 DEF BecomeDue, TypeOK, Due
  <2> QED BY <1>9, <1>10, <2>1 DEF BecomeDue, TypeOK, Sweep
<1>11. CASE LeaveWindow
  <2>1. Due \subseteq Due' /\ past' \in 0..due
    BY <1>11 DEF LeaveWindow, TypeOK, Due
  <2> QED BY <1>9, <1>11, <2>1 DEF LeaveWindow, TypeOK, Sweep
<1>12. ASSUME NEW u \in User, CreatePage(u) \/ DeletePage(u) PROVE TypeOK'
  <2>1. Due \subseteq Due' /\ profiles' \subseteq User
    BY <1>12 DEF CreatePage, DeletePage, TypeOK, Due
  <2> QED BY <1>9, <1>12, <2>1 DEF CreatePage, DeletePage, TypeOK, Sweep
<1>13. CASE UNCHANGED vars
  <2>1. Due \subseteq Due'
    BY <1>13 DEF vars, Due
  <2> QED BY <1>9, <1>13, <2>1 DEF vars, TypeOK, Sweep
<1> QED BY <1>1, <1>2, <1>4, <1>5, <1>7, <1>8, <1>10, <1>11, <1>12, <1>13
        DEF Next, Work, GiveUp

(* Every variable of the reminders has its type in every state.            *)
THEOREM TypeCorrect == Spec => []TypeOK
  BY TypeInit, TypeStep, PTL DEF Spec

-----------------------------------------------------------------------------
(***************************************************************************)
(* What a step of the system is to one user u.                             *)
(***************************************************************************)

(* Nothing that counts: sweeps may only take the user up before the row.   *)
Quiet(u) == /\ u \in reminded' <=> u \in reminded
            /\ emails'[u] = emails[u]
            /\ unrecorded'[u] = unrecorded[u]
            /\ Emailed(u)' = Emailed(u)
            /\ u \in reminded => Waiting(u)' \subseteq Waiting(u)

(* A sweep the user waits for sends the email.                             *)
Mailed(s, u) == /\ s \in Waiting(u)
                /\ u \in reminded' <=> u \in reminded
                /\ emails'[u] = emails[u] + 1
                /\ unrecorded'[u] = unrecorded[u]
                /\ Emailed(u)' = Emailed(u) \cup {s}
                /\ Waiting(u)' = Waiting(u) \ {s}

(* The sweep that did writes the row, or ends before it.                   *)
Recorded(s, u) == /\ s \in Emailed(u)
                  /\ u \in reminded'
                  /\ emails'[u] = emails[u]
                  /\ unrecorded'[u] = unrecorded[u]
                  /\ Emailed(u)' = Emailed(u) \ {s}
                  /\ Waiting(u)' = Waiting(u)

(* The email goes out, but the mailer reports that it failed.              *)
Missed(s, u) == /\ s \in Waiting(u)
                /\ u \in reminded' <=> u \in reminded
                /\ emails'[u] = emails[u] + 1
                /\ unrecorded'[u] = unrecorded[u] + 1
                /\ Emailed(u)' = Emailed(u)
                /\ Waiting(u)' \subseteq Waiting(u)

Cut(s, u) == /\ s \in Emailed(u)
             /\ u \in reminded' <=> u \in reminded
             /\ emails'[u] = emails[u]
             /\ unrecorded'[u] = unrecorded[u] + 1
             /\ Emailed(u)' = Emailed(u) \ {s}
             /\ Waiting(u)' = Waiting(u)

Told(u) == \/ Quiet(u)
           \/ \E s \in Sweeps : \/ Mailed(s, u) \/ Missed(s, u)
                               \/ Recorded(s, u) \/ Cut(s, u)

LEMMA NextIsOne ==
  ASSUME TypeOK, NEW s \in Sweeps, NEW u \in User, NEW v \in User,
         IsNext(s, u), IsNext(s, v)
  PROVE  u = v
BY RemindersAssumption DEF IsNext, User

(* The sets of sweeps around a user differ by the sweep that steps only.   *)
LEMMA OthersStand ==
  ASSUME TypeOK, NEW s \in Sweeps, NEW u \in User, OthersKept(s)
  PROVE  /\ Emailed(u)' \ {s} = Emailed(u) \ {s}
         /\ Waiting(u)' \ {s} = Waiting(u) \ {s}
<1>1. \A r \in Sweeps \ {s} : r \in Emailed(u)' <=> r \in Emailed(u)
  BY DEF OthersKept, Emailed, IsNext
<1>2. \A r \in Sweeps \ {s} : r \in Waiting(u)' <=> r \in Waiting(u)
  BY <1>1 DEF OthersKept, Waiting
<1>3. /\ Emailed(u) \subseteq Sweeps
      /\ Waiting(u) \subseteq Sweeps
      /\ Emailed(u)' \subseteq Sweeps
      /\ Waiting(u)' \subseteq Sweeps
  BY DEF Emailed, Waiting
<1> QED BY <1>1, <1>2, <1>3

(* A sweep that has nobody's email behind it, before or after its step.    *)
LEMMA QuietSweep ==
  ASSUME TypeOK, NEW s \in Sweeps, NEW u \in User, OthersKept(s),
         UNCHANGED <<reminded, emails, unrecorded>>,
         sweep[s].at # "record", sweep'[s].at # "record",
         u \in reminded /\ u \in sweep'[s].todo => u \in sweep[s].todo
  PROVE  Quiet(u)
<1>1. s \notin Emailed(u) /\ s \notin Emailed(u)'
  BY DEF Emailed
<1>2. u \in reminded /\ s \in Waiting(u)' => s \in Waiting(u)
  BY <1>1 DEF Waiting
<1> QED BY <1>1, <1>2, OthersStand DEF Quiet

(* A sweep that leaves the record stage: one user's email is settled.      *)
LEMMA LeavesRecord ==
  ASSUME TypeOK, NEW s \in Sweeps, NEW u \in User, NEW v \in User,
         OthersKept(s), sweep[s].at = "record", IsNext(s, v),
         sweep'[s].at # "record",
         sweep'[s].todo \subseteq sweep[s].todo \ {v}
  PROVE  IF u = v THEN /\ s \in Emailed(u)
                       /\ Emailed(u)' = Emailed(u) \ {s}
                       /\ Waiting(u)' = Waiting(u)
                  ELSE /\ Emailed(u)' = Emailed(u)
                       /\ Waiting(u)' \subseteq Waiting(u)
<1>1. s \in Emailed(u) <=> u = v
  BY NextIsOne DEF Emailed
<1>2. s \notin Emailed(u)'
  BY DEF Emailed
<1>3. s \in Waiting(u)' => u # v /\ s \in Waiting(u)
  BY <1>1 DEF Waiting
<1>4. u = v => s \notin Waiting(u)
  BY <1>1 DEF Waiting
<1> QED BY <1>1, <1>2, <1>3, <1>4, OthersStand

(* Sending, when the email is sent.                                        *)
LEMMA MailStep ==
  ASSUME TypeOK, NEW s \in Sweeps, NEW u \in User, NEW v \in User,
         sweep[s].at = "send", IsNext(s, v),
         UNCHANGED <<reminded, unrecorded>>,
         emails' = [emails EXCEPT ![v] = @ + 1],
         sweep' = [sweep EXCEPT ![s].at = "record"]
  PROVE  Quiet(u) \/ Mailed(s, u)
<1>1. /\ OthersKept(s)
      /\ sweep'[s].at = "record"
      /\ sweep'[s].todo = sweep[s].todo
  BY DEF TypeOK, OthersKept
<1>2. s \notin Emailed(u) /\ (s \in Waiting(u) <=> u \in sweep[s].todo)
  BY DEF Emailed, Waiting
<1>3. \A w \in User : IsNext(s, w)' <=> IsNext(s, w)
  BY <1>1 DEF IsNext
<1>4. s \in Emailed(u)' <=> u = v
  BY <1>1, <1>3, NextIsOne DEF Emailed
<1>5. s \in Waiting(u)' <=> u # v /\ s \in Waiting(u)
  BY <1>1, <1>2, <1>4 DEF Waiting
<1>6. CASE u = v
  <2>1. s \in Waiting(u)
    BY <1>2, <1>6 DEF IsNext
  <2>2. emails'[u] = emails[u] + 1 /\ unrecorded'[u] = unrecorded[u]
    BY <1>6 DEF TypeOK
  <2>3. /\ Emailed(u)' = Emailed(u) \cup {s}
        /\ Waiting(u)' = Waiting(u) \ {s}
    BY <1>1, <1>2, <1>4, <1>5, <1>6, OthersStand
  <2> QED BY <2>1, <2>2, <2>3 DEF Mailed
<1>7. CASE u # v
  <2>1. emails'[u] = emails[u] /\ unrecorded'[u] = unrecorded[u]
    BY <1>7 DEF TypeOK
  <2>2. /\ Emailed(u)' = Emailed(u)
        /\ Waiting(u)' \subseteq Waiting(u)
    BY <1>1, <1>2, <1>4, <1>5, <1>7, OthersStand
  <2> QED BY <2>1, <2>2 DEF Quiet
<1> QED BY <1>6, <1>7

(* Sending, when the email is sent and reported as failed.                 *)
LEMMA MissStep ==
  ASSUME TypeOK, NEW s \in Sweeps, NEW u \in User, NEW v \in User,
         sweep[s].at = "send", IsNext(s, v), UNCHANGED reminded,
         emails' = [emails EXCEPT ![v] = @ + 1],
         unrecorded' = [unrecorded EXCEPT ![v] = @ + 1],
         OthersKept(s), sweep'[s].at # "record",
         sweep'[s].todo = sweep[s].todo \ {v}
  PROVE  Quiet(u) \/ Missed(s, u)
<1>1. s \notin Emailed(u) /\ s \notin Emailed(u)'
  BY DEF Emailed
<1>2. s \in Waiting(u)' => s \in Waiting(u)
  BY <1>1 DEF Waiting
<1>3. Emailed(u)' = Emailed(u) /\ Waiting(u)' \subseteq Waiting(u)
  BY <1>1, <1>2, OthersStand
<1>4. CASE u = v
  <2>1. s \in Waiting(u)
    BY <1>1, <1>4 DEF Waiting, IsNext
  <2>2. emails'[u] = emails[u] + 1 /\ unrecorded'[u] = unrecorded[u] + 1
    BY <1>4 DEF TypeOK
  <2> QED BY <1>3, <2>1, <2>2 DEF Missed
<1>5. CASE u # v
  <2>1. emails'[u] = emails[u] /\ unrecorded'[u] = unrecorded[u]
    BY <1>5 DEF TypeOK
  <2> QED BY <1>3, <2>1 DEF Quiet
<1> QED BY <1>4, <1>5

(* Every step is one of these to every user.                               *)
LEMMA StepTold ==
  ASSUME TypeOK, [Next]_vars, NEW u \in User
  PROVE  Told(u)
<1>1. ASSUME NEW s \in Sweeps, Select(s) PROVE Quiet(u)
  <2>1. Candidates \subseteq Due
    BY DEF Candidates, TypeOK, Due
  <2>2. /\ OthersKept(s)
        /\ sweep'[s].todo = Candidates
        /\ sweep'[s].at # "record"
    BY <1>1, <2>1, ContinueEffect DEF Select
  <2>3. u \in reminded => u \notin sweep'[s].todo
    BY <2>2 DEF Candidates
  <2>4. sweep[s].at # "record"
    BY <1>1 DEF Select, Asleep
  <2> QED BY <1>1, <2>2, <2>3, <2>4, QuietSweep DEF Select
<1>2. ASSUME NEW s \in Sweeps, Filter(s) PROVE Quiet(u)
  <2>1. sweep[s].todo \ profiles \subseteq Due
    BY TodoIsDue
  <2>2. /\ OthersKept(s)
        /\ sweep'[s].todo \subseteq sweep[s].todo
        /\ sweep'[s].at # "record"
    BY <1>2, <2>1, ContinueEffect DEF Filter
  <2> QED BY <1>2, <2>2, QuietSweep DEF Filter
<1>3. ASSUME NEW s \in Sweeps, NEW v \in User, MoveOn(s, v)
      PROVE  /\ OthersKept(s)
             /\ sweep'[s].todo = sweep[s].todo \ {v}
             /\ sweep'[s].at # "record"
  <2>1. sweep[s].todo \ {v} \subseteq Due
    BY TodoIsDue
  <2> QED BY <1>3, <2>1, ContinueEffect DEF MoveOn
<1>4. ASSUME NEW s \in Sweeps, NEW v \in User, Send(s, v)
      PROVE  Quiet(u) \/ Mailed(s, u) \/ Missed(s, u)
  <2>1. CASE MoveOn(s, v) /\ UNCHANGED <<emails, unrecorded>>
    BY <1>3, <1>4, <2>1, QuietSweep DEF Send, Delivered
  <2>2. CASE /\ emails' = [emails EXCEPT ![v] = @ + 1]
             /\ sweep' = [sweep EXCEPT ![s].at = "record"]
             /\ UNCHANGED unrecorded
    BY <1>4, <2>2, MailStep DEF Send, Delivered
  <2>3. CASE /\ emails' = [emails EXCEPT ![v] = @ + 1]
             /\ unrecorded' = [unrecorded EXCEPT ![v] = @ + 1]
             /\ MoveOn(s, v)
    BY <1>3, <1>4, <2>3, MissStep DEF Send, Delivered
  <2> QED BY <1>4, <2>1, <2>2, <2>3 DEF Send, Delivered
<1>5. ASSUME NEW s \in Sweeps, NEW v \in User, Record(s, v)
      PROVE  Quiet(u) \/ Recorded(s, u)
  <2>1. sweep[s].at = "record" /\ IsNext(s, v) /\ MoveOn(s, v)
    BY <1>5 DEF Record
  <2>2. IF u = v THEN /\ s \in Emailed(u)
                      /\ Emailed(u)' = Emailed(u) \ {s}
                      /\ Waiting(u)' = Waiting(u)
                 ELSE /\ Emailed(u)' = Emailed(u)
                      /\ Waiting(u)' \subseteq Waiting(u)
    BY <1>3, <2>1, LeavesRecord
  <2> QED BY <1>5, <2>2 DEF Record, Quiet, Recorded
<1>6. ASSUME NEW s \in Sweeps, sweep' = [sweep EXCEPT ![s] = Asleep]
      PROVE  OthersKept(s) /\ sweep'[s] = Asleep
  BY <1>6 DEF TypeOK, OthersKept
<1>7. ASSUME NEW s \in Sweeps, Abort(s) PROVE Quiet(u)
  <2>1. sweep'[s] = Asleep
    BY <1>6, <1>7 DEF Abort
  <2>2. sweep[s].at # "record" /\ sweep'[s].at # "record"
    BY <1>7, <2>1 DEF Abort, Asleep
  <2>3. u \notin sweep'[s].todo
    BY <2>1 DEF Asleep
  <2> QED BY <1>6, <1>7, <2>2, <2>3, QuietSweep DEF Abort
<1>8. ASSUME NEW s \in Sweeps, NEW v \in User, CutShort(s, v)
      PROVE  Quiet(u) \/ Cut(s, u)
  <2>1. /\ sweep[s].at = "record"
        /\ IsNext(s, v)
        /\ sweep'[s].at # "record"
        /\ sweep'[s].todo \subseteq sweep[s].todo \ {v}
    <3>1. sweep'[s] = Asleep
      BY <1>6, <1>8 DEF CutShort
    <3> QED BY <1>8, <3>1 DEF CutShort, Asleep
  <2>2. IF u = v THEN /\ s \in Emailed(u)
                      /\ Emailed(u)' = Emailed(u) \ {s}
                      /\ Waiting(u)' = Waiting(u)
                 ELSE /\ Emailed(u)' = Emailed(u)
                      /\ Waiting(u)' \subseteq Waiting(u)
    BY <1>6, <1>8, <2>1, LeavesRecord DEF CutShort
  <2>3. unrecorded'[u] = IF u = v THEN unrecorded[u] + 1 ELSE unrecorded[u]
    BY <1>8 DEF CutShort, TypeOK
  <2> QED BY <1>8, <2>2, <2>3 DEF CutShort, Quiet, Cut
<1>9. ASSUME UNCHANGED <<reminded, emails, unrecorded, sweep>> PROVE Quiet(u)
  BY <1>9 DEF Quiet, Emailed, Waiting, IsNext
<1> QED BY <1>1, <1>2, <1>4, <1>5, <1>7, <1>8, <1>9
        DEF Next, Work, GiveUp, BecomeDue, LeaveWindow, CreatePage,
            DeletePage, vars, Told
-----------------------------------------------------------------------------
(* Whom a sweep is about to record was emailed, and so was whom it has.    *)
LEMMA EmailedStep ==
  TypeOK /\ TypeOK' /\ EmailedInv /\ RemindedWasEmailed /\ [Next]_vars
    => EmailedInv' /\ RemindedWasEmailed'
<1> SUFFICES ASSUME TypeOK, TypeOK', EmailedInv, RemindedWasEmailed,
                    [Next]_vars
             PROVE  EmailedInv' /\ RemindedWasEmailed'
  OBVIOUS
<1> SUFFICES ASSUME NEW u \in User
             PROVE  /\ Emailed(u)' # {} => emails'[u] > 0
                    /\ u \in reminded' => emails'[u] > 0
  <2>1. reminded' \subseteq User
    BY DEF TypeOK
  <2> QED BY <2>1 DEF EmailedInv, RemindedWasEmailed
<1>1. emails[u] \in Nat
  BY DEF TypeOK
<1>2. /\ Emailed(u) # {} => emails[u] > 0
      /\ u \in reminded => emails[u] > 0
  BY DEF EmailedInv, RemindedWasEmailed
<1> QED BY <1>1, <1>2, StepTold DEF Told, Quiet, Mailed, Missed, Recorded, Cut

(* A row in signup_reminders follows an email, whatever sweeps overlap, are *)
(* aborted or are cut short.                                               *)
THEOREM RemindedWereEmailed == Spec => []RemindedWasEmailed
<1>1. Init => EmailedInv /\ RemindedWasEmailed
  BY DEF Init, EmailedInv, RemindedWasEmailed, Emailed, Asleep
<1> QED BY <1>1, TypeCorrect, EmailedStep, PTL DEF Spec
-----------------------------------------------------------------------------
(* A user's sweeps are finitely many, and each is counted once.            *)
LEMMA SweepCounts ==
  ASSUME TypeOK, NEW u \in User
  PROVE  /\ IsFiniteSet(Emailed(u)) /\ Cardinality(Emailed(u)) \in Nat
         /\ IsFiniteSet(Waiting(u)) /\ Cardinality(Waiting(u)) \in Nat
         /\ Cardinality(Sweeps) \in Nat
         /\ Cardinality(Emailed(u)) + Cardinality(Waiting(u))
              <= Cardinality(Sweeps)
<1>1. /\ Emailed(u) \subseteq Sweeps
      /\ Waiting(u) \subseteq Sweeps
      /\ Emailed(u) \cap Waiting(u) = {}
  BY DEF Emailed, Waiting
<1>2. IsFiniteSet(Sweeps)
  BY RemindersAssumption
<1>3. IsFiniteSet(Emailed(u)) /\ IsFiniteSet(Waiting(u))
  BY <1>1, <1>2, FS_Subset
<1>4. /\ Cardinality(Emailed(u)) \in Nat
      /\ Cardinality(Waiting(u)) \in Nat
      /\ Cardinality(Sweeps) \in Nat
  BY <1>2, <1>3, FS_CardinalityType
<1>5. Cardinality(Emailed(u) \cup Waiting(u))
        = Cardinality(Emailed(u)) + Cardinality(Waiting(u))
  <2>1. Cardinality(Emailed(u) \cup Waiting(u))
          = Cardinality(Emailed(u)) + Cardinality(Waiting(u))
              - Cardinality(Emailed(u) \cap Waiting(u))
    BY <1>3, FS_Union
  <2>2. Cardinality({}) = 0
    BY FS_EmptySet
  <2> QED BY <1>1, <1>4, <2>1, <2>2
<1>6. Cardinality(Emailed(u) \cup Waiting(u)) <= Cardinality(Sweeps)
  <2>1. Emailed(u) \cup Waiting(u) \subseteq Sweeps
    BY <1>1
  <2> QED BY <1>2, <2>1, FS_Subset
<1> QED BY <1>3, <1>4, <1>5, <1>6

LEMMA CountedStep ==
  ASSUME TypeOK, TypeOK', [Next]_vars, NEW u \in User, Counted(u)
  PROVE  Counted(u)'
<1>1. /\ emails[u] \in Nat /\ unrecorded[u] \in Nat
      /\ emails'[u] \in Nat /\ unrecorded'[u] \in Nat
  BY RemindersAssumption DEF TypeOK
<1>2. /\ Cardinality(Emailed(u)) \in Nat /\ Cardinality(Waiting(u)) \in Nat
      /\ Cardinality(Emailed(u)') \in Nat /\ Cardinality(Waiting(u)') \in Nat
      /\ Cardinality(Sweeps) \in Nat
  BY SweepCounts, FS_CardinalityType, FS_Subset, RemindersAssumption
     DEF Emailed, Waiting
<1>3. Cardinality(Emailed(u)) + Cardinality(Waiting(u)) <= Cardinality(Sweeps)
  BY SweepCounts
<1>4. CASE Quiet(u)
  <2>1. u \in reminded => Cardinality(Waiting(u)') <= Cardinality(Waiting(u))
    BY <1>4, SweepCounts, FS_Subset DEF Quiet
  <2> QED BY <1>1, <1>2, <1>4, <2>1 DEF Quiet, Counted
<1>5. ASSUME NEW s \in Sweeps, Mailed(s, u) PROVE Counted(u)'
  <2>1. Cardinality(Waiting(u)') = Cardinality(Waiting(u)) - 1
    BY <1>5, SweepCounts, FS_RemoveElement DEF Mailed
  <2>2. s \notin Emailed(u)
    BY <1>5 DEF Mailed, Waiting
  <2>3. Cardinality(Emailed(u)') = Cardinality(Emailed(u)) + 1
    BY <1>5, <2>2, SweepCounts, FS_AddElement DEF Mailed
  <2> QED BY <1>1, <1>2, <1>5, <2>1, <2>3 DEF Mailed, Counted
<1>8. ASSUME NEW s \in Sweeps, Missed(s, u) PROVE Counted(u)'
  <2>1. Cardinality(Waiting(u)') <= Cardinality(Waiting(u))
    BY <1>8, SweepCounts, FS_Subset DEF Missed
  <2> QED BY <1>1, <1>2, <1>8, <2>1 DEF Missed, Counted
<1>6. ASSUME NEW s \in Sweeps, Recorded(s, u) PROVE Counted(u)'
  BY <1>1, <1>2, <1>3, <1>6 DEF Recorded, Counted
<1>7. ASSUME NEW s \in Sweeps, Cut(s, u) PROVE Counted(u)'
  <2>1. Cardinality(Emailed(u)') = Cardinality(Emailed(u)) - 1
    BY <1>7, SweepCounts, FS_RemoveElement DEF Cut
  <2> QED BY <1>1, <1>2, <1>7, <2>1 DEF Cut, Counted
<1> QED BY <1>4, <1>5, <1>6, <1>7, <1>8, StepTold DEF Told

(* However many sweeps overlap and for however long, a user gets at most   *)
(* one email for each sweep that can run at a time, and one more for each  *)
(* email that no row followed: one the mailer reported as failed, or one   *)
(* whose sweep ended before the row.                                       *)
THEOREM EmailsAreExplained == Spec => []EmailsExplained
<1> DEFINE AllCounted == \A u \in User : Counted(u)
<1>1. Init => AllCounted
  <2> SUFFICES ASSUME Init, NEW u \in User PROVE Counted(u)
    OBVIOUS
  <2>1. Cardinality(Emailed(u)) \in Nat
    BY TypeInit, SweepCounts
  <2> QED BY <2>1 DEF Init, Counted
<1>2. TypeOK /\ TypeOK' /\ AllCounted /\ [Next]_vars => AllCounted'
  BY CountedStep
<1>3. TypeOK /\ AllCounted => EmailsExplained
  <2> SUFFICES ASSUME TypeOK, NEW u \in User, Counted(u)
               PROVE  emails[u] <= Cardinality(Sweeps) + unrecorded[u]
    BY DEF EmailsExplained
  <2>1. emails[u] \in Nat /\ unrecorded[u] \in Nat
    BY RemindersAssumption DEF TypeOK
  <2> QED BY <2>1, SweepCounts DEF Counted
<1> QED BY <1>1, <1>2, <1>3, TypeCorrect, PTL DEF Spec


(* One email per user, ever, is true of one sweep at a time as far as each *)
(* email is followed by its row: it takes a second sweep that overlaps, an *)
(* email that went out and was reported as failed, or a sweep that ended   *)
(* between the email and the row, for a user to be reminded twice; emails  *)
(* that do not go out, users who get or lose a page and sweeps that are    *)
(* aborted elsewhere do not lead there.                                    *)
THEOREM OneSweepRemindsOnce ==
  ASSUME Cardinality(Sweeps) = 1
  PROVE  Spec => [](\A u \in User : unrecorded[u] = 0 => emails[u] <= 1)
<1>1. EmailsExplained /\ TypeOK =>
        \A u \in User : unrecorded[u] = 0 => emails[u] <= 1
  BY DEF EmailsExplained, TypeOK
<1> QED BY <1>1, EmailsAreExplained, TypeCorrect, PTL
================================================================================
