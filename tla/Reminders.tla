------------------------------ MODULE Reminders ------------------------------
(***************************************************************************)
(* The signup reminders of backend-rust/scheduler: run_signup_reminders,   *)
(* started by the cron job every half hour and by the trigger endpoint,    *)
(* over the users of accounts, the profiles of creators and the ledger     *)
(* table signup_reminders.                                                 *)
(*                                                                         *)
(* A sweep reads its candidates once, then sends and records one user      *)
(* after the other.  Nothing keeps two sweeps apart: the cron job does not *)
(* wait for its previous run, nor the endpoint for either.                 *)
(***************************************************************************)
EXTENDS Naturals, FiniteSets

CONSTANTS Users,   (* how many creator accounts sign up; user n is the     *)
                   (* n-th of them, the order the candidates come in       *)
          Sweeps,  (* slots for sweeps that run at the same time           *)
          MaxUnrecorded (* bound: emails to a user that no row follows     *)

ASSUME RemindersAssumption ==
  Users \in Nat /\ MaxUnrecorded \in Nat /\ IsFiniteSet(Sweeps)

VARIABLES
  due,       (* users 1..due are older than REMINDER_AFTER_HOURS           *)
  past,      (* users 1..past are older than REMINDER_WINDOW_DAYS          *)
  profiles,  (* users with a row in creator_profiles                       *)
  reminded,  (* users with a row in signup_reminders                       *)
  emails,    (* how many reminders a user got                              *)
  unrecorded, (* history: how many emails to a user no row followed: the   *)
             (* mailer reported a failure, or the sweep ended in between   *)
  sweep      (* what each sweep is about to do, and for whom               *)

vars == <<due, past, profiles, reminded, emails, unrecorded, sweep>>

User == 1..Users

(* The accounts a reminder is due for, also those too old to get one.      *)
Due == 1..due

Asleep == [at |-> "asleep", todo |-> {}]

Init == /\ due = 0
        /\ past = 0
        /\ profiles = {}
        /\ reminded = {}
        /\ emails = [u \in User |-> 0]
        /\ unrecorded = [u \in User |-> 0]
        /\ sweep = [s \in Sweeps |-> Asleep]

(* The rows are worked through in the order of created_at.                 *)
IsNext(s, u) == u \in sweep[s].todo /\ \A v \in sweep[s].todo : u <= v

ContinueAnyway(s, at, todo) == \* mutant: no check for an empty list
  sweep' = [sweep EXCEPT ![s] = [at |-> at, todo |-> todo]]

(* A sweep with nobody left to remind ends.                                *)
Continue(s, at, todo) ==
  sweep' = [sweep EXCEPT ![s] = IF todo = {} THEN Asleep
                                             ELSE [at |-> at, todo |-> todo]]

MoveOn(s, u) == Continue(s, "send", sweep[s].todo \ {u})
-----------------------------------------------------------------------------
(* Accounts in the window, reminded or not.                                *)
AllInWindow == (past + 1)..due \* mutant: no NOT EXISTS
Candidates == ((past + 1)..due) \ reminded

(* The SELECT over users and signup_reminders.                             *)
Select(s) == /\ sweep[s] = Asleep
             /\ Continue(s, "filter", Candidates)
             /\ UNCHANGED <<due, past, profiles, reminded, emails, unrecorded>>

FilterAll(s) == \* mutant: one candidate with a page ends the sweep
  /\ sweep[s].at = "filter"
  /\ Continue(s, "send", IF sweep[s].todo \cap profiles = {}
                           THEN sweep[s].todo ELSE {})
  /\ UNCHANGED <<due, past, profiles, reminded, emails, unrecorded>>

(* The SELECT over creator_profiles drops who has a page by now.           *)
Filter(s) == /\ sweep[s].at = "filter"
             /\ Continue(s, "send", sweep[s].todo \ profiles)
             /\ UNCHANGED <<due, past, profiles, reminded, emails, unrecorded>>

RecordFirst(s, u) == \* mutant: the row before the email
  /\ sweep[s].at = "send"
  /\ IsNext(s, u)
  /\ reminded' = reminded \cup {u}
  /\ emails' \in {emails, [emails EXCEPT ![u] = @ + 1]}
  /\ MoveOn(s, u)
  /\ UNCHANGED <<due, past, profiles, unrecorded>>

(* send_html_email: the mail server has taken it.                          *)
Delivered(u) == emails' = [emails EXCEPT ![u] = @ + 1]

(* The email.  A failure is logged and the user tried again by the next    *)
(* sweep, also when the mail server had taken the email and only its       *)
(* answer was lost or late.                                                *)
Send(s, u) ==
  /\ sweep[s].at = "send"
  /\ IsNext(s, u)
  /\ \/ /\ Delivered(u)
        /\ sweep' = [sweep EXCEPT ![s].at = "record"]
        /\ UNCHANGED unrecorded
     \/ MoveOn(s, u) /\ UNCHANGED <<emails, unrecorded>>
     \/ /\ unrecorded[u] < MaxUnrecorded
        /\ Delivered(u)
        /\ unrecorded' = [unrecorded EXCEPT ![u] = @ + 1]
        /\ MoveOn(s, u)
  /\ UNCHANGED <<due, past, profiles, reminded>>

(* INSERT ... ON CONFLICT DO NOTHING, then the alerts to the admins.       *)
Record(s, u) ==
  /\ sweep[s].at = "record"
  /\ IsNext(s, u)
  /\ reminded' = reminded \cup {u}
  /\ MoveOn(s, u)
  /\ UNCHANGED <<due, past, profiles, emails, unrecorded>>

(* The sweep ends early: a statement fails through `?`, the caller of the  *)
(* endpoint hangs up, or the service restarts.                             *)
Abort(s) == /\ sweep[s].at \in {"filter", "send"}
            /\ sweep' = [sweep EXCEPT ![s] = Asleep]
            /\ UNCHANGED <<due, past, profiles, reminded, emails, unrecorded>>

(* The same between the email to a user and the user's row.                *)
CutShort(s, u) == /\ sweep[s].at = "record"
                  /\ IsNext(s, u)
                  /\ unrecorded[u] < MaxUnrecorded
                  /\ unrecorded' = [unrecorded EXCEPT ![u] = @ + 1]
                  /\ sweep' = [sweep EXCEPT ![s] = Asleep]
                  /\ UNCHANGED <<due, past, profiles, reminded, emails>>
-----------------------------------------------------------------------------
(* Accounts grow older, and get and lose their page (creators' create and  *)
(* delete_creator_internal), at any time.                                  *)
BecomeDue == /\ due < Users
             /\ due' = due + 1
             /\ UNCHANGED <<past, profiles, reminded, emails, unrecorded,
                            sweep>>

LeaveWindow == /\ past < due
               /\ past' = past + 1
               /\ UNCHANGED <<due, profiles, reminded, emails, unrecorded,
                              sweep>>

CreatePage(u) == /\ u \notin profiles
                 /\ profiles' = profiles \cup {u}
                 /\ UNCHANGED <<due, past, reminded, emails, unrecorded,
                                sweep>>

DeletePage(u) == /\ u \in profiles
                 /\ profiles' = profiles \ {u}
                 /\ UNCHANGED <<due, past, reminded, emails, unrecorded,
                                sweep>>

Work(s) == Filter(s) \/ \E u \in User : Send(s, u) \/ Record(s, u)

GiveUp(s) == Abort(s) \/ \E u \in User : CutShort(s, u)

Next == \/ \E s \in Sweeps : Select(s) \/ Work(s) \/ GiveUp(s)
        \/ BecomeDue
        \/ LeaveWindow
        \/ \E u \in User : CreatePage(u) \/ DeletePage(u)

Spec == Init /\ [][Next]_vars

(* The cron job keeps firing and a sweep that is not aborted works on; not *)
(* every attempt to find the candidates, to email a user or to record it   *)
(* fails or is aborted, however often others are.                          *)
Fairness ==
  \A s \in Sweeps :
    /\ WF_vars(Select(s))
    /\ WF_vars(Work(s))
    /\ SF_vars(Filter(s))
    /\ \A u \in User :
         /\ SF_vars(Send(s, u) /\ sweep'[s].at = "record")
         /\ SF_vars(Record(s, u))

FairSpec == Spec /\ Fairness
-----------------------------------------------------------------------------
(* A sweep at work has somebody to remind, and only whom it is due for.    *)
SweepOK(s) == /\ sweep[s].todo \subseteq Due
              /\ sweep[s].todo = {} <=> sweep[s].at = "asleep"

(* The type of every variable, and what a sweep may have to do.            *)
TypeOK ==
  /\ due \in 0..Users
  /\ past \in 0..due
  /\ profiles \subseteq User
  /\ reminded \subseteq User
  /\ emails \in [User -> Nat]
  /\ unrecorded \in [User -> 0..MaxUnrecorded]
  /\ sweep \in [Sweeps -> [at : {"asleep", "filter", "send", "record"},
                           todo : SUBSET User]]
  /\ \A s \in Sweeps : SweepOK(s)

(* "One email per user, ever."                                             *)
OneEmailEver == \A u \in User : emails[u] <= 1

(* How far it can be exceeded: once for each further sweep that runs at    *)
(* the same time, however long these go on, and once for each email that   *)
(* no row followed, since the mailer reported a failure though the email   *)
(* went out or since the sweep ended in between.  One sweep at a time with *)
(* no such email sends one.                                                *)
EmailsExplained ==
  \A u \in User : emails[u] <= Cardinality(Sweeps) + unrecorded[u]

(* The sweeps between a user's email and row, and those yet to get there.  *)
Emailed(u) == {s \in Sweeps : sweep[s].at = "record" /\ IsNext(s, u)}
Waiting(u) == {s \in Sweeps : u \in sweep[s].todo} \ Emailed(u)

(* Why: before the first row each email has its sweep, about to record it, *)
(* or went unrecorded; after it only the sweeps that had selected the user *)
(* go on.                                                                  *)
Counted(u) ==
  IF u \in reminded
    THEN emails[u] + Cardinality(Waiting(u))
           <= Cardinality(Sweeps) + unrecorded[u]
    ELSE emails[u] <= unrecorded[u] + Cardinality(Emailed(u))

(* Nobody is written off without an email: a row of the ledger, which      *)
(* keeps every later sweep from the user, follows an email.                *)
RemindedWasEmailed == \A u \in reminded : emails[u] > 0

(* The user a sweep is about to record was emailed.                        *)
EmailedInv == \A u \in User : Emailed(u) # {} => emails[u] > 0

(* A user in the window without a page is reminded, whoever comes first    *)
(* and whichever emails fail, unless a page or the window's end overtakes. *)
EveryoneIsReminded ==
  \A u \in User :
    u \in Due ~> u \in reminded \/ u \in profiles \/ u <= past
==============================================================================
