------------------------------ MODULE Onboarding ------------------------------
(***************************************************************************)
(* The wizard that makes a creator page (app/onboarding/page.tsx of        *)
(* frontend-next) and create_creator of backend-rust/creators: two         *)
(* branches of questions, bank details and documents that may be skipped,  *)
(* one request that creates the page and one that brings what the first    *)
(* cannot.                                                                 *)
(***************************************************************************)
EXTENDS Naturals, Sequences, FiniteSets

VARIABLES
  at,       (* "wizard", "dashboard" or "login"                            *)
  branch,   (* the profile type: "none", "individual" or "organisation"    *)
  ask,      (* the step shown, from 1                                      *)
  given,    (* the questions answered                                      *)
  bank,     (* the bank form: "empty", "partial" or "whole"                *)
  reading,  (* the documents being read from disk                          *)
  docs,     (* the documents read                                          *)
  saving,   (* how far the save is, and what it sent                       *)
  mine,     (* the page of this user: none, or what it was made from       *)
  conflict  (* history: the create was refused with 409                    *)

onboardVars == <<at, branch, ask, given, bank, reading, docs, saving, mine, conflict>>

(* The questions of each step, the last two being the bank form and the    *)
(* documents.  (The organisation's number is optional.)                    *)
Individual == << {}, {"platforms"}, {"niche"}, {"size"}, {"age"}, {"gender"},
                 {"city"}, {"name", "tagline"}, {}, {} >>
Organisation == << {}, {"orgType"}, {"causes"}, {}, {"city"}, {"name", "tagline"}, {}, {} >>

Branches == {"individual", "organisation"}

Steps(b) == CASE b = "individual"   -> Individual
              [] b = "organisation" -> Organisation
              [] b = "none"         -> << {} >>

Last == Len(Steps(branch))
OnBank == branch # "none" /\ ask = Last - 1
OnDocs == branch # "none" /\ ask = Last
Asked == Steps(branch)[ask]

(* A text can be cleared and a set emptied; a choice can only be changed.  *)
Texts == {"city", "name", "tagline"}
Clearable == {"platforms", "causes"} \cup Texts
Documents == {"id", "account"}

NoSave == [at |-> "none"]
NoPage == [made |-> FALSE]
Before == [made |-> TRUE, by |-> "before"]

(* The name is that of the account until another is typed.                 *)
OnboardInit == /\ at = "wizard" /\ branch = "none" /\ ask = 1
               /\ given = {"name"} /\ bank = "empty"
               /\ reading = {} /\ docs = {}
               /\ saving = NoSave /\ mine \in {NoPage, Before}
               /\ conflict = FALSE
-----------------------------------------------------------------------------
Editing == at = "wizard" /\ UNCHANGED <<at, saving, mine, conflict>>

ChooseType(b) == /\ ask = 1 /\ branch' = b
                 /\ Editing /\ UNCHANGED <<ask, given, bank, reading, docs>>

Answer(q) == /\ q \in Asked \ given
             /\ given' = given \cup {q}
             /\ Editing /\ UNCHANGED <<branch, ask, bank, reading, docs>>

Clear(q) == /\ q \in Asked \cap given \cap Clearable
            /\ given' = given \ {q}
            /\ Editing /\ UNCHANGED <<branch, ask, bank, reading, docs>>

(* Fields of the bank form, typed, chosen or cleared one by one, or all    *)
(* cleared by "I'll add these later".                                      *)
FillBank == /\ OnBank
            /\ bank' \in {"empty", "partial", "whole"}
            /\ Editing /\ UNCHANGED <<branch, ask, given, reading, docs>>

ReadDocument(d) == /\ OnDocs
                   /\ reading' = reading \cup {d}
                   /\ Editing /\ UNCHANGED <<branch, ask, given, bank, docs>>

(* It was read, on whatever step; or could not be, and the previous stays. *)
DocumentRead(d) == /\ d \in reading
                   /\ reading' = reading \ {d}
                   /\ docs' \in {docs, docs \cup {d}}
                   /\ UNCHANGED <<at, branch, ask, given, bank, saving, mine, conflict>>

ClearDocuments == /\ OnDocs /\ docs # {}
                  /\ docs' = {}
                  /\ Editing /\ UNCHANGED <<branch, ask, given, bank, reading>>
-----------------------------------------------------------------------------
BankGood == bank \in {"empty", "whole"}

CanProceedHere == \* mutant: only what must be chosen is asked for
  IF ask = 1 THEN branch # "none"
  ELSE /\ Asked \ Clearable \subseteq given
       /\ OnBank => BankGood

CanProceed == IF ask = 1 THEN branch # "none"
              ELSE /\ Asked \subseteq given
                   /\ OnBank => BankGood

(* The buttons wait for a save.                                            *)
Idle == saving = NoSave

(* Entering the bank step fills in the holder, if that is still empty.     *)
Advance == /\ CanProceed /\ Idle /\ ask < Last
           /\ ask' = ask + 1
           /\ bank' \in IF ask' = Last - 1 /\ bank # "whole"
                          THEN {"partial"} \cup (IF bank = "partial" THEN {"whole"} ELSE {})
                          ELSE {bank}
           /\ Editing /\ UNCHANGED <<branch, given, reading, docs>>

Back == /\ ask > 1 /\ Idle
        /\ ask' = ask - 1
        /\ Editing /\ UNCHANGED <<branch, given, bank, reading, docs>>

Saving == UNCHANGED <<branch, ask, given, bank, reading, docs>>

(* The last step: what was answered is sent, and what follows is kept for  *)
(* the second request.                                                     *)
Finish == /\ at = "wizard" /\ CanProceed /\ Idle /\ ask = Last
          /\ saving' = [at |-> "creating", branch |-> branch, given |-> given,
                        whole |-> bank = "whole", docs |-> docs]
          /\ UNCHANGED <<at, mine, conflict>> /\ Saving

(* create_creator: one page to a user, and one to a slug.                  *)
CreateCreator == /\ saving.at = "creating" /\ ~mine.made
                 /\ mine' = [made |-> TRUE, by |-> "wizard", branch |-> saving.branch,
                             given |-> saving.given, whole |-> FALSE, docs |-> {}]
                 /\ saving' = [saving EXCEPT !.at = "created"]
                 /\ UNCHANGED <<at, conflict>> /\ Saving

(* 409: this user has a page, or somebody else has one of that name.       *)
Conflict == /\ saving.at = "creating"
            /\ conflict' = TRUE
            /\ at' = "dashboard" /\ saving' = NoSave
            /\ UNCHANGED mine /\ Saving

(* Refused, or lost before or after the page was made: the button is back. *)
CreateFails == /\ at = "wizard" /\ saving.at \in {"creating", "created"}
               /\ saving' = NoSave
               /\ UNCHANGED <<at, mine, conflict>> /\ Saving

FollowUp == /\ saving.at = "created"
            /\ saving.whole \/ saving.docs # {}
            /\ mine' = [mine EXCEPT !.whole = saving.whole, !.docs = saving.docs]
            /\ saving' = [saving EXCEPT !.at = "followed"]
            /\ UNCHANGED <<at, conflict>> /\ Saving

(* The second request need not succeed.                                    *)
ToDashboard == /\ saving.at \in {"created", "followed"}
               /\ at' = "dashboard" /\ saving' = NoSave
               /\ UNCHANGED <<mine, conflict>> /\ Saving

(* Nobody is signed in any more.                                           *)
ToLogin == /\ at = "wizard" /\ at' = "login" /\ saving' = NoSave
           /\ UNCHANGED <<mine, conflict>> /\ Saving

OnboardNext ==
  /\ at = "wizard"
  /\ \/ \E b \in Branches : ChooseType(b)
     \/ \E q \in Asked : Answer(q) \/ Clear(q)
     \/ FillBank
     \/ \E d \in Documents : ReadDocument(d) \/ DocumentRead(d)
     \/ ClearDocuments
     \/ Advance \/ Back
     \/ Finish \/ CreateCreator \/ Conflict \/ CreateFails \/ FollowUp \/ ToDashboard
     \/ ToLogin
-----------------------------------------------------------------------------
(* However the user goes back, changes branch and clears what was filled   *)
(* in, every question of its branch was answered when a page is made by    *)
(* the wizard.                                                             *)
WizardComplete ==
  mine.made /\ mine.by = "wizard" =>
    \A i \in 1..Len(Steps(mine.branch)) : Steps(mine.branch)[i] \subseteq mine.given

(* "The user already has a creator profile - send them on to the           *)
(* dashboard": said of every 409.                                          *)
ConflictIsOwn == conflict => mine.made

OnboardSpec == OnboardInit /\ [][OnboardNext]_onboardVars
===============================================================================
