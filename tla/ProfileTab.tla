------------------------------ MODULE ProfileTab ------------------------------
(***************************************************************************)
(* The profile form of the creator dashboard (ProfileTab in                *)
(* frontend-next's app/dashboard/page.tsx), the row of creator_profiles it *)
(* saves to (update_me of backend-rust/creators), and the checklist that   *)
(* opens the tip page (lib/creator-complete.ts).                           *)
(*                                                                         *)
(* The form is filled once, when the tab is opened, from the profile the   *)
(* dashboard holds then; the bank details follow by a request of their     *)
(* own.  A save sends the whole form.                                      *)
(***************************************************************************)
EXTENDS Naturals

CONSTANTS
  Kept,      (* fields sent only when filled in: name, goal, city, number  *)
  Plain,     (* fields always sent: tagline, category, presets, thanks     *)
             (* note, links, theme, country                                *)
  Pictures,  (* avatar and cover, sent when a new one was picked           *)
  Bank,      (* the payout bank account, always sent                       *)
  Filled,    (* what a field can be filled with                            *)
  MaxVisits, (* bound: how often the tab is opened                         *)
  MaxChanges (* bound: edits and saves                                     *)

Public == Kept \cup Plain \cup Pictures
Fields == Public \cup {Bank}

Blank == "blank"
Unread == "unread"
Values == Filled \cup {Blank}

ASSUME ProfileAssumption ==
  /\ Blank \notin Filled /\ Unread \notin Values
  /\ Bank \notin Public
  /\ Kept \cap Plain = {} /\ Pictures \cap (Kept \cup Plain) = {}
  /\ MaxVisits \in Nat /\ MaxChanges \in Nat

VARIABLES
  row,      (* the creator's row                                           *)
  mine,     (* myCreator of the dashboard: the public fields, once loaded  *)
  form,     (* the fields of the form; a picture Blank unless just picked  *)
  tab,      (* "closed", "bank" until the bank details came, then "filled" *)
  bankRead, (* the bank details as the server read them for this visit     *)
  puts,     (* the save under way that each visit began                    *)
  unsaved,  (* history: the fields of the form that may differ from the    *)
            (* row: edited, or not taken from the row as it is now         *)
  visits,   (* how often the tab was opened; the number of this visit      *)
  changes   (* edits and saves so far                                      *)

profileVars == <<row, mine, form, tab, bankRead, puts, unsaved, visits,
                 changes>>

NoProfile == [f \in {} |-> Blank]
NoPut == [at |-> "none"]

Quiet == \A v \in 1..MaxVisits : puts[v] = NoPut

PublicOf(r) == [f \in Public |-> r[f]]

ProfileInit ==
  /\ row \in [Fields -> Values]
  /\ mine = NoProfile
  /\ form = [f \in Fields |-> Blank]
  /\ tab = "closed" /\ bankRead = Unread
  /\ puts = [v \in 1..MaxVisits |-> NoPut]
  /\ unsaved = {}
  /\ visits = 0 /\ changes = 0

(* tipReadinessChecklist, over what is stored; the row is active.          *)
IsReadyForTips == \A f \in Public : row[f] # Blank

PromisedWithoutPictures == \* mutant: the form's list lacks the pictures
  \A f \in Kept \cup Plain : form[f] # Blank

(* The checklist of the form: "Your tip page is live" at 100%.             *)
Promised == /\ \A f \in Kept \cup Plain : form[f] # Blank
            /\ \A p \in Pictures : form[p] # Blank \/ mine[p] # Blank
-----------------------------------------------------------------------------
(* The profile arrives after the dashboard is shown, and maybe never.      *)
LoadMine == /\ mine = NoProfile
            /\ mine' = PublicOf(row)
            /\ UNCHANGED <<row, form, tab, bankRead, puts, unsaved, visits,
                           changes>>

(* The tab is mounted: every field is taken from the profile of the moment *)
(* or left blank, and the bank details are asked for.                      *)
OpenTab ==
  /\ tab = "closed"
  /\ visits < MaxVisits
  /\ visits' = visits + 1
  /\ tab' = "bank" /\ bankRead' = Unread
  /\ form' = [f \in Fields |-> IF mine # NoProfile /\ f \in Kept \cup Plain
                                THEN mine[f] ELSE Blank]
  /\ unsaved' = IF Quiet /\ mine = PublicOf(row) THEN {Bank} ELSE Fields
  /\ UNCHANGED <<row, mine, puts, changes>>

(* Another tab: what was typed is gone, and so is the answer to myBank-    *)
(* Details; a save under way is not.                                       *)
CloseTab == /\ tab # "closed"
            /\ tab' = "closed" /\ bankRead' = Unread
            /\ UNCHANGED <<row, mine, form, puts, unsaved, visits, changes>>

(* get_my_bank reads the row, before or after a save of this form.         *)
ReadBank == /\ tab = "bank" /\ bankRead = Unread
            /\ bankRead' = row[Bank]
            /\ UNCHANGED <<row, mine, form, tab, puts, unsaved, visits,
                           changes>>

(* Its answer takes the place of what was typed or saved meanwhile.        *)
BankArrives ==
  /\ tab = "bank" /\ bankRead # Unread
  /\ tab' = "filled"
  /\ form' = [form EXCEPT ![Bank] = bankRead]
  /\ unsaved' = IF Quiet /\ bankRead = row[Bank] THEN unsaved \ {Bank}
                                                  ELSE unsaved \cup {Bank}
  /\ UNCHANGED <<row, mine, bankRead, puts, visits, changes>>

(* Or it fails, and nobody is told.                                        *)
BankFails == /\ tab = "bank"
             /\ tab' = "filled"
             /\ UNCHANGED <<row, mine, form, bankRead, puts, unsaved, visits,
                            changes>>

(* The form shows once there is a profile, and can be edited at any time.  *)
Edit(f, v) ==
  /\ tab # "closed" /\ mine # NoProfile
  /\ changes < MaxChanges
  /\ changes' = changes + 1
  /\ form' = [form EXCEPT ![f] = v]
  /\ unsaved' = unsaved \cup {f}
  /\ UNCHANGED <<row, mine, tab, bankRead, puts, visits>>

EditText == \E f \in Kept \cup Plain, v \in Values : Edit(f, v)
EditBank == \E v \in Values : Edit(Bank, v)
Pick == \E p \in Pictures, v \in Filled : Edit(p, v)
-----------------------------------------------------------------------------
(* save: the whole form is sent, and the form stays open for edits.        *)
BeginPut ==
  /\ tab # "closed" /\ mine # NoProfile
  /\ puts[visits] = NoPut
  /\ changes < MaxChanges
  /\ changes' = changes + 1
  /\ puts' = [puts EXCEPT ![visits] =
                [at |-> "sent", body |-> form, unsaved |-> unsaved,
                 row |-> NoProfile]]
  /\ unsaved' = {}
  /\ UNCHANGED <<row, mine, form, tab, bankRead, visits>>

(* The row is written; who else had taken a form from it is out of date.   *)
Written(v) ==
  /\ puts' = [w \in 1..MaxVisits |->
                IF w = v
                  THEN [puts[v] EXCEPT !.at = "stored", !.row = PublicOf(row')]
                ELSE IF puts[w].at = "sent" THEN [puts[w] EXCEPT !.unsaved = Fields]
                ELSE puts[w]]
  /\ unsaved' = IF v = visits THEN unsaved ELSE Fields
  /\ UNCHANGED <<mine, form, tab, bankRead, visits, changes>>

StoreBlankPictures(v) == \* mutant: `avatar ?? ""` for `avatar ?? undefined`
  /\ puts[v].at = "sent"
  /\ row' = [f \in Fields |->
               IF f \in Kept /\ puts[v].body[f] = Blank THEN row[f]
                                                       ELSE puts[v].body[f]]
  /\ Written(v)

(* update_me: COALESCE keeps what is not sent; Blank is sent for others.   *)
Store(v) ==
  /\ puts[v].at = "sent"
  /\ row' = [f \in Fields |->
               IF f \in Kept \cup Pictures /\ puts[v].body[f] = Blank
                 THEN row[f] ELSE puts[v].body[f]]
  /\ Written(v)

(* The answer: the dashboard's profile is replaced, and this visit's       *)
(* pictures are put away, a picture picked meanwhile included.             *)
PutAnswered(v) ==
  /\ puts[v].at = "stored"
  /\ mine' = puts[v].row
  /\ form' = IF v = visits /\ tab # "closed"
                THEN [f \in Fields |-> IF f \in Pictures THEN Blank ELSE form[f]]
                ELSE form
  /\ puts' = [puts EXCEPT ![v] = NoPut]
  /\ UNCHANGED <<row, tab, bankRead, unsaved, visits, changes>>

(* A rejected save, a lost request or a lost answer.                       *)
PutFails(v) ==
  /\ puts[v] # NoPut
  /\ puts' = [puts EXCEPT ![v] = NoPut]
  /\ unsaved' = IF v = visits THEN unsaved \cup puts[v].unsaved ELSE unsaved
  /\ UNCHANGED <<row, mine, form, tab, bankRead, visits, changes>>

ProfileNext ==
  \/ LoadMine \/ OpenTab \/ CloseTab \/ ReadBank \/ BankArrives \/ BankFails
  \/ EditText \/ EditBank \/ Pick \/ BeginPut
  \/ \E v \in 1..MaxVisits : Store(v) \/ PutAnswered(v) \/ PutFails(v)

ProfileSpec == ProfileInit /\ [][ProfileNext]_profileVars
-----------------------------------------------------------------------------
(* A save changes no field the creator left alone, unless the form was not *)
(* filled from the row as it is: opened before the profile arrived or      *)
(* while an earlier save was under way or its answer lost, saved before    *)
(* the bank details arrived, or given bank details that were read before a *)
(* save and arrived after it.  The last puts the old account back into the *)
(* form, and the next save writes it, whatever that save is about.         *)
SavesOnlyEdits ==
  [][\A f \in Fields : row'[f] # row[f] =>
       \E v \in 1..MaxVisits : /\ puts[v].at = "sent" /\ puts'[v].at = "stored"
                               /\ f \in puts[v].unsaved
    ]_profileVars

(* "100% here means the tip page is live": true of a form with nothing     *)
(* unsaved, whatever was saved, failed or opened before.                   *)
PromiseKept ==
  (/\ tab # "closed" /\ unsaved \cap Public = {}
   /\ puts[visits] = NoPut /\ Promised) => IsReadyForTips
===============================================================================
