------------------------------- MODULE Outreach -------------------------------
(***************************************************************************)
(* How a creator writes to supporters (RecentTips, TipsTab and             *)
(* SupportersTab of the dashboard): a thank-you for a tip, sent by         *)
(* thank_tip of backend-rust/tips, and an update to everybody who left an  *)
(* email.                                                                  *)
(*                                                                         *)
(* The list of tips is the dashboard's, read before the tab is opened; who *)
(* was thanked since is known to the list as long as it is shown, and a    *)
(* filter that matches nothing takes the list away.                        *)
(***************************************************************************)
EXTENDS Naturals, FiniteSets

CONSTANTS
  Tips,      (* the tips with an email listed                              *)
  NoTip,     (* null                                                       *)
  Texts,     (* what an update can say                                     *)
  NoText,    (* an empty subject or message                                *)
  MaxThanks, (* bound: thank-yous written                                  *)
  MaxUpdates (* bound: updates typed, and times each is mailed             *)

ASSUME OutreachAssumption ==
  /\ NoTip \notin Tips /\ NoText \notin Texts
  /\ IsFiniteSet(Tips) /\ MaxThanks \in Nat /\ MaxUpdates \in Nat

VARIABLES
  listed,   (* the list is shown                                           *)
  thanked,  (* the tips the list shows as thanked                          *)
  busyTip,  (* the tip whose button is disabled                            *)
  thanks,   (* the thank-yous: of which tip, how far, and whether the list *)
            (* that asked for it is still shown                            *)
  thankedAt,(* the tips with thanked_at                                    *)
  emails,   (* history: emails to the supporter of each tip                *)
  crossed,  (* history: tips thanked while another thank-you was under way *)
  unsure,   (* history: tips whose thank-you was forgotten or failed       *)
  wrote,    (* thank-yous so far                                           *)
  draft,    (* the update being written                                    *)
  sending,  (* the update under way                                        *)
  mailed,   (* history: how often each text went out                       *)
  told,     (* history: texts whose sending was reported as failed         *)
  typed     (* updates written so far                                      *)

thankVars == <<listed, thanked, busyTip, thanks, thankedAt, emails, crossed,
               unsure, wrote>>
updateVars == <<draft, sending, mailed, told, typed>>

Under == {n \in 1..MaxThanks : thanks[n].at \in {"sent", "stored"}}
TipOf(ns) == {thanks[n].tip : n \in ns}
NoThanks == [tip |-> NoTip, at |-> "none", here |-> FALSE]
NoUpdate == [at |-> "none", text |-> NoText]

ThankInit ==
  /\ listed = TRUE
  /\ thanked = {} /\ busyTip = NoTip
  /\ thanks = [n \in 1..MaxThanks |-> NoThanks]
  /\ thankedAt = {} /\ emails = [t \in Tips |-> 0]
  /\ crossed = {} /\ unsure = {} /\ wrote = 0
-----------------------------------------------------------------------------
ThankAlways(t) == \* mutant: the button is not disabled while it is busy
  /\ listed /\ t \notin thanked

(* The row of a tip has its button until the list shows it as thanked.     *)
CanThank(t) == listed /\ t \notin thanked /\ busyTip # t

Thank(t) ==
  /\ CanThank(t)
  /\ wrote < MaxThanks
  /\ wrote' = wrote + 1
  /\ busyTip' = t
  /\ thanks' = [thanks EXCEPT ![wrote'] = [tip |-> t, at |-> "sent", here |-> TRUE]]
  /\ crossed' = IF TipOf(Under) \ {t} = {} THEN crossed
                                           ELSE crossed \cup {t} \cup TipOf(Under)
  /\ UNCHANGED <<listed, thanked, thankedAt, emails, unsure>>

(* send_thanks of the scheduler: an email, or a failure that stays there.  *)
SendThanks(t) == \E mail \in {0, 1} : emails' = [emails EXCEPT ![t] = @ + mail]

(* thank_tip: stored, and mailed whether or not it was thanked before.     *)
StoreThanks(n) ==
  /\ thanks[n].at = "sent"
  /\ thanks' = [thanks EXCEPT ![n].at = "stored"]
  /\ thankedAt' = thankedAt \cup {thanks[n].tip}
  /\ SendThanks(thanks[n].tip)
  /\ UNCHANGED <<listed, thanked, busyTip, crossed, unsure, wrote>>

(* The list hears of it if it is still the list that asked; whichever tip  *)
(* was last clicked, its button is enabled.                                *)
Heard(n, done) ==
  /\ thanks' = [thanks EXCEPT ![n].at = "done"]
  /\ thanked' = IF thanks[n].here THEN thanked \cup done ELSE thanked
  /\ busyTip' = IF thanks[n].here THEN NoTip ELSE busyTip
  /\ UNCHANGED <<listed, thankedAt, emails, crossed, wrote>>

ThankAnswered(n) == /\ thanks[n].at = "stored"
                    /\ Heard(n, {thanks[n].tip})
                    /\ UNCHANGED unsure

ThankFailsMarked(n) == \* mutant: marked as thanked whatever came back
  /\ thanks[n].at \in {"sent", "stored"}
  /\ Heard(n, {thanks[n].tip})
  /\ unsure' = unsure \cup {thanks[n].tip}

(* Refused, lost on the way, or its answer lost.                           *)
ThankFails(n) == /\ thanks[n].at \in {"sent", "stored"}
                 /\ Heard(n, {})
                 /\ unsure' = unsure \cup {thanks[n].tip}

(* The list is taken away and comes back having forgotten whom it thanked: *)
(* another tab, or filters that match no tip.                              *)
Relist ==
  /\ listed' = ~listed
  /\ thanked' = {} /\ busyTip' = NoTip
  /\ unsure' = unsure \cup thanked \cup TipOf(Under)
  /\ thanks' = [n \in 1..MaxThanks |-> [thanks[n] EXCEPT !.here = FALSE]]
  /\ UNCHANGED <<thankedAt, emails, crossed, wrote>>
ThankNext == \/ \E t \in Tips : Thank(t)
             \/ \E n \in 1..MaxThanks : StoreThanks(n) \/ ThankAnswered(n) \/ ThankFails(n)
             \/ Relist
-----------------------------------------------------------------------------
UpdateInit == /\ draft = NoText /\ sending = NoUpdate
              /\ mailed = [x \in Texts |-> 0] /\ told = {} /\ typed = 0

Compose == /\ typed < MaxUpdates
           /\ \E x \in Texts \ {draft} : draft' = x
           /\ typed' = typed + 1
           /\ UNCHANGED <<sending, mailed, told>>

CanSendAgain == draft # NoText  \* mutant: enabled while sending

CanSend == draft # NoText /\ sending.at = "none"

SendUpdate == /\ CanSend
              /\ \A x \in Texts : mailed[x] <= MaxUpdates
              /\ sending' = [at |-> "sent", text |-> draft]
              /\ UNCHANGED <<draft, mailed, told, typed>>

(* broadcast of the scheduler: one email to each, as many as can be sent.  *)
Broadcast(x) == mailed' = [mailed EXCEPT ![x] = @ + 1]

(* message_supporters has the update mailed to the supporters it finds.    *)
MailUpdate == /\ sending.at = "sent"
              /\ Broadcast(sending.text)
              /\ sending' = [sending EXCEPT !.at = "mailed"]
              /\ UNCHANGED <<draft, told, typed>>

(* The fields are cleared, with what was typed while it was sent.          *)
UpdateSent == /\ sending.at = "mailed"
              /\ sending' = NoUpdate
              /\ draft' = NoText
              /\ UNCHANGED <<mailed, told, typed>>

UpdateFails == /\ sending.at # "none"
               /\ sending' = NoUpdate
               /\ told' = told \cup {sending.text}
               /\ UNCHANGED <<draft, mailed, typed>>

UpdateNext == Compose \/ SendUpdate \/ MailUpdate \/ UpdateSent \/ UpdateFails
-----------------------------------------------------------------------------
(* A tip shown as thanked was: no lost or late answer leaves "Sent" at a   *)
(* tip whose supporter was never thanked.                                  *)
SentMeansThanked == thanked \subseteq thankedAt

(* A supporter gets a second thank-you only after the first one failed,    *)
(* was forgotten with its list, or crossed the thank-you of another tip,   *)
(* whose answer enabled the button again.                                  *)
ThankedOnce ==
  \A t \in Tips : emails[t] > 1 => t \in unsure \cup crossed

(* An update that was typed once is mailed again only after the creator    *)
(* was told it had failed.                                                 *)
MailedOnce == \A x \in Texts : mailed[x] > 1 => x \in told \/ typed > 1
===============================================================================
