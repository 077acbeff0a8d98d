-------------------------------- MODULE Reader --------------------------------
(***************************************************************************)
(* The supporters' vault of a creator page (components/ExclusiveVault.tsx  *)
(* of frontend-next), with exclusive_unlock and subscribe of               *)
(* backend-rust/creators: a fan unlocks the posts with an email, and       *)
(* subscribes to tiers before or after that.                               *)
(***************************************************************************)
EXTENDS Naturals, FiniteSets

CONSTANTS
  Emails,    (* the emails typed                                           *)
  Tippers,   (* those that tipped this month                               *)
  Tiers,     (* the tiers of the creator                                   *)
  Locked,    (* no posts shown yet                                         *)
  MaxCalls   (* bound: unlocks and subscriptions asked for                 *)

ASSUME ReaderAssumption == Tippers \subseteq Emails /\ MaxCalls \in Nat

VARIABLES
  email,     (* the email typed                                            *)
  subs,      (* the subscriptions: tiers of each email                     *)
  posts,     (* whose posts are shown, with which tiers unlocked           *)
  subTier,   (* the tiers offered in the form: none, or the one chosen     *)
  unlocks,   (* unlocks under way, and what they were served               *)
  subscribing, (* subscriptions under way                                  *)
  calls,     (* calls made so far                                          *)
  doubtful   (* history: the email was edited, or an unlock failed or was  *)
             (* overtaken, since the posts and calls last agreed           *)

readerVars == <<email, subs, posts, subTier, unlocks, subscribing, calls, doubtful>>

ReaderInit == /\ email \in Emails
              /\ subs \in [Emails -> {{}, Tiers}]
              /\ posts = Locked /\ subTier = {}
              /\ unlocks = {} /\ subscribing = {}
              /\ calls = 0 /\ doubtful = FALSE
-----------------------------------------------------------------------------
(* The field is there until the posts are.                                 *)
PostsShown == posts # Locked
FieldShown == ~PostsShown

TypeEmail == /\ FieldShown
             /\ email' \in Emails \ {email}
             /\ doubtful' = (doubtful \/ unlocks # {} \/ subscribing # {})
             /\ UNCHANGED <<subs, posts, subTier, unlocks, subscribing, calls>>

ChooseTier(t) == /\ subTier' = {t} /\ subTier # {t}
                 /\ UNCHANGED <<email, subs, posts, unlocks, subscribing, calls, doubtful>>

(* unlock, by Enter (whatever is under way) or by the button.              *)
AskUnlock(e) ==
  /\ calls' = calls + 1
  /\ unlocks' = unlocks \cup {[id |-> calls', email |-> e, tiers |-> {},
                               at |-> "asked"]}

Unlock == /\ calls < MaxCalls /\ FieldShown
          /\ AskUnlock(email)
          /\ doubtful' = (doubtful \/ unlocks # {} \/ subscribing # {})
          /\ UNCHANGED <<email, subs, posts, subTier, subscribing>>

(* tipped_this_month of tips, for a visit within one month.                *)
TippedThisMonth(e) == e \in Tippers

(* exclusive_unlock: a tip of this month, or subscriptions.                *)
ServeUnlock(u) ==
  /\ u.at = "asked"
  /\ unlocks' = (unlocks \ {u}) \cup
       {[u EXCEPT !.at = IF TippedThisMonth(u.email) \/ subs[u.email] # {}
                          THEN "granted" ELSE "refused",
                  !.tiers = subs[u.email]]}
  /\ UNCHANGED <<email, subs, posts, subTier, subscribing, calls, doubtful>>

Unlocked(u) ==
  /\ u.at = "granted"
  /\ unlocks' = unlocks \ {u}
  /\ posts' = [of |-> u.email, tiers |-> u.tiers]
  /\ doubtful' = (doubtful \/ \E v \in unlocks : v.id > u.id)
  /\ UNCHANGED <<email, subs, subTier, subscribing, calls>>

UnlockFails(u) ==
  /\ unlocks' = unlocks \ {u}
  /\ doubtful' = TRUE
  /\ UNCHANGED <<email, subs, posts, subTier, subscribing, calls>>
-----------------------------------------------------------------------------
(* subscribe: the button has no guard but the tier.                        *)
Subscribe ==
  /\ calls < MaxCalls /\ subTier # {}
  /\ calls' = calls + 1
  /\ subscribing' = subscribing \cup {[id |-> calls', email |-> email,
                                       tiers |-> subTier, at |-> "asked"]}
  /\ UNCHANGED <<email, subs, posts, subTier, unlocks, doubtful>>

ServeSubscribe(s) ==
  /\ s.at = "asked"
  /\ subs' = [subs EXCEPT ![s.email] = @ \cup s.tiers]
  /\ subscribing' = (subscribing \ {s}) \cup {[s EXCEPT !.at = "stored"]}
  /\ UNCHANGED <<email, posts, subTier, unlocks, calls, doubtful>>

SubscribedOnly(s) == \* mutant: the posts are not asked for again
  /\ s.at = "stored"
  /\ subscribing' = subscribing \ {s}
  /\ UNCHANGED <<email, subs, posts, subTier, unlocks, calls, doubtful>>

(* The posts are asked for again, for the email there was at the click.    *)
Subscribed(s) ==
  /\ s.at = "stored"
  /\ subscribing' = subscribing \ {s}
  /\ AskUnlock(s.email)
  /\ doubtful' = (doubtful \/ unlocks # {})
  /\ UNCHANGED <<email, subs, posts, subTier>>

SubscribeFails(s) ==
  /\ subscribing' = subscribing \ {s}
  /\ doubtful' = TRUE
  /\ UNCHANGED <<email, subs, posts, subTier, unlocks, calls>>

ReaderNext ==
  \/ TypeEmail \/ Unlock \/ Subscribe
  \/ \E t \in Tiers : ChooseTier(t)
  \/ \E u \in unlocks : ServeUnlock(u) \/ Unlocked(u) \/ UnlockFails(u)
  \/ \E s \in subscribing : ServeSubscribe(s) \/ Subscribed(s) \/ SubscribeFails(s)
-----------------------------------------------------------------------------
(* The posts shown are those of the email shown next to them, and every    *)
(* tier it subscribes to is unlocked, once nothing is under way - unless   *)
(* the email was edited or the posts were asked for again while something  *)
(* was, or a call failed.                                                  *)
VaultCurrent ==
  PostsShown /\ unlocks = {} /\ subscribing = {} /\ ~doubtful =>
    posts.of = email /\ posts.tiers = subs[email]
===============================================================================
