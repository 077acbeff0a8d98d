--------------------------------- MODULE Desk ---------------------------------
(***************************************************************************)
(* The lists of the admin portal (app/admin-portal/page.tsx of             *)
(* frontend-next): creators, users, transactions, payouts and disputes,    *)
(* with the buttons in their rows.  A list is what it was when it was last *)
(* read; one row at a time is busy; the request goes through admin_portal  *)
(* to the service that owns the row, which does what it is told; then the  *)
(* list is read again, and the row is free before that is answered.        *)
(***************************************************************************)
EXTENDS Naturals, Sequences

CONSTANTS
  Clerks,    (* the admins at work                                         *)
  RowIds,    (* the rows of the list                                       *)
  NoRow,     (* no row is busy                                             *)
  MaxActs    (* bound: requests made, and times a list is opened again     *)

ASSUME DeskAssumption == NoRow \notin RowIds /\ MaxActs \in Nat

VARIABLES
  list,     (* the list they look at                                       *)
  state,    (* the state of each row                                       *)
  seen,     (* the states each admin was shown last                        *)
  busy,     (* the row each admin sees busy                                *)
  acts,     (* the requests made, in order                                 *)
  fetches,  (* the reads under way: whose, since when, and what they bring *)
  reopened, (* times a list was opened again                               *)
  stale     (* history: rows asked about although the list had them wrong, *)
            (* or while a request for them was under way that this admin   *)
            (* does not see: another's, or one that busy moved away from   *)

deskVars == <<list, state, seen, busy, acts, fetches, reopened, stale>>

Lists == {"creators", "users", "transactions", "payouts", "disputes"}

First(l) == CASE l = "creators"     -> {"active"}
              [] l = "users"        -> {"fan"}
              [] l = "transactions" -> {"completed"}
              [] l = "payouts"      -> {"pending"}
              [] l = "disputes"     -> {"open"}

(* What the buttons of a row send, which depends on the state shown; and   *)
(* what is over once it is sent.                                           *)
CreatorActs(s) == {IF s = "active" THEN "inactive" ELSE "active", "gone"}
UserActs(s) == {"fan", "creator", "gone"} \ {s}
RefundActs(s) == IF s = "completed" THEN {"refund"} ELSE {}
SettleAnyway(s) == {"completed", "failed"} \* mutant: settled rows have buttons, too
SettleActs(s) == IF s = "pending" THEN {"completed", "failed"} ELSE {}
DisputeActs(s) == IF s \notin {"resolved", "rejected"} THEN {"resolved", "rejected"} ELSE {}

Buttons(s) == IF s \in {"gone", "unread"} THEN {}
              ELSE CASE list = "creators"     -> CreatorActs(s)
                     [] list = "users"        -> UserActs(s)
                     [] list = "transactions" -> RefundActs(s)
                     [] list = "payouts"      -> SettleActs(s)
                     [] list = "disputes"     -> DisputeActs(s)

Final == list \in {"payouts", "disputes"}

Unread == [r \in RowIds |-> "unread"]
Fetch(a, n) == [by |-> a, since |-> n, states |-> Unread]
UnderWay(r) == {i \in DOMAIN acts : acts[i].row = r /\ acts[i].at \in {"asked", "served"}}

DeskInit == /\ list \in Lists
            /\ state \in [RowIds -> First(list)]
            /\ seen = [a \in Clerks |-> Unread]
            /\ busy = [a \in Clerks |-> NoRow]
            /\ acts = << >>
            /\ fetches = {Fetch(a, 0) : a \in Clerks}
            /\ reopened = 0 /\ stale = {}
-----------------------------------------------------------------------------
(* The tab is left and opened again: it starts from nothing.               *)
Reopen(a) == /\ Len(acts) + reopened < MaxActs
             /\ reopened' = reopened + 1
             /\ seen' = [seen EXCEPT ![a] = Unread]
             /\ busy' = [busy EXCEPT ![a] = NoRow]
             /\ fetches' = {f \in fetches : f.by # a} \cup {Fetch(a, Len(acts))}
             /\ UNCHANGED <<list, state, acts, stale>>

ServeFetch(f) == /\ f.states = Unread
                 /\ fetches' = (fetches \ {f}) \cup {[f EXCEPT !.states = state]}
                 /\ UNCHANGED <<list, state, seen, busy, acts, reopened, stale>>

Fetched(f) == /\ f.states # Unread
              /\ fetches' = fetches \ {f}
              /\ seen' = [seen EXCEPT ![f.by] = f.states]
              /\ UNCHANGED <<list, state, busy, acts, reopened, stale>>

(* fetch_array: the service that has the rows cannot be read, and the      *)
(* answer is that there are none.                                          *)
FetchedNone(f) == /\ f.states = Unread
                  /\ fetches' = fetches \ {f}
                  /\ seen' = [seen EXCEPT ![f.by] = Unread]
                  /\ UNCHANGED <<list, state, busy, acts, reopened, stale>>

(* "Couldn't load data": no rows until the tab is opened again.            *)
FetchFails(f) == /\ fetches' = {g \in fetches : g.by # f.by}
                 /\ seen' = [seen EXCEPT ![f.by] = Unread]
                 /\ UNCHANGED <<list, state, busy, acts, reopened, stale>>
-----------------------------------------------------------------------------
CanPress(a, r, v) == v \in Buttons(seen[a][r]) /\ busy[a] # r

Act(a, r, v) ==
  /\ Len(acts) + reopened < MaxActs
  /\ CanPress(a, r, v)
  /\ busy' = [busy EXCEPT ![a] = r]
  /\ acts' = Append(acts, [by |-> a, row |-> r, value |-> v, at |-> "asked"])
  /\ stale' = IF \/ seen[a][r] # state[r]
                 \/ \E i \in UnderWay(r) : acts[i].by # a \/ busy[a] # r
                THEN stale \cup {r} ELSE stale
  /\ UNCHANGED <<list, state, seen, fetches, reopened>>

(* admin_portal asks the service that owns the row, which answers if the   *)
(* row is there.                                                           *)
Forwarded(i) == /\ acts[i].at = "asked" /\ state[acts[i].row] # "gone"
                /\ acts' = [acts EXCEPT ![i].at = "served"]
                /\ UNCHANGED <<list, seen, busy, fetches, reopened, stale>>

(* The row becomes what was asked for, whatever it was.                    *)
Stores(i) == state' = [state EXCEPT ![acts[i].row] = acts[i].value]

SetActive(i) == /\ list = "creators" /\ acts[i].value # "gone"
                /\ Forwarded(i) /\ Stores(i)

DeleteCreator(i) == /\ list = "creators" /\ acts[i].value = "gone"
                    /\ Forwarded(i) /\ Stores(i)

SetRole(i) == /\ list = "users" /\ acts[i].value # "gone"
              /\ Forwarded(i) /\ Stores(i)

(* Of somebody else: one's own account is refused.                         *)
DeleteUser(i) == /\ list = "users" /\ acts[i].value = "gone"
                 /\ Forwarded(i) /\ Stores(i)

(* The gateway is asked, and no row changes.                               *)
Refund(i) == list = "transactions" /\ Forwarded(i) /\ UNCHANGED state

SetPayoutStatus(i) == list = "payouts" /\ Forwarded(i) /\ Stores(i)

SetDisputeStatus(i) == list = "disputes" /\ Forwarded(i) /\ Stores(i)

ServeAct(i) == \/ SetActive(i) \/ DeleteCreator(i) \/ SetRole(i) \/ DeleteUser(i)
               \/ Refund(i) \/ SetPayoutStatus(i) \/ SetDisputeStatus(i)

(* busy is cleared, whichever row it is by now.                            *)
Free(i) == busy' = [busy EXCEPT ![acts[i].by] = NoRow]

ActAnswered(i) ==
  /\ acts[i].at = "served"
  /\ acts' = [acts EXCEPT ![i].at = "done"]
  /\ fetches' = fetches \cup {Fetch(acts[i].by, Len(acts))}
  /\ Free(i) /\ UNCHANGED <<list, state, seen, reopened, stale>>

(* Refused or lost; or served, and the answer lost.                        *)
ActFails(i) ==
  /\ acts[i].at \in {"asked", "served"}
  /\ acts' = [acts EXCEPT ![i].at = IF @ = "asked" THEN "lost" ELSE "done"]
  /\ Free(i) /\ UNCHANGED <<list, state, seen, fetches, reopened, stale>>

DeskNext ==
  \/ \E a \in Clerks : \/ Reopen(a)
                       \/ \E r \in RowIds : \E v \in Buttons(seen[a][r]) : Act(a, r, v)
  \/ \E f \in fetches : ServeFetch(f) \/ Fetched(f) \/ FetchedNone(f) \/ FetchFails(f)
  \/ \E i \in DOMAIN acts : ServeAct(i) \/ ActAnswered(i) \/ ActFails(i)
-----------------------------------------------------------------------------
(* No payout and no dispute is settled twice, and no row has two requests  *)
(* under way, unless an admin asked from a list that had the row wrong or  *)
(* could not see the other request.                                        *)
TwiceOnlyStale ==
  \A i, j \in DOMAIN acts :
    /\ i < j /\ acts[i].row = acts[j].row
    /\ IF Final THEN acts[i].at # "lost" ELSE {i, j} \subseteq UnderWay(acts[i].row)
    => acts[i].row \in stale
===============================================================================
