-------------------------------- MODULE Shell --------------------------------
(***************************************************************************)
(* The frame of the creator dashboard (DashboardInner and its header,      *)
(* sidebar and overview): the tab shown, and the ?tab= of the URL that     *)
(* follows it and that it follows.                                         *)
(*                                                                         *)
(* A click shows the tab at once and asks the router for the new URL; a    *)
(* link only asks for the URL.  The router answers later, and may give up  *)
(* a navigation when a newer one was asked for.                            *)
(***************************************************************************)
EXTENDS Naturals, Sequences

CONSTANTS
  Tabs,     (* the tabs                                                    *)
  Home,     (* "overview", the tab of a URL that names none                *)
  Linked,   (* tabs that the cards of other tabs link to                   *)
  NoTab,    (* a URL without ?tab=                                         *)
  OddTab,   (* a URL with a ?tab= that is no tab                           *)
  MaxMoves  (* bound: clicks and links                                     *)

ASSUME ShellAssumption == /\ Home \in Tabs /\ Linked \subseteq Tabs
                          /\ NoTab \notin Tabs /\ OddTab \notin Tabs
                          /\ NoTab # OddTab
                          /\ MaxMoves \in Nat

VARIABLES
  url,      (* the ?tab= of the URL                                        *)
  shown,    (* the tab                                                     *)
  going,    (* the URLs asked of the router, oldest first                  *)
  givenUp,  (* history: the router has given up a navigation               *)
  drawer,   (* the sidebar is open over the page, on a phone               *)
  leaving,  (* logged out: the login page was asked for                    *)
  moves     (* clicks and links so far                                     *)

shellVars == <<url, shown, going, givenUp, drawer, leaving, moves>>

Urls == Tabs \cup {NoTab, OddTab}

(* initialTab, and what the effect makes of a URL that names a tab or none *)
TabOf(u) == IF u \in Tabs THEN u ELSE Home

UrlOf(t) == IF t = Home THEN NoTab ELSE t

ShellInit == /\ url \in Urls
             /\ shown = TabOf(url)
             /\ going = <<>>
             /\ givenUp = FALSE
             /\ drawer = FALSE
             /\ leaving = FALSE
             /\ moves = 0

Moved == /\ ~leaving
         /\ moves < MaxMoves
         /\ moves' = moves + 1

(* setTab.                                                                 *)
SetTab(t) == /\ shown' = t
             /\ going' = Append(going, UrlOf(t))
             /\ UNCHANGED <<url, givenUp, leaving>>

(* A row of the sidebar, which closes the drawer.                          *)
ClickNav == \E t \in Tabs : /\ Moved /\ SetTab(t)
                            /\ drawer' = FALSE

(* The cards of the overview: bank details, quick actions, goal, week.     *)
Jump == \E t \in Tabs \ {Home} : /\ Moved /\ shown = Home /\ SetTab(t)
                                 /\ UNCHANGED drawer

(* A card that links to another tab, or the page's own link.               *)
FollowLink == /\ Moved
              /\ \E t \in Linked \ {shown} : going' = Append(going, t)
              /\ UNCHANGED <<url, shown, givenUp, drawer, leaving>>

Drawer == /\ ~leaving
          /\ drawer' = ~drawer
          /\ UNCHANGED <<url, shown, going, givenUp, leaving, moves>>

LandKeepsTab(i) == \* mutant: a URL without a tab is not followed
  /\ url' = going[i]
  /\ going' = SubSeq(going, i + 1, Len(going))
  /\ givenUp' = (givenUp \/ i > 1)
  /\ shown' = IF url' # url /\ url' \in Tabs THEN url' ELSE shown
  /\ UNCHANGED <<drawer, leaving, moves>>

(* The URL changes, and the effect goes after it.                          *)
Land(i) ==
  /\ url' = going[i]
  /\ going' = SubSeq(going, i + 1, Len(going))
  /\ givenUp' = (givenUp \/ i > 1)
  /\ shown' = IF url' # url /\ url' # OddTab THEN TabOf(url') ELSE shown
  /\ UNCHANGED <<drawer, leaving, moves>>

LogOut == /\ ~leaving
          /\ leaving' = TRUE
          /\ UNCHANGED <<url, shown, going, givenUp, drawer, moves>>

ShellNext == \/ ClickNav \/ Jump \/ FollowLink \/ Drawer \/ LogOut
             \/ \E i \in 1..Len(going) : Land(i)
-----------------------------------------------------------------------------
(* "Two-way sync": once the router is done the tab is the one the URL      *)
(* names, however fast tabs and links were clicked, if no navigation was   *)
(* given up.  (Given up for a link to the URL of before, a click leaves    *)
(* the tab without its URL.)                                               *)
TabFollowsUrl ==
  (going = <<>> /\ ~givenUp /\ url # OddTab) => shown = TabOf(url)
===============================================================================
