--------------------------------- MODULE Jars ---------------------------------
(***************************************************************************)
(* The campaign jars of a creator: the dashboard's JarsTab, over the jars  *)
(* kept by backend-rust/creators and the tips into them.                   *)
(*                                                                         *)
(* A load asks for the jars, shows them, asks for what each has raised,    *)
(* and shows that when the last answer is there.  Loads overlap: each      *)
(* creation and each deletion starts one, and the last to be answered is   *)
(* what stays on the screen.                                               *)
(***************************************************************************)
EXTENDS Naturals, Sequences, FiniteSets

CONSTANTS
  JarIds,    (* the ids of jars                                            *)
  Goal,      (* the goal of a jar that has one                             *)
  MaxLoads,  (* bound: loads                                               *)
  MaxWishes  (* bound: creations and deletions                             *)

ASSUME JarsAssumption == /\ Goal \in Nat \ {0}
                         /\ MaxLoads \in Nat /\ MaxWishes \in Nat

VARIABLES
  jars,     (* the rows: 0 for no goal, or Goal; Unmade before, Gone after *)
  raised,   (* what was tipped into each jar                               *)
  shownJars,(* the jars shown, with their goals                            *)
  stats,    (* what is shown as raised                                     *)
  loads,    (* the loads: how far each is, what it was answered            *)
  asking,   (* the Create button waits for its creation                    *)
  deleting, (* how many deletions of each jar are under way                *)
  wishes,   (* creations and deletions so far                              *)
  overtaken,(* history, since the newest load was begun: one was shown     *)
            (* after a later one                                           *)
  untold    (* history, since then: something the newest load does not     *)
            (* tell: a tip after its sums were read, a creation whose      *)
            (* answer was lost, a read of its that failed                  *)

jarVars == <<jars, raised, shownJars, stats, loads, asking, deleting, wishes,
             overtaken, untold>>

Unmade == Goal + 1
Gone == Goal + 2
NoStats == [j \in {} |-> 0]

Rows == {j \in JarIds : jars[j] \in {0, Goal}}

NewLoad == [at |-> "asked", js |-> NoStats, sums |-> NoStats]

Asked(ls) == IF Len(ls) < MaxLoads THEN Append(ls, NewLoad) ELSE ls
Room == Len(loads) < MaxLoads

JarsInit == /\ \E full \in SUBSET JarIds : \E kept \in SUBSET JarIds :
                 /\ full \subseteq kept
                 /\ jars = [j \in JarIds |-> IF j \in kept THEN Goal ELSE Unmade]
                 /\ raised = [j \in JarIds |-> IF j \in full THEN Goal ELSE 0]
            /\ shownJars = NoStats /\ stats = NoStats
            /\ loads = <<NewLoad>>
            /\ asking = FALSE /\ deleting = [j \in JarIds |-> 0]
            /\ wishes = 0
            /\ overtaken = FALSE /\ untold = FALSE

Settled == /\ ~asking /\ deleting = [j \in JarIds |-> 0]
           /\ \A i \in 1..Len(loads) : loads[i].at = "done"
-----------------------------------------------------------------------------
Loading == UNCHANGED <<jars, raised, asking, deleting, wishes>>

Newer(i) == i < Len(loads)
Late(i) == \E k \in i+1..Len(loads) : loads[k].at \in {"listed", "summed", "done"}

(* The list is served; what it answers is of this moment.                  *)
ServeList(i) ==
  /\ loads[i].at = "asked"
  /\ loads' = [loads EXCEPT ![i].at = "served", ![i].js = [j \in Rows |-> jars[j]]]
  /\ UNCHANGED <<shownJars, stats, overtaken, untold>> /\ Loading

ShowJars(i) ==
  /\ loads[i].at = "served"
  /\ shownJars' = loads[i].js
  /\ loads' = [loads EXCEPT ![i].at = "listed"]
  /\ overtaken' = (overtaken \/ Late(i))
  /\ UNCHANGED <<stats, untold>> /\ Loading

(* No list: no jars are shown.                                             *)
ListFails(i) ==
  /\ loads[i].at \in {"asked", "served"}
  /\ shownJars' = NoStats
  /\ loads' = [loads EXCEPT ![i].at = "done"]
  /\ untold' = (untold \/ ~Newer(i))
  /\ overtaken' = (overtaken \/ Late(i))
  /\ UNCHANGED stats /\ Loading

(* Each jar's sum is asked for; one that fails counts as nothing.          *)
ServeSums(i) ==
  /\ loads[i].at = "listed"
  /\ \E ok \in SUBSET DOMAIN loads[i].js :
       /\ loads' = [loads EXCEPT ![i].at = "summed",
                      ![i].sums = [j \in DOMAIN loads[i].js |->
                                     IF j \in ok THEN raised[j] ELSE 0]]
       /\ untold' = (untold \/ (~Newer(i) /\ ok # DOMAIN loads[i].js))
  /\ UNCHANGED <<shownJars, stats, overtaken>> /\ Loading

ShowSums(i) ==
  /\ loads[i].at = "summed"
  /\ stats' = loads[i].sums
  /\ loads' = [loads EXCEPT ![i].at = "done"]
  /\ overtaken' = (overtaken \/ Late(i))
  /\ UNCHANGED <<shownJars, untold>> /\ Loading

(* A tip into a jar: the tab does not hear of it, unless the newest load   *)
(* has not read the sums yet.                                              *)
TipIntoJar(j) ==
  /\ j \in Rows /\ raised[j] < Goal
  /\ raised' = [raised EXCEPT ![j] = Goal]
  /\ untold' = (untold \/ loads[Len(loads)].at \in {"summed", "done"})
  /\ UNCHANGED <<jars, shownJars, stats, loads, asking, deleting, wishes, overtaken>>
-----------------------------------------------------------------------------
Wished == wishes < MaxWishes /\ wishes' = wishes + 1
Unshown == UNCHANGED <<shownJars, stats>>
Begun == loads' = Asked(loads) /\ overtaken' = FALSE /\ untold' = FALSE

PressCreate == /\ ~asking /\ Wished
               /\ asking' = TRUE
               /\ UNCHANGED <<jars, raised, loads, deleting, overtaken, untold>>
               /\ Unshown

CreateUnloaded(j, g) == \* mutant: nothing is loaded after a creation
  /\ asking
  /\ jars[j] = Unmade
  /\ jars' = [jars EXCEPT ![j] = g]
  /\ asking' = FALSE
  /\ UNCHANGED <<raised, deleting, wishes, loads, overtaken, untold>> /\ Unshown

(* create_jar; then a load, or a lost answer, of which the creator is told *)
(* as a failure and nothing is loaded.                                     *)
CreateJar(j, g) ==
  /\ asking
  /\ jars[j] = Unmade
  /\ jars' = [jars EXCEPT ![j] = g]
  /\ asking' = FALSE
  /\ \/ Room /\ Begun
     \/ untold' = TRUE /\ UNCHANGED <<loads, overtaken>>
  /\ UNCHANGED <<raised, deleting, wishes>> /\ Unshown

(* "a jar with that name already exists", or the request is lost.          *)
CreateFails == /\ asking
               /\ asking' = FALSE
               /\ UNCHANGED <<jars, raised, loads, deleting, wishes, overtaken,
                              untold>> /\ Unshown

PressDelete(j) == /\ j \in DOMAIN shownJars /\ Wished
                  /\ deleting' = [deleting EXCEPT ![j] = @ + 1]
                  /\ UNCHANGED <<jars, raised, loads, asking, overtaken, untold>>
                  /\ Unshown

(* delete_jar: the row goes and the tips stay; loaded whatever came back.  *)
DeleteJar(j) == /\ deleting[j] > 0 /\ Room
                /\ jars' \in {jars, [jars EXCEPT ![j] = Gone]}
                /\ deleting' = [deleting EXCEPT ![j] = @ - 1]
                /\ Begun
                /\ UNCHANGED <<raised, asking, wishes>> /\ Unshown

JarsNext ==
  \/ \E i \in 1..Len(loads) : \/ ServeList(i) \/ ShowJars(i) \/ ListFails(i)
                              \/ ServeSums(i) \/ ShowSums(i)
  \/ \E j \in JarIds : \/ TipIntoJar(j)
                      \/ \E g \in {0, Goal} : CreateJar(j, g)
                      \/ PressDelete(j) \/ DeleteJar(j)
  \/ PressCreate \/ CreateFails
-----------------------------------------------------------------------------
(* A row's progress, as the tab works it out.                              *)
RaisedOf(j) == IF j \in DOMAIN stats THEN stats[j] ELSE 0
DoneAt0(j) == RaisedOf(j) >= shownJars[j] \* mutant: no g > 0
Done(j) == shownJars[j] > 0 /\ RaisedOf(j) >= shownJars[j]

(* Once nothing is under way the tab shows the jars there are and what     *)
(* each has raised, the tips included that came while it was being loaded; *)
(* unless the newest load was overtaken by an older one, or there is       *)
(* something that it could not tell.                                       *)
JarsShown ==
  (Settled /\ ~overtaken /\ ~untold) =>
    /\ shownJars = [j \in Rows |-> jars[j]]
    /\ \A j \in Rows : RaisedOf(j) = raised[j]

(* A jar put away among the completed has a goal and has reached it, also  *)
(* when the jars shown and the sums shown are of different loads.          *)
CompletedIsFull ==
  \A j \in DOMAIN shownJars : Done(j) => raised[j] >= Goal
===============================================================================
