------------------------------- MODULE Figures -------------------------------
(***************************************************************************)
(* The series of the dashboard's AnalyticsTab: tips per day, taken for     *)
(* each day from the server's daily statistics (creator_daily_stats of     *)
(* backend-rust/tips) or, where they have no row, counted from the list of *)
(* tips the dashboard holds.                                               *)
(*                                                                         *)
(* Three days are at work: the statistics' are South Africa's, the series  *)
(* names its days in UTC, and it counts from the list by the days of the   *)
(* browser, which may be anywhere.                                         *)
(***************************************************************************)
EXTENDS Integers, FiniteSets

CONSTANTS
  TipIds,      (* completed tips                                           *)
  Hours,       (* the hours of a day (24)                                  *)
  Ahead,       (* the hours South Africa is ahead of UTC (2)               *)
  Zones,       (* the hours a browser may be ahead of UTC (-12 to 14)      *)
  LastDay,     (* bound: the days are 0..LastDay                           *)
  ServerSpan,  (* the days the statistics go back (30 in the code)         *)
  Ranges,      (* the days of a range, today included (7, 30, 90, all)     *)
  ListCap      (* the tips the dashboard holds (50 in the code)            *)

ASSUME FiguresAssumption ==
  /\ IsFiniteSet(TipIds)
  /\ Hours \in Nat \ {0} /\ Ahead \in 0..Hours
  /\ Ahead \in Zones /\ Zones \subseteq (Ahead - Hours)..Hours
  /\ LastDay \in Nat /\ ServerSpan \in Nat \ {0} /\ ListCap \in Nat
  /\ Ranges # {} /\ Ranges \subseteq Nat \ {0}

VARIABLES
  now,      (* the instant: a day of UTC and an hour of it                 *)
  zone,     (* where the browser is                                        *)
  paidAt,   (* the instant of each tip; ToCome before it                   *)
  known,    (* the tips the dashboard holds                                *)
  daily,    (* the days the statistics have a row for, with its tips       *)
  since,    (* the instant the statistics begin at; ToCome before them     *)
  range     (* the days shown                                              *)

figureVars == <<now, zone, paidAt, known, daily, since, range>>

Later(p, q) == p.day > q.day \/ (p.day = q.day /\ p.hour > q.hour)

(* The day of an instant where clocks are so many hours ahead of UTC.      *)
DayIn(ahead, p) == CASE p.hour + ahead >= Hours -> p.day + 1
                     [] p.hour + ahead < 0      -> p.day - 1
                     [] OTHER                   -> p.day

Instants == [day : 0..LastDay, hour : 0..(Hours - 1)]
ToCome == [day |-> LastDay + 1, hour |-> 0]
Paid == {t \in TipIds : ~Later(paidAt[t], now)}

(* The newest ListCap tips; of one hour the order does not matter here.    *)
Newest(ts) ==
  {t \in ts : Cardinality({u \in ts : Later(paidAt[u], paidAt[t])}) < ListCap}

NoRows == [d \in {} |-> {}]

FiguresInit == /\ now \in Instants /\ zone \in Zones
               /\ paidAt \in [TipIds -> {p \in Instants : ~Later(p, now)}
                                          \cup {ToCome}]
               /\ known \in {Newest(Paid), {}}
               /\ daily = NoRows /\ since = ToCome
               /\ range \in Ranges

(* The statistics, which may be asked for long after the list; or none.    *)
(* Of the hour they begin in, the later tips only.                         *)
Answer ==
  /\ since = ToCome
  /\ since' = [now EXCEPT !.day = @ - ServerSpan]
  /\ \E late \in SUBSET {t \in Paid : paidAt[t] = since'} :
       LET within == late \cup {t \in Paid : Later(paidAt[t], since')}
           days == {DayIn(Ahead, paidAt[t]) : t \in within}
       IN daily' \in {NoRows, [d \in days |->
                                {t \in within : DayIn(Ahead, paidAt[t]) = d}]}
  /\ UNCHANGED <<now, zone, paidAt, known, range>>

SetRange == /\ \E r \in Ranges \ {range} : range' = r
            /\ UNCHANGED <<now, zone, paidAt, known, daily, since>>

(* The page stays open while tips come and hours pass.                     *)
TipOn(t) == /\ paidAt[t] = ToCome
            /\ paidAt' = [paidAt EXCEPT ![t] = now]
            /\ UNCHANGED <<now, zone, known, daily, since, range>>

Clock == /\ \/ now.hour < Hours - 1 /\ now' = [now EXCEPT !.hour = @ + 1]
            \/ now.hour = Hours - 1 /\ now.day < LastDay
               /\ now' = [day |-> now.day + 1, hour |-> 0]
         /\ UNCHANGED <<zone, paidAt, known, daily, since, range>>

FiguresNext == Answer \/ SetRange \/ Clock \/ \E t \in TipIds : TipOn(t)
-----------------------------------------------------------------------------
(* The entry of i days ago: its day by its name in UTC, which the rows are *)
(* looked up by, and the local day that the list is counted by.            *)
Key(i) == now.day - i

Row(i) == IF Key(i) \in DOMAIN daily THEN daily[Key(i)] ELSE {}
ByList(i) == {t \in known : DayIn(zone, paidAt[t]) = DayIn(zone, now) - i}
Counted(i) == IF Key(i) \in DOMAIN daily THEN Row(i) ELSE ByList(i)

EntryAdded(i) == \* mutant: the list is counted on top of the row
  Cardinality(Row(i)) + Cardinality(ByList(i))

Entry(i) == Cardinality(Counted(i))

(* The entries a tip falls in by its South African and by its local day.   *)
RowEntry(t) == now.day - DayIn(Ahead, paidAt[t])
ListEntry(t) == DayIn(zone, now) - DayIn(zone, paidAt[t])

Entries == 0..(range - 1)
BeginsOn == DayIn(Ahead, since)

(* In South Africa, but from midnight to two, when today has another name, *)
(* the tips of each day that the list or the statistics know of are        *)
(* counted once, however old the one or the other has become; except for   *)
(* the day the statistics begin in.                                        *)
CountedOnItsDay ==
  zone = Ahead /\ DayIn(Ahead, now) = now.day =>
    \A i \in Entries : Key(i) # BeginsOn =>
      Entry(i) = Cardinality(ByList(i) \cup Row(i))

(* Anywhere and at any hour, a tip of the list that falls in the range     *)
(* both ways is counted, unless it is of the two days before the           *)
(* statistics begin or of the day they do.                                 *)
NoneLost ==
  \A t \in known :
    /\ RowEntry(t) \in Entries /\ ListEntry(t) \in Entries
    /\ DayIn(Ahead, paidAt[t]) \notin (BeginsOn - 2)..BeginsOn
    => \E i \in Entries : t \in Counted(i)

(* And a tip counted in two entries is counted at most two days apart.     *)
NeverFarApart ==
  \A i, j \in Entries : i + 2 < j => Counted(i) \cap Counted(j) = {}

SeriesCounts == CountedOnItsDay /\ NoneLost /\ NeverFarApart
===============================================================================
