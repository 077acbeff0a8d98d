---------------------------- MODULE DashboardProofs ----------------------------
(***************************************************************************)
(* Proofs about module Dashboard, for any tabs, fields, tips, posts, jars  *)
(* and bounds.  A step of the whole is a step or a stutter of every part,  *)
(* so each property follows from an invariant of its own part.             *)
(***************************************************************************)
EXTENDS Dashboard, FiniteSetTheorems, SequenceTheorems, TLAPS

LEMMA StepsOfParts ==
  ASSUME [Next]_dashboardVars
  PROVE  /\ [ShellNext]_shellVars   /\ [ProfileNext]_profileVars
         /\ [ThankNext]_thankVars   /\ [UpdateNext]_updateVars
         /\ [LedgerNext]_ledgerVars /\ [VaultNext]_vaultVars
         /\ [JarsNext]_jarVars      /\ [FiguresNext]_figureVars
BY DEF Next, InFrame, InProfile, InThanks, InUpdate, InLedger, InVault, InJars,
       InFigures, dashboardVars

-----------------------------------------------------------------------------
(***************************************************************************)
(* The frame.                                                              *)
(***************************************************************************)

(* If no URL asked for differs from the one there is, the tab is its.      *)
ShellInv ==
  /\ url \in Urls /\ going \in Seq(Urls) /\ givenUp \in BOOLEAN
  /\ (\A i \in 1..Len(going) : going[i] = url) /\ ~givenUp /\ url # OddTab
       => shown = TabOf(url)

LEMMA UrlNamesTab ==
  ASSUME NEW t \in Tabs
  PROVE  TabOf(UrlOf(t)) = t /\ UrlOf(t) \in Urls /\ UrlOf(t) # OddTab
BY ShellAssumption DEF TabOf, UrlOf, Urls

LEMMA AskedLast ==
  ASSUME going \in Seq(Urls), NEW u \in Urls, going' = Append(going, u)
  PROVE  /\ going' \in Seq(Urls)
         /\ (\A i \in 1..Len(going') : going'[i] = url)
              => u = url /\ \A i \in 1..Len(going) : going[i] = url
<1>1. /\ going' \in Seq(Urls) /\ Len(going') = Len(going) + 1 /\ Len(going) \in Nat
      /\ \A i \in 1..Len(going) : going'[i] = going[i]
      /\ going'[Len(going) + 1] = u
  BY AppendProperties
<1> QED BY <1>1

LEMMA ShellStep == ShellInv /\ [ShellNext]_shellVars => ShellInv'
<1> SUFFICES ASSUME ShellInv, [ShellNext]_shellVars PROVE ShellInv'
  OBVIOUS
<1>1. ASSUME NEW t \in Tabs, SetTab(t) PROVE ShellInv'
  <2>1. going' \in Seq(Urls) /\ UNCHANGED <<url, givenUp>> /\ shown' = t
    BY <1>1, UrlNamesTab, AskedLast DEF SetTab, ShellInv
  <2>2. (\A i \in 1..Len(going') : going'[i] = url) => UrlOf(t) = url
    BY <1>1, UrlNamesTab, AskedLast DEF SetTab, ShellInv
  <2> QED BY <2>1, <2>2, UrlNamesTab DEF ShellInv, TabOf
<1>2. CASE ClickNav \/ Jump
  BY <1>1, <1>2 DEF ClickNav, Jump
<1>3. CASE FollowLink
  <2>1. PICK t \in Linked : going' = Append(going, t) /\ UNCHANGED <<url, shown, givenUp>>
    BY <1>3 DEF FollowLink
  <2>2. t \in Urls
    BY ShellAssumption DEF Urls
  <2> QED BY <2>1, <2>2, AskedLast DEF ShellInv, TabOf
<1>4. CASE Drawer \/ LogOut
  BY <1>4 DEF Drawer, LogOut, ShellInv, TabOf
<1>5. ASSUME NEW i \in 1..Len(going), Land(i) PROVE ShellInv'
  <2>1. /\ Len(going) \in Nat /\ going[i] \in Urls
        /\ SubSeq(going, i + 1, Len(going)) \in Seq(Urls)
        /\ Len(SubSeq(going, i + 1, Len(going))) = Len(going) - i
        /\ \A k \in 1..(Len(going) - i) : SubSeq(going, i + 1, Len(going))[k] = going[i + k]
    BY SubSeqProperties DEF ShellInv
  <2>2. /\ url' = going[i] /\ going' = SubSeq(going, i + 1, Len(going))
        /\ givenUp' = (givenUp \/ i > 1)
        /\ shown' = IF url' # url /\ url' # OddTab THEN TabOf(url') ELSE shown
    BY <1>5 DEF Land
  <2>3. ASSUME i = 1, url' = url, \A k \in 1..Len(going') : going'[k] = url
        PROVE  \A k \in 1..Len(going) : going[k] = url
    <3>1. SUFFICES ASSUME NEW k \in 1..Len(going), k > 1 PROVE going[k] = url
      BY <2>2, <2>3
    <3>2. k - 1 \in 1..Len(going') /\ going'[k - 1] = going[k]
      BY <2>1, <2>2, <2>3, <3>1
    <3> QED BY <2>3, <3>2
  <2>4. ASSUME \A k \in 1..Len(going') : going'[k] = url', ~givenUp', url' # OddTab
        PROVE  shown' = TabOf(url')
    <3>1. ~givenUp /\ ~(i > 1)
      BY <2>2, <2>4
    <3>2. i = 1
      BY <3>1
    <3>3. CASE url' # url
      BY <2>2, <2>4, <3>3
    <3>4. CASE url' = url
      <4>1. \A k \in 1..Len(going) : going[k] = url
        BY <2>3, <2>4, <3>2, <3>4
      <4> QED BY <2>2, <2>4, <3>1, <3>4, <4>1 DEF ShellInv
    <3> QED BY <3>3, <3>4
  <2>5. givenUp' \in BOOLEAN
    BY <2>2
  <2> QED BY <2>1, <2>2, <2>4, <2>5 DEF ShellInv, TabOf
<1>6. CASE UNCHANGED shellVars
  BY <1>6 DEF shellVars, ShellInv, TabOf
<1> QED BY <1>2, <1>3, <1>4, <1>5, <1>6 DEF ShellNext

(* Once the router is done the tab is the one the URL names, unless a      *)
(* navigation was given up.                                                *)
THEOREM TabStaysWithUrl == Spec => []TabFollowsUrl
<1>1. Init => ShellInv
  <2> SUFFICES ASSUME Init PROVE ShellInv
    OBVIOUS
  <2>1. url \in Urls /\ shown = TabOf(url) /\ going = << >> /\ givenUp = FALSE
    BY DEF Init, ShellInit
  <2>2. going \in Seq(Urls)
    BY <2>1
  <2> QED BY <2>1, <2>2 DEF ShellInv
<1>2. ShellInv /\ [Next]_dashboardVars => ShellInv'
  BY ShellStep, StepsOfParts
<1>3. ShellInv => TabFollowsUrl
  BY DEF ShellInv, TabFollowsUrl
<1> QED BY <1>1, <1>2, <1>3, PTL DEF Spec

-----------------------------------------------------------------------------
(***************************************************************************)
(* The series of the analytics.                                            *)
(***************************************************************************)

AnyInstant == [day : Int, hour : 0..(Hours - 1)]

SaDay(t) == DayIn(Ahead, paidAt[t])

(* What is known of the clocks and zones.                                  *)
FiguresTyped ==
  /\ now \in Instants /\ zone \in Zones
  /\ paidAt \in [TipIds -> Instants \cup {ToCome}]
  /\ since \in AnyInstant /\ range \in Int

(* Rows hold tips of their day, none of a day before the statistics begin; *)
(* and if there are any, all that the dashboard holds of later days.       *)
FiguresInv ==
  /\ FiguresTyped
  /\ known \subseteq Paid
  /\ \A d \in DOMAIN daily : /\ d \in Int /\ d >= BeginsOn
                             /\ daily[d] \subseteq {t \in Paid : SaDay(t) = d}
  /\ DOMAIN daily # {} =>
       \A t \in known : SaDay(t) > BeginsOn =>
         SaDay(t) \in DOMAIN daily /\ t \in daily[SaDay(t)]

LEMMA InstantsAreAny ==
  /\ Instants \cup {ToCome} \subseteq AnyInstant
  /\ \A t \in Paid : FiguresTyped => paidAt[t] \in AnyInstant
  /\ FiguresTyped => now \in AnyInstant
BY FiguresAssumption DEF Instants, ToCome, AnyInstant, Paid, FiguresTyped

LEMMA DaysFollow ==
  ASSUME NEW p \in AnyInstant, NEW q \in AnyInstant, NEW a \in Int
  PROVE  /\ DayIn(a, p) \in Int
         /\ Later(p, q) => DayIn(a, p) >= DayIn(a, q)
BY FiguresAssumption DEF AnyInstant, DayIn, Later

LEMMA DaysAreNear ==
  ASSUME NEW p \in AnyInstant, NEW z \in Zones
  PROVE  /\ DayIn(z, p) - p.day \in {-1, 0, 1}
         /\ DayIn(Ahead, p) - DayIn(z, p) \in {-1, 0, 1}
BY FiguresAssumption DEF AnyInstant, DayIn

LEMMA FiguresStep == FiguresInv /\ [FiguresNext]_figureVars => FiguresInv'
<1> SUFFICES ASSUME FiguresInv, [FiguresNext]_figureVars PROVE FiguresInv'
  OBVIOUS
<1>0. FiguresTyped /\ Ahead \in Int
  BY FiguresAssumption DEF FiguresInv
<1>1. CASE Answer
  <2> DEFINE Within(late) == late \cup {t \in Paid : Later(paidAt[t], since')}
             Days(late) == {SaDay(t) : t \in Within(late)}
  <2>1. /\ since' = [now EXCEPT !.day = @ - ServerSpan]
        /\ UNCHANGED <<now, zone, paidAt, known, range>>
    BY <1>1 DEF Answer
  <2>2. PICK late \in SUBSET {t \in Paid : paidAt[t] = since'} :
          daily' \in {NoRows, [d \in Days(late) |->
                                 {t \in Within(late) : SaDay(t) = d}]}
    BY <1>1 DEF Answer, SaDay
  <2>3. since' \in AnyInstant
    BY <1>0, <2>1, FiguresAssumption DEF FiguresTyped, Instants, AnyInstant
  <2>4. \A t \in Within(late) : /\ t \in Paid /\ paidAt[t] \in AnyInstant
                                /\ SaDay(t) \in Int /\ SaDay(t) >= BeginsOn'
    <3>1. SUFFICES ASSUME NEW t \in Within(late)
                   PROVE  /\ t \in Paid /\ paidAt[t] \in AnyInstant
                          /\ SaDay(t) \in Int /\ SaDay(t) >= BeginsOn'
      OBVIOUS
    <3>2. t \in Paid /\ (paidAt[t] = since' \/ Later(paidAt[t], since'))
      BY <2>2, <3>1
    <3>3. paidAt[t] \in AnyInstant
      BY <1>0, <3>2, InstantsAreAny
    <3>4. SaDay(t) \in Int /\ SaDay(t) >= BeginsOn'
      BY <1>0, <2>3, <3>2, <3>3, DaysFollow DEF SaDay, BeginsOn
    <3> QED BY <3>2, <3>3, <3>4
  <2>5. ASSUME NEW t \in known, SaDay(t) > BeginsOn' PROVE t \in Within(late)
    <3>1. t \in Paid /\ paidAt[t] \in AnyInstant
      BY InstantsAreAny DEF FiguresInv
    <3>2. paidAt[t] # since' /\ ~Later(since', paidAt[t])
      BY <1>0, <2>3, <2>5, <3>1, DaysFollow DEF SaDay, BeginsOn
    <3>3. Later(paidAt[t], since')
      BY <2>3, <3>1, <3>2 DEF Later, AnyInstant
    <3> QED BY <3>1, <3>3
  <2>6. UNCHANGED Paid /\ \A t \in TipIds : SaDay(t)' = SaDay(t)
    BY <2>1 DEF Paid, SaDay
  <2>7. FiguresTyped' /\ (known \subseteq Paid)'
    BY <1>0, <2>1, <2>3, <2>6 DEF FiguresTyped, FiguresInv
  <2>8. CASE daily' = NoRows
    BY <2>7, <2>8 DEF FiguresInv, NoRows
  <2>9. CASE daily' = [d \in Days(late) |-> {t \in Within(late) : SaDay(t) = d}]
    <3>1. ASSUME NEW d \in DOMAIN daily'
          PROVE  /\ d \in Int /\ d >= BeginsOn'
                 /\ daily'[d] \subseteq {t \in Paid : SaDay(t) = d}
      BY <2>4, <2>9, <3>1
    <3>2. ASSUME NEW t \in known, SaDay(t) > BeginsOn'
          PROVE  SaDay(t) \in DOMAIN daily' /\ t \in daily'[SaDay(t)]
      BY <2>5, <2>9, <3>2
    <3>3. \A d \in DOMAIN daily' :
            daily'[d] \subseteq {t \in Paid' : SaDay(t)' = d}
      BY <2>6, <3>1 DEF Paid
    <3>4. \A t \in known' : SaDay(t)' > BeginsOn' =>
            SaDay(t)' \in DOMAIN daily' /\ t \in daily'[SaDay(t)']
      BY <2>1, <2>6, <3>2 DEF FiguresInv, Paid
    <3> QED BY <2>7, <3>1, <3>3, <3>4 DEF FiguresInv
  <2> QED BY <2>2, <2>8, <2>9
<1>2. CASE SetRange
  BY <1>2, FiguresAssumption DEF SetRange, FiguresInv, FiguresTyped, Paid, SaDay, BeginsOn
<1>3. ASSUME NEW t \in TipIds, TipOn(t) PROVE FiguresInv'
  <2>1. paidAt[t] = ToCome /\ paidAt' = [paidAt EXCEPT ![t] = now]
        /\ UNCHANGED <<now, zone, known, daily, since, range>>
    BY <1>3 DEF TipOn
  <2>2. t \notin Paid
    BY <1>0, <2>1, FiguresAssumption
       DEF Paid, ToCome, Later, FiguresTyped, Instants
  <2>3. Paid \subseteq Paid'
    BY <1>0, <2>1, <2>2 DEF Paid, FiguresTyped
  <2>4. \A u \in Paid : SaDay(u)' = SaDay(u)
    BY <1>0, <2>1, <2>2 DEF SaDay, FiguresTyped, Paid
  <2>5. FiguresTyped'
    BY <1>0, <2>1 DEF FiguresTyped
  <2>6. BeginsOn' = BeginsOn
    BY <2>1 DEF BeginsOn
  <2>7. (known \subseteq Paid)'
    BY <2>1, <2>3 DEF FiguresInv
  <2>8. \A d \in DOMAIN daily' :
          /\ d \in Int /\ d >= BeginsOn'
          /\ daily'[d] \subseteq {u \in Paid' : SaDay(u)' = d}
    BY <2>1, <2>3, <2>4, <2>6 DEF FiguresInv
  <2>9. DOMAIN daily' # {} =>
          \A u \in known' : SaDay(u)' > BeginsOn' =>
            SaDay(u)' \in DOMAIN daily' /\ u \in daily'[SaDay(u)']
    BY <2>1, <2>4, <2>6 DEF FiguresInv
  <2> QED BY <2>5, <2>7, <2>8, <2>9 DEF FiguresInv
<1>4. CASE Clock
  <2>1. /\ now' \in Instants /\ Later(now', now)
        /\ UNCHANGED <<zone, paidAt, known, daily, since, range>>
    BY <1>0, <1>4, FiguresAssumption
       DEF Clock, FiguresTyped, Instants, Later
  <2>2. Paid \subseteq Paid'
    <3>1. SUFFICES ASSUME NEW t \in TipIds, ~Later(paidAt[t], now)
                   PROVE  ~Later(paidAt[t], now')
      BY <2>1 DEF Paid
    <3>2. paidAt[t] \in AnyInstant /\ now \in AnyInstant /\ now' \in AnyInstant
      BY <1>0, <2>1, InstantsAreAny DEF FiguresTyped
    <3> QED BY <2>1, <3>1, <3>2 DEF Later, AnyInstant
  <2>3. FiguresTyped'
    BY <1>0, <2>1 DEF FiguresTyped
  <2> QED BY <2>1, <2>2, <2>3 DEF FiguresInv, SaDay, BeginsOn
<1>5. CASE UNCHANGED figureVars
  BY <1>5 DEF figureVars, FiguresInv, FiguresTyped, Paid, SaDay, BeginsOn
<1> QED BY <1>1, <1>2, <1>3, <1>4, <1>5 DEF FiguresNext

LEMMA FiguresStart == Init => FiguresInv
<1> SUFFICES ASSUME Init PROVE FiguresInv
  OBVIOUS
<1>1. /\ now \in Instants /\ zone \in Zones /\ daily = NoRows /\ since = ToCome
      /\ paidAt \in [TipIds -> Instants \cup {ToCome}]
  BY FiguresAssumption DEF Init, FiguresInit, Instants
<1>2. known \subseteq Paid
  BY DEF Init, FiguresInit, Newest
<1>3. since \in AnyInstant
  BY <1>1, InstantsAreAny
<1>4. range \in Int
  <2>1. (CHOOSE r \in Ranges : TRUE) \in Ranges
    BY FiguresAssumption
  <2>2. range \in Ranges
    BY <2>1 DEF Init, FiguresInit
  <2> QED BY <2>2, FiguresAssumption
<1> QED BY <1>1, <1>2, <1>3, <1>4 DEF FiguresInv, FiguresTyped, NoRows

(* Where a tip that the dashboard holds is counted.                        *)
LEMMA TipsHaveEntries ==
  ASSUME FiguresInv, NEW t \in Paid
  PROVE  /\ SaDay(t) \in Int /\ DayIn(zone, paidAt[t]) \in Int
         /\ DayIn(zone, now) \in Int /\ now.day \in Int /\ BeginsOn \in Int
         /\ SaDay(t) - DayIn(zone, paidAt[t]) \in {-1, 0, 1}
         /\ DayIn(zone, now) - now.day \in {-1, 0, 1}
<1>1. /\ paidAt[t] \in AnyInstant /\ now \in AnyInstant /\ since \in AnyInstant
      /\ zone \in Zones /\ zone \in Int /\ Ahead \in Int
  BY InstantsAreAny, FiguresAssumption DEF FiguresInv, FiguresTyped
<1> QED BY <1>1, DaysFollow, DaysAreNear DEF SaDay, BeginsOn, AnyInstant

(* In South Africa, by day, each tip is in the entry of its day.           *)
LEMMA HomeDaysAreRight == FiguresInv => CountedOnItsDay
<1> SUFFICES ASSUME FiguresInv, zone = Ahead, DayIn(Ahead, now) = now.day,
                    NEW i \in Entries, Key(i) # BeginsOn
             PROVE  Entry(i) = Cardinality(ByList(i) \cup Row(i))
  BY DEF CountedOnItsDay
<1>1. CASE Key(i) \in DOMAIN daily
  <2>1. ASSUME NEW t \in ByList(i) PROVE t \in Row(i)
    <3>1. t \in known /\ t \in Paid /\ SaDay(t) = Key(i)
      BY <2>1 DEF ByList, Key, SaDay, FiguresInv
    <3>2. SaDay(t) > BeginsOn
      BY <1>1, <3>1, TipsHaveEntries DEF FiguresInv
    <3> QED BY <1>1, <3>1, <3>2 DEF FiguresInv, Row
  <2>2. ByList(i) \cup Row(i) = Counted(i)
    BY <1>1, <2>1 DEF Counted
  <2> QED BY <2>2 DEF Entry
<1>2. CASE Key(i) \notin DOMAIN daily
  <2>1. ByList(i) \cup Row(i) = Counted(i)
    BY <1>2 DEF Row, Counted
  <2> QED BY <2>1 DEF Entry
<1> QED BY <1>1, <1>2

(* A tip that a row takes the place of is in a row itself.                 *)
LEMMA TipsAreNotLost == FiguresInv => NoneLost
<1> SUFFICES ASSUME FiguresInv, NEW t \in known,
                    RowEntry(t) \in Entries, ListEntry(t) \in Entries,
                    SaDay(t) \notin (BeginsOn - 2)..BeginsOn
             PROVE  \E i \in Entries : t \in Counted(i)
  BY DEF NoneLost, SaDay
<1>0. t \in Paid
  BY DEF FiguresInv
<1>1. CASE Key(ListEntry(t)) \notin DOMAIN daily
  <2>1. t \in ByList(ListEntry(t))
    BY <1>0, TipsHaveEntries DEF ByList, ListEntry
  <2> QED BY <1>1, <2>1 DEF Counted
<1>2. CASE Key(ListEntry(t)) \in DOMAIN daily
  <2>1. Key(ListEntry(t)) >= BeginsOn
    BY <1>2 DEF FiguresInv
  <2>2. Key(ListEntry(t)) <= SaDay(t) + 2
    BY <1>0, TipsHaveEntries DEF Key, ListEntry
  <2>3. SaDay(t) > BeginsOn
    BY <1>0, <2>1, <2>2, TipsHaveEntries DEF Key, ListEntry
  <2>4. SaDay(t) \in DOMAIN daily /\ t \in daily[SaDay(t)]
    BY <1>2, <2>3 DEF FiguresInv
  <2>5. Key(RowEntry(t)) = SaDay(t)
    BY <1>0, TipsHaveEntries DEF Key, RowEntry, SaDay
  <2> QED BY <2>4, <2>5 DEF Counted, Row
<1> QED BY <1>1, <1>2

LEMMA EntriesStayNear == FiguresInv => NeverFarApart
<1> SUFFICES ASSUME FiguresInv,
                    NEW i \in Entries, NEW j \in Entries, i + 2 < j,
                    NEW t \in Counted(i), t \in Counted(j)
             PROVE  FALSE
  BY DEF NeverFarApart
<1>1. \A k \in {i, j} : t \in Counted(k) =>
        /\ t \in Paid
        /\ SaDay(t) = Key(k) \/ DayIn(zone, paidAt[t]) = DayIn(zone, now) - k
  BY DEF Counted, Row, ByList, FiguresInv
<1>2. t \in Paid /\ i \in Int /\ j \in Int
  BY <1>1 DEF Entries, FiguresInv, FiguresTyped
<1> QED BY <1>1, <1>2, TipsHaveEntries DEF Key

(* At home by day the tips of each day but the one the statistics begin in *)
(* are counted once; anywhere and at any hour no tip within the range is   *)
(* lost, nor counted again more than two days off.                         *)
THEOREM SeriesStaysRight == Spec => []SeriesCounts
<1>1. FiguresInv /\ [Next]_dashboardVars => FiguresInv'
  BY FiguresStep, StepsOfParts
<1>2. FiguresInv => SeriesCounts
  BY HomeDaysAreRight, TipsAreNotLost, EntriesStayNear DEF SeriesCounts
<1> QED BY <1>1, <1>2, FiguresStart, PTL DEF Spec

-----------------------------------------------------------------------------
(***************************************************************************)
(* The figures of the transactions tab.                                    *)
(***************************************************************************)

PayoutRows == [amount : Int, failed : BOOLEAN]
Stages == {"idle", "asked", "summed", "insert", "stored"}
Claims == [at : Stages, value : Int]

LedgerTyped ==
  /\ txns \in Nat /\ completed \subseteq 1..txns /\ withdrawn \in Int
  /\ payouts \in Seq(PayoutRows)
  /\ claims \in [Windows -> Claims]
  /\ \A w \in Windows :
       claims[w].at = "stored" => claims[w].value \in 1..Len(payouts)
  /\ confirmed \subseteq 1..Len(payouts)
  /\ loading \in BOOLEAN /\ moved \in BOOLEAN
  /\ DOMAIN reads \subseteq Requests /\ reads = [f \in DOMAIN reads |-> reads[f]]
  /\ unread \subseteq Requests

(* Of payouts listed: those confirmed that no newer one took the place of. *)
HasConfirmed(rows) ==
  \A p \in confirmed : p \in DOMAIN rows \/ p + RowLimit <= Len(payouts)

(* What is read is of the tables as they were asked, if nothing moved.     *)
LedgerInv ==
  /\ LedgerTyped
  /\ ~moved => net \in {NotSummed, Earned}
  /\ ~moved /\ loading =>
       \A f \in DOMAIN reads \ unread : reads[f] = Answers(Earned)[f]
  /\ ~moved /\ ~loading /\ unread = {} => figures = Answers(Earned)
  /\ "payouts" \notin unread =>
       /\ loading /\ "payouts" \in DOMAIN reads => HasConfirmed(reads["payouts"])
       /\ ~loading => HasConfirmed(figures.payouts)

(* The tables, once moved, leave only the order of payouts to look after.  *)
LEMMA TablesMove ==
  ASSUME LedgerInv, LedgerTyped', moved' = TRUE, UNCHANGED tabVars,
         Len(payouts') >= Len(payouts)
  PROVE  LedgerInv'
<1>1. confirmed \subseteq 1..Len(payouts) /\ RowLimit \in Nat
      /\ Len(payouts) \in Nat /\ Len(payouts') \in Nat
  BY LedgerAssumption DEF LedgerInv, LedgerTyped
<1>2. ASSUME NEW rows, HasConfirmed(rows)
      PROVE  \A p \in confirmed' : p \in DOMAIN rows \/ p + RowLimit <= Len(payouts')
  BY <1>1, <1>2 DEF HasConfirmed, tabVars
<1>3. "payouts" \notin unread' =>
        /\ loading' /\ "payouts" \in DOMAIN reads' => HasConfirmed(reads["payouts"])'
        /\ ~loading' => HasConfirmed(figures.payouts)'
  BY <1>2 DEF tabVars, LedgerInv, HasConfirmed
<1> QED BY <1>3 DEF LedgerInv

(* A step of a claim that stores nothing changes nothing that is shown.    *)
LEMMA ClaimsMove ==
  ASSUME LedgerInv, NEW w \in Windows, NEW at \in Stages, NEW value \in Int,
         at # "stored", To(w, at, value), UNCHANGED <<tables, tabVars, moved>>
  PROVE  LedgerInv'
<1>1. claims' = [claims EXCEPT ![w] = [at |-> at, value |-> value]]
      /\ [at |-> at, value |-> value] \in Claims
  BY DEF To, Claims
<1>2. LedgerTyped'
  BY <1>1 DEF LedgerInv, LedgerTyped, tables, tabVars
<1> QED BY <1>2 DEF LedgerInv, HasConfirmed, Answers, Earned, tables, tabVars

LEMMA EarnedIsInt == LedgerTyped => Earned \in Nat
<1> SUFFICES ASSUME LedgerTyped PROVE Earned \in Nat
  OBVIOUS
<1>1. IsFiniteSet(1..txns)
  <2>1. 1 \in Int /\ txns \in Int
    BY DEF LedgerTyped
  <2> QED BY <2>1, FS_Interval
<1>2. IsFiniteSet(completed)
  BY <1>1, FS_Subset DEF LedgerTyped
<1> QED BY <1>2, FS_CardinalityType DEF Earned

(* An answer counts towards what is shown, unless it failed.               *)
LEMMA AnswersCount ==
  ASSUME LedgerInv, NEW f \in Requests, NEW answer, Answered(f, answer),
         \/ /\ unread' = unread
            /\ ~moved => answer = Answers(Earned)[f]
            /\ f = "payouts" => HasConfirmed(answer)
         \/ unread' = unread \cup {f}
  PROVE  LedgerInv'
<1>1. /\ loading /\ f \notin DOMAIN reads /\ DOMAIN reads' = DOMAIN reads \cup {f}
      /\ reads'[f] = answer /\ \A g \in DOMAIN reads : reads'[g] = reads[g]
      /\ reads' = [g \in DOMAIN reads' |-> reads'[g]]
      /\ UNCHANGED <<tables, claims, figures, loading, net, confirmed, moved>>
  BY DEF Answered
<1>2. LedgerTyped'
  BY <1>1 DEF LedgerInv, LedgerTyped, tables
<1>3. Answers(Earned)' = Answers(Earned) /\ Earned' = Earned
  BY <1>1 DEF Answers, Earned, tables
<1>4. ~moved' => net' \in {NotSummed, Earned'}
  BY <1>1, <1>3 DEF LedgerInv
<1>5. ~moved' => \A g \in DOMAIN reads' \ unread' : reads'[g] = Answers(Earned)[g]
  BY <1>1 DEF LedgerInv
<1>6. ASSUME "payouts" \notin unread', "payouts" \in DOMAIN reads'
      PROVE  HasConfirmed(reads["payouts"])'
  <2>1. HasConfirmed(reads'["payouts"])
    BY <1>1, <1>6 DEF LedgerInv
  <2> QED BY <1>1, <2>1 DEF HasConfirmed, tables
<1> QED BY <1>1, <1>2, <1>3, <1>4, <1>5, <1>6 DEF LedgerInv

LEMMA LedgerStep == LedgerInv /\ [LedgerNext]_ledgerVars => LedgerInv'
<1> SUFFICES ASSUME LedgerInv, [LedgerNext]_ledgerVars PROVE LedgerInv'
  OBVIOUS
<1>0. LedgerTyped /\ Len(payouts) \in Nat
  BY DEF LedgerInv, LedgerTyped
<1>1. CASE CheckedOut
  BY <1>0, <1>1, TablesMove DEF CheckedOut, LedgerTyped, tabVars
<1>2. ASSUME NEW i \in 1..txns, PaidFor(i) PROVE LedgerInv'
  BY <1>0, <1>2, TablesMove DEF PaidFor, LedgerTyped, tabVars
<1>3. CASE Credited
  BY <1>0, <1>3, TablesMove DEF Credited, LedgerTyped, tabVars
<1>4. ASSUME NEW p \in 1..Len(payouts), SetPayoutFailed(p) PROVE LedgerInv'
  <2>1. payouts[p] \in PayoutRows
    BY <1>0, ElementOfSeq DEF LedgerTyped
  <2>2. /\ payouts' \in Seq(PayoutRows) /\ Len(payouts') = Len(payouts)
    <3>1. payouts' = [payouts EXCEPT ![p] = [payouts[p] EXCEPT !.failed = ~@]]
      BY <1>4 DEF SetPayoutFailed
    <3>2. [payouts[p] EXCEPT !.failed = ~@] \in PayoutRows
      BY <2>1 DEF PayoutRows
    <3> QED BY <1>0, <3>1, <3>2, ExceptSeq DEF LedgerTyped
  <2>3. withdrawn' \in Int /\ moved' = TRUE /\ UNCHANGED <<txns, completed, claims, tabVars>>
    BY <1>0, <1>4, <2>1 DEF SetPayoutFailed, LedgerTyped, PayoutRows
  <2>4. LedgerTyped'
    BY <1>0, <2>2, <2>3 DEF LedgerTyped, tabVars
  <2> QED BY <1>0, <2>2, <2>3, <2>4, TablesMove
<1>5. CASE SumNet
  <2>1. /\ net' = Earned /\ UNCHANGED <<tables, claims, figures, loading, reads>>
        /\ UNCHANGED <<confirmed, moved, unread>>
    BY <1>5 DEF SumNet
  <2> QED BY <2>1 DEF LedgerInv, LedgerTyped, HasConfirmed, Answers, Earned, tables
<1>6. ASSUME NEW f \in Requests, ReadFigure(f) PROVE LedgerInv'
  <2>1. /\ Answered(f, Answers(net)[f]) /\ unread' = unread
        /\ f = "balance" => net # NotSummed
    BY <1>6 DEF ReadFigure
  <2>2. ~moved => Answers(net)[f] = Answers(Earned)[f]
    BY <2>1 DEF LedgerInv, Answers, Requests
  <2>3. f = "payouts" => HasConfirmed(Answers(net)[f])
    <3>1. \A p \in 1..Len(payouts) : p \in NewestOf(Len(payouts)) \/ p + RowLimit <= Len(payouts)
      BY <1>0, LedgerAssumption DEF NewestOf
    <3>2. DOMAIN Answers(net)["payouts"] = NewestOf(Len(payouts))
      BY DEF Answers
    <3> QED BY <1>0, <3>1, <3>2 DEF HasConfirmed, LedgerTyped
  <2> QED BY <2>1, <2>2, <2>3, AnswersCount
<1>7. ASSUME NEW f \in Requests, FigureFails(f) PROVE LedgerInv'
  BY <1>7, AnswersCount DEF FigureFails
<1>8. CASE Load
  <2>1. /\ DOMAIN reads = Requests /\ loading /\ figures' = reads /\ loading' = FALSE
        /\ UNCHANGED <<tables, claims, reads, net, confirmed, moved, unread>>
    BY <1>8 DEF Load
  <2>2. LedgerTyped' /\ Answers(Earned)' = Answers(Earned)
    BY <1>0, <2>1 DEF LedgerTyped, tables, Answers, Earned
  <2>3. ASSUME ~moved, unread = {} PROVE figures' = Answers(Earned)
    <3>1. \A f \in Requests : reads[f] = Answers(Earned)[f]
      BY <2>1, <2>3 DEF LedgerInv
    <3>2. Answers(Earned) = [f \in Requests |-> Answers(Earned)[f]]
      BY DEF Answers, Requests
    <3>3. reads = [f \in Requests |-> reads[f]]
      BY <1>0, <2>1 DEF LedgerTyped
    <3> QED BY <2>1, <3>1, <3>2, <3>3
  <2>4. ASSUME "payouts" \notin unread PROVE HasConfirmed(figures.payouts)'
    <3>1. "payouts" \in DOMAIN reads /\ HasConfirmed(reads["payouts"])
      BY <2>1, <2>4 DEF LedgerInv, Requests
    <3> QED BY <2>1, <3>1 DEF HasConfirmed, tables
  <2> QED BY <2>1, <2>2, <2>3, <2>4 DEF LedgerInv, Earned, tables
<1>9. ASSUME NEW w \in Windows,
             PressPayout(w) \/ SumEarned(w) \/ CheckAvailable(w) \/ PayoutFails(w)
      PROVE  LedgerInv'
  <2>1. CASE PressPayout(w)
    BY <2>1, ClaimsMove, 0 \in Int DEF PressPayout, Stages
  <2>2. CASE SumEarned(w)
    BY <1>0, <2>2, EarnedIsInt, ClaimsMove DEF SumEarned, Stages
  <2>3. CASE CheckAvailable(w)
    <3>1. claims[w].value - withdrawn \in Int
      BY <1>0 DEF LedgerTyped, Claims
    <3> QED BY <2>3, <3>1, ClaimsMove DEF CheckAvailable, Stages
  <2>4. CASE PayoutFails(w)
    BY <2>4, ClaimsMove DEF PayoutFails, Stages
  <2> QED BY <1>9, <2>1, <2>2, <2>3, <2>4
<1>10. ASSUME NEW w \in Windows, StorePayout(w) PROVE LedgerInv'
  <2> DEFINE payout == [amount |-> claims[w].value, failed |-> FALSE]
             stored == [at |-> "stored", value |-> Len(payouts) + 1]
  <2>1. /\ payouts' = Append(payouts, payout) /\ withdrawn' = withdrawn + claims[w].value
        /\ claims' = [claims EXCEPT ![w] = stored] /\ moved' = TRUE
        /\ UNCHANGED <<txns, completed, tabVars>>
    BY <1>10 DEF StorePayout, To
  <2>2. payout \in PayoutRows /\ withdrawn' \in Int
    BY <1>0, <2>1 DEF LedgerTyped, Claims, PayoutRows
  <2>3. payouts' \in Seq(PayoutRows) /\ Len(payouts') = Len(payouts) + 1
    BY <1>0, <2>1, <2>2, AppendProperties DEF LedgerTyped
  <2>4. claims' \in [Windows -> Claims]
    BY <1>0, <2>1 DEF LedgerTyped, Claims, Stages
  <2>5. ASSUME NEW v \in Windows, claims'[v].at = "stored" PROVE claims'[v].value \in 1..Len(payouts')
    <3>1. CASE v = w
      BY <1>0, <2>1, <2>3, <3>1 DEF LedgerTyped
    <3>2. CASE v # w
      BY <1>0, <2>1, <2>3, <2>5, <3>2 DEF LedgerTyped
    <3> QED BY <3>1, <3>2
  <2>6. LedgerTyped'
    BY <1>0, <2>1, <2>2, <2>3, <2>4, <2>5 DEF LedgerTyped, tabVars
  <2> QED BY <1>0, <2>1, <2>3, <2>6, TablesMove
<1>11. CASE PayoutAnswered
  <2>1. /\ claims["here"].at = "stored" /\ confirmed' = confirmed \cup {claims["here"].value}
        /\ claims' = [claims EXCEPT !["here"] = Idle]
        /\ loading' = TRUE /\ reads' = NoReads /\ net' = NotSummed
        /\ moved' = FALSE /\ unread' = {} /\ UNCHANGED <<tables, figures>>
    BY <1>11 DEF PayoutAnswered, Confirm, To, Idle
  <2>2. "here" \in Windows /\ confirmed' \subseteq 1..Len(payouts)
    BY <1>0, <2>1 DEF LedgerTyped, Windows
  <2>3. DOMAIN reads' = {} /\ reads' = [f \in DOMAIN reads' |-> reads'[f]]
    BY <2>1 DEF NoReads
  <2>4. claims' \in [Windows -> Claims]
        /\ \A w \in Windows : claims'[w].at = "stored" => claims'[w].value \in 1..Len(payouts)
    BY <1>0, <2>1, <2>2 DEF LedgerTyped, Idle, Claims, Stages
  <2>5. LedgerTyped'
    BY <1>0, <2>1, <2>2, <2>3, <2>4 DEF LedgerTyped, tables
  <2> QED BY <2>1, <2>3, <2>5 DEF LedgerInv
<1>12. CASE UNCHANGED ledgerVars
  BY <1>12 DEF ledgerVars, tables, tabVars, LedgerInv, LedgerTyped, HasConfirmed, Answers, Earned
<1> QED BY <1>1, <1>2, <1>3, <1>4, <1>5, <1>6, <1>7, <1>8, <1>9, <1>10, <1>11, <1>12
        DEF LedgerNext

LEMMA LedgerStart == Init => LedgerInv
<1> SUFFICES ASSUME Init PROVE LedgerInv
  OBVIOUS
<1>1. /\ txns = 0 /\ completed = {} /\ payouts = <<>> /\ withdrawn = 0 /\ confirmed = {}
      /\ claims = [w \in Windows |-> Idle] /\ loading = TRUE /\ reads = NoReads
      /\ net = NotSummed /\ moved = FALSE /\ unread = {}
  BY DEF Init, LedgerInit
<1>2. claims \in [Windows -> Claims] /\ \A w \in Windows : claims[w].at = "idle"
  BY <1>1 DEF Idle, Claims, Stages
<1>3. DOMAIN reads = {} /\ reads = [f \in DOMAIN reads |-> reads[f]]
  BY <1>1 DEF NoReads
<1>4. payouts \in Seq(PayoutRows)
  BY <1>1
<1>5. LedgerTyped
  <2>1. completed \subseteq 1..txns /\ confirmed \subseteq 1..Len(payouts)
        /\ DOMAIN reads \subseteq Requests /\ unread \subseteq Requests
    BY <1>1, <1>3
  <2>2. \A w \in Windows : claims[w].at # "stored"
    BY <1>2
  <2>3. txns \in Nat /\ withdrawn \in Int
    BY <1>1
  <2>4. loading \in BOOLEAN /\ moved \in BOOLEAN
    BY <1>1, Zenon
  <2> QED BY <1>2, <1>3, <1>4, <2>1, <2>2, <2>3, <2>4 DEF LedgerTyped
<1> QED BY <1>1, <1>3, <1>5 DEF LedgerInv

(* Up to the limit of the list, the total over it is what was earned.      *)
LEMMA TotalsAddUp ==
  ASSUME LedgerTyped, txns <= RowLimit
  PROVE  Answers(Earned).transactions
           = Answers(Earned).balance.available + Answers(Earned).balance.withdrawn
<1>1. completed \cap NewestOf(txns) = completed
  BY LedgerAssumption DEF NewestOf, LedgerTyped
<1>2. Answers(Earned).transactions = Earned
  BY <1>1 DEF Answers, Earned
<1>3. /\ Answers(Earned).balance.available = Earned - withdrawn
      /\ Answers(Earned).balance.withdrawn = withdrawn
  BY DEF Answers
<1> QED BY <1>2, <1>3, EarnedIsInt DEF LedgerTyped

(* Figures asked for while nothing moved are those of the tables and add   *)
(* up, and a payout confirmed here is listed unless newer ones are.        *)
THEOREM FiguresStayTrue == Spec => []FiguresAgree
<1>1. LedgerInv /\ [Next]_dashboardVars => LedgerInv'
  BY LedgerStep, StepsOfParts
<1>2. ASSUME LedgerInv PROVE FiguresAgree
  <2>1. ASSUME AtOneMoment
        PROVE  /\ figures = Answers(Earned)
               /\ txns <= RowLimit =>
                    figures.transactions = figures.balance.available + figures.balance.withdrawn
    <3>1. figures = Answers(Earned) /\ LedgerTyped
      BY <1>2, <2>1 DEF LedgerInv, AtOneMoment, Shown
    <3> QED BY <3>1, TotalsAddUp
  <2>2. Shown /\ "payouts" \notin unread => HasConfirmed(figures.payouts)
    BY <1>2 DEF LedgerInv, Shown
  <2> QED BY <2>1, <2>2 DEF FiguresAgree, HasConfirmed
<1> QED BY <1>1, <1>2, LedgerStart, PTL DEF Spec

-----------------------------------------------------------------------------
(***************************************************************************)
(* Updates to the supporters.                                              *)
(***************************************************************************)

(* A text that went out once, and was not said to have failed, is on its   *)
(* way or no longer in the field, as long as nothing else was typed.       *)
UpdateInv ==
  /\ typed \in Nat /\ mailed \in [Texts -> Nat]
  /\ draft \in Texts \cup {NoText}
  /\ sending.at # "none" => sending.text \in Texts /\ sending.at \in {"sent", "mailed"}
  /\ typed = 0 => draft = NoText /\ sending.at = "none" /\ \A x \in Texts : mailed[x] = 0
  /\ typed <= 1 =>
       \A x \in Texts \ told :
         /\ mailed[x] <= 1
         /\ mailed[x] = 1 => draft # x \/ (sending.at = "mailed" /\ sending.text = x)
         /\ sending.at = "sent" /\ sending.text = x => mailed[x] = 0

LEMMA UpdateStep == UpdateInv /\ [UpdateNext]_updateVars => UpdateInv'
<1> SUFFICES ASSUME UpdateInv, [UpdateNext]_updateVars PROVE UpdateInv'
  OBVIOUS
<1>1. CASE Compose
  <2>1. draft' \in Texts /\ typed' = typed + 1 /\ UNCHANGED <<sending, mailed, told>>
    BY <1>1 DEF Compose
  <2>2. typed' <= 1 => typed = 0
    BY <2>1 DEF UpdateInv
  <2> QED BY <2>1, <2>2 DEF UpdateInv
<1>2. CASE SendUpdate
  <2>1. /\ draft # NoText /\ sending.at = "none"
        /\ sending' = [at |-> "sent", text |-> draft]
        /\ UNCHANGED <<draft, mailed, told, typed>>
    BY <1>2 DEF SendUpdate, CanSend
  <2>2. typed # 0 /\ draft \in Texts
    BY <2>1 DEF UpdateInv
  <2>3. typed <= 1 /\ draft \notin told => mailed[draft] = 0
    BY <2>1, <2>2 DEF UpdateInv
  <2>4. sending'.at = "sent" /\ sending'.text = draft
    BY <2>1
  <2> QED BY <2>1, <2>2, <2>3, <2>4 DEF UpdateInv
<1>3. CASE MailUpdate
  <2>1. /\ sending.at = "sent" /\ sending' = [sending EXCEPT !.at = "mailed"]
        /\ mailed' = [mailed EXCEPT ![sending.text] = @ + 1]
        /\ UNCHANGED <<draft, told, typed>>
    BY <1>3 DEF MailUpdate, Broadcast
  <2>2. sending.text \in Texts /\ typed # 0
    BY <2>1 DEF UpdateInv
  <2>3. sending'.at \in {"mailed", sending.at} /\ sending'.text = sending.text
    BY <2>1
  <2>4. sending'.at = "mailed" \/ sending'.at = "sent"
    BY <2>1, <2>3
  <2>5. /\ mailed' \in [Texts -> Nat] /\ mailed'[sending.text] = mailed[sending.text] + 1
        /\ \A x \in Texts : x # sending.text => mailed'[x] = mailed[x]
    BY <2>1, <2>2 DEF UpdateInv
  <2>6. \A x \in Texts : sending.text # x /\ x \notin told /\ typed <= 1 /\ mailed[x] = 1 => draft # x
    BY <2>1 DEF UpdateInv
  <2> QED BY <2>1, <2>2, <2>3, <2>4, <2>5, <2>6 DEF UpdateInv
<1>4. CASE UpdateSent
  <2>1. sending'.at = "none" /\ draft' = NoText /\ UNCHANGED <<mailed, told, typed>> /\ sending.at = "mailed"
    BY <1>4 DEF UpdateSent, NoUpdate
  <2>2. \A x \in Texts : draft' # x
    BY <2>1, OutreachAssumption
  <2> QED BY <2>1, <2>2 DEF UpdateInv
<1>5. CASE UpdateFails
  <2>1. /\ sending'.at = "none" /\ told' = told \cup {sending.text}
        /\ sending.at # "none" /\ UNCHANGED <<draft, mailed, typed>>
    BY <1>5 DEF UpdateFails, NoUpdate
  <2> QED BY <2>1 DEF UpdateInv
<1>6. CASE UNCHANGED updateVars
  BY <1>6 DEF updateVars, UpdateInv
<1> QED BY <1>1, <1>2, <1>3, <1>4, <1>5, <1>6 DEF UpdateNext

(* An update typed once goes out again only after it was said to fail.     *)
THEOREM UpdatesGoOutOnce == Spec => []MailedOnce
<1>1. Init => UpdateInv
  BY DEF Init, UpdateInit, UpdateInv, NoUpdate
<1>2. UpdateInv /\ [Next]_dashboardVars => UpdateInv'
  BY UpdateStep, StepsOfParts
<1>3. UpdateInv => MailedOnce
  BY DEF UpdateInv, MailedOnce
<1> QED BY <1>1, <1>2, <1>3, PTL DEF Spec

-----------------------------------------------------------------------------
(***************************************************************************)
(* The composer of exclusive posts.                                        *)
(***************************************************************************)

(* The post a draft becomes is the one it is meant for.                    *)
Of(p) == IF p = NoPost THEN New ELSE p

Meant(c, p) == c.text = p /\ c.picture \in {NoPost, p, Stray}

RowMeant(c, p) == c = [text |-> c.text, picture |-> c.picture] /\ (c = Absent \/ Meant(c, p))

VaultInv ==
  /\ DOMAIN posts = Posts /\ DOMAIN list = Posts /\ fresh \subseteq Posts
  /\ compose.editing \in Posts \cup {NoPost}
  /\ meant = Of(compose.editing)
  /\ compose = [text |-> compose.text, picture |-> compose.picture, editing |-> compose.editing]
  /\ compose.text \in {NoPost, meant} /\ compose.picture \in {NoPost, meant, Stray}
  /\ picking \in {NoPost, meant, Stray}
  /\ saving.at # "none" => saving.post \in Posts \cup {NoPost} /\ Meant(saving, Of(saving.post))
  /\ \A p \in Posts : RowMeant(posts[p], p) /\ RowMeant(list[p], p)

LEMMA Distinct == NoPost # New /\ NoPost # Stray /\ New # Stray /\ {NoPost, New, Stray} \cap Posts = {}
<1>1. ASSUME NEW a, NEW b PROVE Cardinality({a, b}) # 3
  <2>1. IsFiniteSet({a}) /\ Cardinality({a}) = 1 /\ {a, b} = {a} \cup {b}
    BY FS_Singleton
  <2>2. Cardinality({a} \cup {b}) \in {1, 2}
    BY <2>1, FS_AddElement
  <2> QED BY <2>1, <2>2
<1>2. Cardinality({NoPost, New, Stray}) = 3 /\ {NoPost, New, Stray} \cap Posts = {}
  BY VaultAssumption
<1>3. NoPost # New
  <2>1. NoPost = New => {NoPost, New, Stray} = {New, Stray}
    OBVIOUS
  <2> QED BY <1>1, <1>2, <2>1
<1>4. NoPost # Stray
  <2>1. NoPost = Stray => {NoPost, New, Stray} = {New, Stray}
    OBVIOUS
  <2> QED BY <1>1, <1>2, <2>1
<1>5. New # Stray
  <2>1. New = Stray => {NoPost, New, Stray} = {NoPost, Stray}
    OBVIOUS
  <2> QED BY <1>1, <1>2, <2>1
<1> QED BY <1>2, <1>3, <1>4, <1>5

(* A post is given a content that was made for it, or for a new one.       *)
LEMMA BecomesMeant ==
  ASSUME NEW c, NEW p \in Posts, Meant(c, New) \/ Meant(c, p)
  PROVE  RowMeant(Becomes(c, p), p)
<1> DEFINE b == Becomes(c, p)
<1>1. b = [text |-> b.text, picture |-> b.picture]
  BY DEF Becomes
<1>2. b.text = p
  BY DEF Becomes, Meant
<1>3. b.picture \in {NoPost, p, Stray}
  BY Distinct DEF Becomes, Meant
<1> QED BY <1>1, <1>2, <1>3 DEF RowMeant, Meant

(* The composer after another draft was begun with a content of its post.  *)
LEMMA BeginsMeant ==
  ASSUME VaultInv, NEW c, NEW p \in Posts \cup {NoPost}, Begin(c, p),
         c = Absent \/ Meant(c, Of(p))
  PROVE  /\ compose'.editing \in Posts \cup {NoPost} /\ meant' = Of(compose'.editing)
         /\ compose' = [text |-> compose'.text, picture |-> compose'.picture, editing |-> compose'.editing]
         /\ compose'.text \in {NoPost, meant'} /\ compose'.picture \in {NoPost, meant', Stray}
         /\ picking' \in {NoPost, meant', Stray}
<1>1. compose' = [text |-> c.text, picture |-> c.picture, editing |-> p] /\ meant' = Of(p)
  BY DEF Begin, Of
<1>2. c.text \in {NoPost, Of(p)} /\ c.picture \in {NoPost, Of(p), Stray}
  BY DEF Absent, Meant
<1>3. picking' \in {NoPost, Stray}
  BY DEF Begin, Strayed
<1> QED BY <1>1, <1>2, <1>3

LEMMA VaultStep == VaultInv /\ [VaultNext]_vaultVars => VaultInv'
<1> SUFFICES ASSUME VaultInv, [VaultNext]_vaultVars PROVE VaultInv'
  OBVIOUS
<1> DEFINE Composer ==
      /\ compose.editing \in Posts \cup {NoPost} /\ meant = Of(compose.editing)
      /\ compose = [text |-> compose.text, picture |-> compose.picture, editing |-> compose.editing]
      /\ compose.text \in {NoPost, meant} /\ compose.picture \in {NoPost, meant, Stray}
      /\ picking \in {NoPost, meant, Stray}
    Keeps == /\ DOMAIN posts = Posts /\ DOMAIN list = Posts /\ fresh \subseteq Posts
             /\ \A p \in Posts : RowMeant(posts[p], p) /\ RowMeant(list[p], p)
    Sends == saving.at # "none" => saving.post \in Posts \cup {NoPost} /\ Meant(saving, Of(saving.post))
<1>a. Composer /\ Keeps /\ Sends
  BY DEF VaultInv
<1>b. Composer' /\ Keeps' /\ Sends' => VaultInv'
  BY DEF VaultInv
<1>c. UNCHANGED <<compose, meant, picking>> => Composer'
  BY <1>a DEF Of
<1>d. UNCHANGED <<posts, list, fresh>> => Keeps'
  BY <1>a DEF RowMeant, Meant
<1>e. UNCHANGED saving => Sends'
  BY <1>a DEF Meant, Of
<1>f. \A p \in Posts : RowMeant(Absent, p)
  BY DEF RowMeant, Absent
<1>g. ResetDraft => Composer'
  BY BeginsMeant DEF ResetDraft, Empty
<1> HIDE DEF Composer
<1>h. ASSUME NEW p \in Posts, NEW c, RowMeant(c, p), posts' = [posts EXCEPT ![p] = c],
             fresh' \subseteq Posts, list' = list
      PROVE  Keeps'
  BY <1>a, <1>h DEF RowMeant, Meant
<1> HIDE DEF Keeps, Sends
<1>1. ASSUME NEW p \in Posts, StartEdit(p) PROVE VaultInv'
  <2>1. list[p] = Absent \/ Meant(list[p], Of(p))
    BY <1>a, <1>1, Distinct DEF Keeps, RowMeant, Of
  <2>2. Begin(list[p], p) /\ UNCHANGED <<posts, fresh, list, saving>>
    BY <1>1 DEF StartEdit
  <2>3. Composer'
    BY <2>1, <2>2, BeginsMeant DEF Composer
  <2> QED BY <1>b, <1>d, <1>e, <2>2, <2>3
<1>2. CASE CancelEdit
  BY <1>2, <1>b, <1>d, <1>e, <1>g DEF CancelEdit
<1>3. CASE Write \/ Clear \/ Compressed
  <2>1. UNCHANGED <<posts, fresh, list, meant, saving>>
    BY <1>3 DEF Write, Clear, Compressed, Composed
  <2>2. Composer'
    <3>1. CASE Write
      BY <1>a, <2>1, <3>1 DEF Composer, Write, Of
    <3>2. CASE Clear
      BY <1>a, <2>1, <3>2 DEF Composer, Clear, Of
    <3>3. CASE Compressed
      BY <1>a, <2>1, <3>3 DEF Composer, Compressed, Of
    <3> QED BY <1>3, <3>1, <3>2, <3>3
  <2> QED BY <1>b, <1>d, <1>e, <2>1, <2>2
<1>4. CASE ChooseFile
  <2>1. Composer'
    BY <1>a, <1>4 DEF ChooseFile, Composed, Composer, Of
  <2> QED BY <1>4, <1>b, <1>d, <1>e, <2>1 DEF ChooseFile, Composed
<1>5. CASE Publish
  <2>1. /\ UNCHANGED <<posts, fresh, list, compose, meant, picking>> /\ compose.text # NoPost
        /\ saving' = [at |-> "sent", post |-> compose.editing,
                      text |-> compose.text, picture |-> compose.picture]
    BY <1>5 DEF Publish
  <2>2. Sends'
    BY <1>a, <2>1 DEF Composer, Sends, Meant
  <2> QED BY <1>b, <1>c, <1>d, <2>1, <2>2
<1>6. CASE StoreCreated \/ StoreUpdated
  <2>1. UNCHANGED <<list, compose, meant, picking>> /\ saving.at = "sent"
        /\ saving' = [saving EXCEPT !.at = "stored"]
    BY <1>6 DEF StoreCreated, StoreUpdated
  <2>2. Sends'
    BY <1>a, <2>1 DEF Sends, Meant
  <2>3. CASE StoreCreated
    <3>1. PICK p \in fresh : posts' = [posts EXCEPT ![p] = Becomes(saving, p)] /\ fresh' = fresh \ {p}
      BY <2>3 DEF StoreCreated
    <3>2. p \in Posts /\ fresh' \subseteq Posts
      BY <1>a, <3>1 DEF Keeps
    <3>3. Meant(saving, New)
      BY <1>a, <2>1, <2>3 DEF StoreCreated, Sends, Of
    <3>4. RowMeant(Becomes(saving, p), p)
      BY <3>2, <3>3, BecomesMeant
    <3>5. Keeps'
      BY <1>h, <2>1, <3>1, <3>2, <3>4
    <3> QED BY <1>b, <1>c, <2>1, <2>2, <3>5
  <2>4. CASE StoreUpdated
    <3>1. /\ saving.post \in Posts /\ fresh' = fresh
          /\ posts' = [posts EXCEPT ![saving.post] = [text |-> saving.text, picture |-> saving.picture]]
      BY <2>4 DEF StoreUpdated, Stored
    <3>2. Meant(saving, saving.post)
      BY <1>a, <2>1, <3>1, Distinct DEF Sends, Of
    <3>3. RowMeant([text |-> saving.text, picture |-> saving.picture], saving.post)
      BY <3>2 DEF RowMeant, Meant
    <3>4. Keeps'
      BY <1>a, <1>h, <2>1, <3>1, <3>3 DEF Keeps
    <3> QED BY <1>b, <1>c, <2>1, <2>2, <3>4
  <2> QED BY <1>6, <2>3, <2>4
<1>7. CASE Published
  <2>1. ResetDraft /\ UNCHANGED <<posts, fresh, list>> /\ saving'.at = "none"
    BY <1>7 DEF Published, NoPublish
  <2>2. Sends'
    BY <2>1 DEF Sends
  <2> QED BY <1>b, <1>d, <1>g, <2>1, <2>2
<1>8. CASE PublishFails
  <2>1. UNCHANGED <<posts, fresh, list, compose, meant, picking>> /\ saving'.at = "none"
    BY <1>8 DEF PublishFails, NoPublish
  <2>2. Sends'
    BY <2>1 DEF Sends
  <2> QED BY <1>b, <1>c, <1>d, <2>1, <2>2
<1>9. ASSUME NEW p \in Posts, CopyPost(p) PROVE VaultInv'
  <2>1. PICK new \in fresh :
          /\ posts' = [posts EXCEPT ![new] =
               Becomes([k \in {"text", "picture"} |-> IF list[p][k] = p THEN New ELSE list[p][k]], new)]
          /\ fresh' = fresh \ {new}
    BY <1>9 DEF CopyPost
  <2>2. UNCHANGED <<list, compose, meant, saving, picking>> /\ list[p] # Absent
    BY <1>9 DEF CopyPost, InList
  <2>3. new \in Posts /\ fresh' \subseteq Posts /\ Meant(list[p], p)
    BY <1>a, <2>1, <2>2 DEF Keeps, RowMeant
  <2>4. Meant([k \in {"text", "picture"} |-> IF list[p][k] = p THEN New ELSE list[p][k]], New)
    BY <2>3 DEF Meant
  <2>5. Keeps'
    BY <1>h, <2>1, <2>2, <2>3, <2>4, BecomesMeant
  <2> QED BY <1>b, <1>c, <1>e, <2>2, <2>5
<1>10. ASSUME NEW p \in Posts, DeletePost(p) PROVE VaultInv'
  <2>1. /\ posts' \in {posts, [posts EXCEPT ![p] = Absent]}
        /\ UNCHANGED <<fresh, list, compose, meant, saving, picking>>
    BY <1>10 DEF DeletePost
  <2>2. fresh' \subseteq Posts
    BY <1>a, <2>1 DEF Keeps
  <2>3. Keeps'
    BY <1>d, <1>f, <1>h, <2>1, <2>2
  <2> QED BY <1>b, <1>c, <1>e, <2>1, <2>3
<1>11. CASE ShowPosts
  <2>1. list' \in {posts, [p \in Posts |-> Absent]} /\ UNCHANGED <<posts, fresh, compose, meant, saving, picking>>
    BY <1>11 DEF ShowPosts
  <2>2. Keeps'
    BY <1>a, <1>f, <2>1 DEF Keeps, RowMeant, Meant
  <2> QED BY <1>b, <1>c, <1>e, <2>1, <2>2
<1>12. CASE UNCHANGED vaultVars
  BY <1>12, <1>b, <1>c, <1>d, <1>e DEF vaultVars
<1> QED BY <1>1, <1>2, <1>3, <1>4, <1>5, <1>6, <1>7, <1>8, <1>9, <1>10, <1>11, <1>12
        DEF VaultNext

(* A post has a text written for it, and no picture but one picked for it  *)
(* or one that strayed.                                                    *)
THEOREM PostsStayAsMeant == Spec => []PostsAsMeant
<1>1. ASSUME Init PROVE VaultInv
  <2>1. PICK kept \in SUBSET Posts :
          /\ posts = [p \in Posts |-> IF p \in kept THEN [text |-> p, picture |-> p] ELSE Absent]
          /\ fresh = Posts \ kept
    BY <1>1 DEF Init, VaultInit
  <2>2. /\ list = [p \in Posts |-> Absent] /\ saving.at = "none" /\ picking = NoPost /\ meant = New
        /\ compose = [text |-> NoPost, picture |-> NoPost, editing |-> NoPost]
    BY <1>1 DEF Init, VaultInit, NoPublish
  <2>3. \A p \in Posts : RowMeant(posts[p], p) /\ RowMeant(list[p], p)
    BY <2>1, <2>2 DEF RowMeant, Absent, Meant
  <2> QED BY <2>1, <2>2, <2>3 DEF VaultInv, Of
<1>2. VaultInv /\ [Next]_dashboardVars => VaultInv'
  BY VaultStep, StepsOfParts
<1>3. VaultInv => PostsAsMeant
  BY DEF VaultInv, PostsAsMeant, Stored, RowMeant, Meant
<1> QED BY <1>1, <1>2, <1>3, PTL DEF Spec


-----------------------------------------------------------------------------
(***************************************************************************)
(* Thanks.                                                                 *)
(***************************************************************************)

(* The thank-yous of a tip that is in nobody's way: one at most, the only  *)
(* one under way while it is, and known to the list afterwards.            *)
Ns == 1..MaxThanks
ThankTyped ==
  /\ wrote \in Nat /\ DOMAIN thanks = Ns /\ emails \in [Tips -> Nat]
  /\ \A n \in Ns : /\ thanks[n] = [tip |-> thanks[n].tip, at |-> thanks[n].at, here |-> thanks[n].here]
                   /\ thanks[n].at # "none" => n <= wrote /\ thanks[n].tip \in Tips
                   /\ thanks[n].at = "none" => thanks[n].tip = NoTip
                   /\ thanks[n].at \in {"none", "sent", "stored", "done"}

Lone(n) ==
  /\ \A m \in Ns : thanks[m].tip = thanks[n].tip => m = n
  /\ thanks[n].at \in {"sent", "stored"} =>
       /\ thanks[n].here /\ busyTip = thanks[n].tip
       /\ \A m \in Under : m = n
  /\ thanks[n].at = "done" => thanks[n].tip \in thanked

ThankInv ==
  /\ ThankTyped
  /\ thanked \subseteq thankedAt
  /\ \A n \in Ns : thanks[n].at = "stored" => thanks[n].tip \in thankedAt
  /\ \A n \in Ns : thanks[n].at # "none" /\ (thanks[n].tip \notin unsure \cup crossed) => Lone(n)
  /\ \A t \in Tips : (t \notin unsure \cup crossed) =>
       /\ emails[t] <= 1
       /\ emails[t] > 0 => \E n \in Ns : thanks[n].tip = t /\ thanks[n].at \in {"stored", "done"}

LEMMA ThankStep == ThankInv /\ [ThankNext]_thankVars => ThankInv'
<1> SUFFICES ASSUME ThankInv, [ThankNext]_thankVars PROVE ThankInv'
  OBVIOUS
<1>0. /\ ThankTyped /\ thanked \subseteq thankedAt
      /\ \A n \in Ns : thanks[n].at = "stored" => thanks[n].tip \in thankedAt
      /\ \A n \in Ns : thanks[n].at # "none" /\ (thanks[n].tip \notin unsure \cup crossed) => Lone(n)
  BY DEF ThankInv
<1>1. ASSUME NEW t \in Tips, Thank(t) PROVE ThankInv'
  <2>1. PICK n \in Ns :
          /\ n = wrote + 1 /\ wrote' = n /\ busyTip' = t
          /\ thanks' = [thanks EXCEPT ![n] = [tip |-> t, at |-> "sent", here |-> TRUE]]
          /\ crossed' = IF TipOf(Under) \ {t} = {} THEN crossed
                                                   ELSE crossed \cup {t} \cup TipOf(Under)
          /\ UNCHANGED <<listed, thanked, thankedAt, emails, unsure>>
          /\ t \notin thanked /\ busyTip # t
    <3>1. wrote + 1 \in Ns
      BY <1>0, <1>1, OutreachAssumption DEF Thank, ThankTyped, Ns
    <3> QED BY <1>1, <3>1 DEF Thank, CanThank
  <2>2. /\ thanks'[n].tip = t /\ thanks'[n].at = "sent" /\ thanks'[n].here
        /\ \A m \in Ns : m # n => thanks'[m] = thanks[m]
        /\ DOMAIN thanks' = Ns
    BY <1>0, <2>1 DEF ThankTyped
  <2>3. thanks[n].at = "none" /\ n \notin Under
    BY <1>0, <2>1 DEF ThankTyped, Under, Ns
  <2>4. ThankTyped'
    <3>1. ASSUME NEW m \in Ns
          PROVE  /\ thanks'[m] = [tip |-> thanks'[m].tip, at |-> thanks'[m].at, here |-> thanks'[m].here]
                 /\ thanks'[m].at # "none" => m <= wrote' /\ thanks'[m].tip \in Tips
                 /\ thanks'[m].at = "none" => thanks'[m].tip = NoTip
                 /\ thanks'[m].at \in {"none", "sent", "stored", "done"}
      <4>1. CASE m = n
        BY <1>0, <2>1, <4>1 DEF ThankTyped, Ns
      <4>2. CASE m # n
        BY <1>0, <2>1, <2>2, <4>2 DEF ThankTyped, Ns
      <4> QED BY <4>1, <4>2
    <3>2. wrote' \in Nat
      BY <1>0, <2>1 DEF ThankTyped
    <3> QED BY <1>0, <2>1, <2>2, <3>1, <3>2 DEF ThankTyped
  <2>5. \A x : (x \notin unsure' \cup crossed') => (x \notin unsure \cup crossed)
    BY <2>1
  <2>6. ASSUME NEW m \in Under, (thanks[m].tip \notin unsure' \cup crossed') PROVE FALSE
    <3>1. Lone(m) /\ m \in Ns /\ thanks[m].tip \in TipOf(Under)
      BY <1>0, <2>5, <2>6 DEF Under, TipOf, Ns
    <3>2. thanks[m].tip = busyTip
      BY <3>1, <2>6 DEF Lone, Under
    <3>3. thanks[m].tip \in crossed'
      BY <2>1, <3>1, <3>2
    <3> QED BY <2>6, <3>3
  <2>7. ASSUME (t \notin unsure' \cup crossed') PROVE (\A m \in Ns : thanks[m].tip # t) /\ Under = {}
    <3>1. ASSUME NEW m \in Ns, thanks[m].tip = t PROVE FALSE
      <4>1. thanks[m].at # "none"
        BY <1>0, <3>1, OutreachAssumption DEF ThankTyped
      <4>2. Lone(m)
        BY <1>0, <2>5, <2>7, <3>1, <4>1
      <4> QED BY <1>0, <2>1, <3>1, <4>1, <4>2 DEF Lone, ThankTyped
    <3>2. ASSUME NEW m \in Under PROVE FALSE
      <4>1. thanks[m].tip # t /\ thanks[m].tip \in TipOf(Under)
        BY <3>1, <3>2 DEF Under, TipOf, Ns
      <4>2. t \in crossed'
        BY <2>1, <4>1
      <4> QED BY <2>7, <4>2
    <3> QED BY <3>1, <3>2
  <2>8. ASSUME NEW m \in Ns, thanks'[m].at # "none", (thanks'[m].tip \notin unsure' \cup crossed') PROVE Lone(m)'
    <3>1. CASE m = n
      <4>1. \A k \in Under' : k = n
        BY <2>2, <2>7, <2>8, <3>1 DEF Under, Ns
      <4>2. \A k \in Ns : thanks'[k].tip = t => k = n
        BY <2>2, <2>7, <2>8, <3>1
      <4> QED BY <2>1, <2>2, <3>1, <4>1, <4>2 DEF Lone
    <3>2. CASE m # n
      <4>1. thanks'[m] = thanks[m] /\ Lone(m)
        BY <1>0, <2>2, <2>5, <2>8, <3>2
      <4>2. m \notin Under
        BY <2>6, <2>8, <4>1
      <4>3. thanks[m].at = "done"
        BY <1>0, <2>8, <4>1, <4>2 DEF ThankTyped, Under, Ns
      <4>4. thanks[m].tip # t
        BY <2>1, <4>1, <4>3 DEF Lone
      <4>5. \A k \in Ns : thanks'[k].tip = thanks'[m].tip => k = m
        BY <2>2, <4>1, <4>4 DEF Lone
      <4> QED BY <2>1, <4>1, <4>3, <4>5 DEF Lone
    <3> QED BY <3>1, <3>2
  <2>9. \A x \in Tips : (x \notin unsure' \cup crossed') =>
          /\ emails'[x] <= 1
          /\ emails'[x] > 0 => \E m \in Ns : thanks'[m].tip = x /\ thanks'[m].at \in {"stored", "done"}
    BY <2>1, <2>2, <2>3, <2>5 DEF ThankInv
  <2> QED BY <1>0, <2>1, <2>2, <2>4, <2>8, <2>9 DEF ThankInv, Ns
<1>2. ASSUME NEW n \in Ns, StoreThanks(n) PROVE ThankInv'
  <2>1. PICK mail \in {0, 1} :
          /\ thanks[n].at = "sent" /\ thanks' = [thanks EXCEPT ![n].at = "stored"]
          /\ thankedAt' = thankedAt \cup {thanks[n].tip}
          /\ emails' = [emails EXCEPT ![thanks[n].tip] = @ + mail]
          /\ UNCHANGED <<listed, thanked, busyTip, crossed, unsure, wrote>>
    BY <1>2 DEF StoreThanks, SendThanks
  <2>2. /\ thanks'[n].at = "stored" /\ \A m \in Ns : m # n => thanks'[m] = thanks[m]
        /\ DOMAIN thanks' = Ns
        /\ \A m \in Ns : thanks'[m].tip = thanks[m].tip /\ thanks'[m].here = thanks[m].here
        /\ thanks'[n] = [tip |-> thanks'[n].tip, at |-> thanks'[n].at, here |-> thanks'[n].here]
    BY <1>0, <2>1 DEF ThankTyped
  <2>3. thanks[n].tip \in Tips
    BY <1>0, <2>1 DEF ThankTyped
  <2>4. Under' = Under
    BY <2>1, <2>2 DEF Under, Ns
  <2>5. emails' \in [Tips -> Nat] /\ \A x \in Tips : x # thanks[n].tip => emails'[x] = emails[x]
    BY <1>0, <2>1, <2>3 DEF ThankTyped
  <2>6. ThankTyped'
    <3>1. ASSUME NEW m \in Ns
          PROVE  /\ thanks'[m] = [tip |-> thanks'[m].tip, at |-> thanks'[m].at, here |-> thanks'[m].here]
                 /\ thanks'[m].at # "none" => m <= wrote' /\ thanks'[m].tip \in Tips
                 /\ thanks'[m].at = "none" => thanks'[m].tip = NoTip
                 /\ thanks'[m].at \in {"none", "sent", "stored", "done"}
      <4>1. CASE m = n
        BY <1>0, <2>1, <2>2, <4>1 DEF ThankTyped
      <4>2. CASE m # n
        BY <1>0, <2>1, <2>2, <4>2 DEF ThankTyped
      <4> QED BY <4>1, <4>2
    <3> QED BY <1>0, <2>1, <2>2, <2>5, <3>1 DEF ThankTyped, Ns
  <2>7. \A x : (x \notin unsure' \cup crossed') <=> (x \notin unsure \cup crossed)
    BY <2>1
  <2>8. ASSUME NEW m \in Ns, thanks'[m].at # "none", (thanks'[m].tip \notin unsure' \cup crossed') PROVE Lone(m)'
    <3>1. Lone(m) /\ (thanks'[m].at \in {"sent", "stored"} => thanks[m].at \in {"sent", "stored"})
      BY <1>0, <2>1, <2>2, <2>7, <2>8
    <3>2. thanks'[m].at = "done" => thanks[m].at = "done"
      BY <2>2
    <3> QED BY <2>1, <2>2, <2>4, <3>1, <3>2 DEF Lone, Ns
  <2>9. ASSUME NEW x \in Tips, (x \notin unsure \cup crossed)
        PROVE  /\ emails'[x] <= 1
               /\ emails'[x] > 0 => \E m \in Ns : thanks'[m].tip = x /\ thanks'[m].at \in {"stored", "done"}
    <3>1. CASE x = thanks[n].tip
      <4>1. Lone(n)
        BY <1>0, <2>1, <2>9, <3>1
      <4>2. \A m \in Ns : thanks[m].tip = x => m = n
        BY <3>1, <4>1 DEF Lone
      <4>3. ~ \E m \in Ns : thanks[m].tip = x /\ thanks[m].at \in {"stored", "done"}
        BY <2>1, <4>2
      <4>4. emails[x] \in Nat /\ ~(emails[x] > 0)
        BY <1>0, <2>9, <4>3 DEF ThankInv, ThankTyped
      <4>5. emails'[x] = emails[x] + mail
        BY <1>0, <2>1, <3>1, <2>3 DEF ThankTyped
      <4>6. emails'[x] <= 1
        BY <4>4, <4>5
      <4> QED BY <2>2, <3>1, <4>6
    <3>2. CASE x # thanks[n].tip
      BY <2>2, <2>5, <2>9, <3>2 DEF ThankInv
    <3> QED BY <3>1, <3>2
  <2>10. thanked' \subseteq thankedAt' /\ \A m \in Ns : thanks'[m].at = "stored" => thanks'[m].tip \in thankedAt'
    BY <1>0, <2>1, <2>2
  <2> QED BY <2>6, <2>7, <2>8, <2>9, <2>10 DEF ThankInv, Ns
<1>3. ASSUME NEW n \in Ns, thanks[n].at \in {"sent", "stored"}, NEW done, Heard(n, done),
             done \subseteq thankedAt, unsure \subseteq unsure',
             (thanks[n].tip \notin unsure' \cup crossed') => thanks[n].tip \in done
      PROVE  ThankInv'
  <2>1. /\ thanks' = [thanks EXCEPT ![n].at = "done"]
        /\ thanked' = IF thanks[n].here THEN thanked \cup done ELSE thanked
        /\ UNCHANGED <<listed, thankedAt, emails, crossed, wrote>>
    BY <1>3 DEF Heard
  <2>2. /\ thanks'[n].at = "done" /\ \A m \in Ns : m # n => thanks'[m] = thanks[m]
        /\ DOMAIN thanks' = Ns
        /\ \A m \in Ns : thanks'[m].tip = thanks[m].tip /\ thanks'[m].here = thanks[m].here
        /\ thanks'[n] = [tip |-> thanks'[n].tip, at |-> thanks'[n].at, here |-> thanks'[n].here]
    BY <1>0, <2>1 DEF ThankTyped
  <2>3. thanks[n].tip \in Tips /\ n <= wrote
    BY <1>0, <1>3 DEF ThankTyped
  <2>4. ThankTyped'
    <3>1. ASSUME NEW m \in Ns
          PROVE  /\ thanks'[m] = [tip |-> thanks'[m].tip, at |-> thanks'[m].at, here |-> thanks'[m].here]
                 /\ thanks'[m].at # "none" => m <= wrote' /\ thanks'[m].tip \in Tips
                 /\ thanks'[m].at = "none" => thanks'[m].tip = NoTip
                 /\ thanks'[m].at \in {"none", "sent", "stored", "done"}
      <4>1. CASE m = n
        BY <2>1, <2>2, <2>3, <4>1
      <4>2. CASE m # n
        BY <1>0, <2>1, <2>2, <4>2 DEF ThankTyped
      <4> QED BY <4>1, <4>2
    <3> QED BY <1>0, <2>1, <2>2, <3>1 DEF ThankTyped, Ns
  <2>5. \A x : (x \notin unsure' \cup crossed') => (x \notin unsure \cup crossed)
    BY <1>3, <2>1
  <2>6. n \in Under
    BY <1>3 DEF Under, Ns
  <2>7. ASSUME NEW m \in Ns, thanks'[m].at # "none", (thanks'[m].tip \notin unsure' \cup crossed') PROVE Lone(m)'
    <3>1. thanks[m].at # "none" /\ Lone(m)
      BY <1>0, <1>3, <2>2, <2>5, <2>7
    <3>2. thanks'[m].at \notin {"sent", "stored"}
      BY <2>2, <2>6, <3>1 DEF Lone
    <3>3. thanks'[m].at = "done" => thanks'[m].tip \in thanked'
      <4>1. CASE m = n
        BY <1>3, <2>1, <2>2, <2>7, <3>1, <4>1 DEF Lone
      <4>2. CASE m # n
        BY <2>1, <2>2, <3>1, <4>2 DEF Lone
      <4> QED BY <4>1, <4>2
    <3> QED BY <2>2, <3>1, <3>2, <3>3 DEF Lone, Ns
  <2>8. \A x \in Tips : (x \notin unsure' \cup crossed') =>
          /\ emails'[x] <= 1
          /\ emails'[x] > 0 => \E m \in Ns : thanks'[m].tip = x /\ thanks'[m].at \in {"stored", "done"}
    BY <2>1, <2>2, <2>5 DEF ThankInv
  <2>9. thanked' \subseteq thankedAt' /\ \A m \in Ns : thanks'[m].at = "stored" => thanks'[m].tip \in thankedAt'
    BY <1>0, <1>3, <2>1, <2>2
  <2> QED BY <2>4, <2>7, <2>8, <2>9 DEF ThankInv, Ns
<1>4. ASSUME NEW n \in Ns, ThankAnswered(n) PROVE ThankInv'
  <2>1. thanks[n].at = "stored" /\ Heard(n, {thanks[n].tip}) /\ unsure' = unsure
    BY <1>4 DEF ThankAnswered
  <2>2. {thanks[n].tip} \subseteq thankedAt
    BY <1>0, <2>1
  <2> QED BY <1>3, <2>1, <2>2
<1>5. ASSUME NEW n \in Ns, ThankFails(n) PROVE ThankInv'
  <2>1. /\ thanks[n].at \in {"sent", "stored"} /\ Heard(n, {})
        /\ unsure' = unsure \cup {thanks[n].tip}
    BY <1>5 DEF ThankFails
  <2>2. ~(thanks[n].tip \notin unsure' \cup crossed')
    BY <2>1 DEF Heard
  <2> QED BY <1>3, <2>1, <2>2
<1>6. CASE Relist
  <2>1. /\ thanked' = {} /\ unsure' = unsure \cup thanked \cup TipOf(Under)
        /\ thanks' = [n \in Ns |-> [thanks[n] EXCEPT !.here = FALSE]]
        /\ UNCHANGED <<thankedAt, emails, crossed, wrote>>
    BY <1>6 DEF Relist, Ns
  <2>2. \A n \in Ns : /\ thanks'[n].tip = thanks[n].tip /\ thanks'[n].at = thanks[n].at
                      /\ thanks'[n] = [tip |-> thanks'[n].tip, at |-> thanks'[n].at, here |-> thanks'[n].here]
    <3>1. PICK b : thanks' = [n \in Ns |-> [thanks[n] EXCEPT !.here = b]]
      BY <2>1
    <3>2. ASSUME NEW n \in Ns
          PROVE  thanks'[n] = [thanks[n] EXCEPT !.here = b]
      BY <3>1
    <3>3. ASSUME NEW n \in Ns
          PROVE  thanks'[n] = [tip |-> thanks[n].tip, at |-> thanks[n].at, here |-> b]
      <4>1. thanks[n] = [tip |-> thanks[n].tip, at |-> thanks[n].at, here |-> thanks[n].here]
        BY <1>0 DEF ThankTyped
      <4> QED BY <3>2, <4>1
    <3>4. ASSUME NEW r, NEW x, NEW y, NEW z, r = [tip |-> x, at |-> y, here |-> z]
          PROVE  r.tip = x /\ r.at = y /\ r = [tip |-> r.tip, at |-> r.at, here |-> r.here]
      BY <3>4
    <3>5. ASSUME NEW n \in Ns
          PROVE  /\ thanks'[n].tip = thanks[n].tip /\ thanks'[n].at = thanks[n].at
                 /\ thanks'[n] = [tip |-> thanks'[n].tip, at |-> thanks'[n].at, here |-> thanks'[n].here]
      <4>1. PICK r, x, y, z : /\ r = thanks'[n] /\ x = thanks[n].tip /\ y = thanks[n].at
                              /\ r = [tip |-> x, at |-> y, here |-> z]
        BY <3>3
      <4>2. r.tip = x /\ r.at = y /\ r = [tip |-> r.tip, at |-> r.at, here |-> r.here]
        BY <3>4, <4>1
      <4> QED BY <4>1, <4>2, Zenon
    <3> QED BY <3>5
  <2>3. DOMAIN thanks' = Ns
    BY <2>1
  <2>4. ThankTyped'
    BY <1>0, <2>1, <2>2, <2>3 DEF ThankTyped, Ns
  <2>5. \A x : (x \notin unsure' \cup crossed') => (x \notin unsure \cup crossed) /\ x \notin thanked /\ x \notin TipOf(Under)
    BY <2>1
  <2>6. ASSUME NEW m \in Ns, thanks'[m].at # "none", (thanks'[m].tip \notin unsure' \cup crossed') PROVE FALSE
    <3>1. Lone(m) /\ thanks[m].at \in {"sent", "stored", "done"}
      BY <1>0, <2>2, <2>5, <2>6 DEF ThankTyped
    <3>2. thanks[m].at = "done" => thanks[m].tip \in thanked
      BY <3>1 DEF Lone
    <3>3. thanks[m].at # "done" => thanks[m].tip \in TipOf(Under)
      BY <3>1 DEF TipOf, Under, Ns
    <3> QED BY <2>2, <2>5, <2>6, <3>2, <3>3
  <2>7. \A x \in Tips : (x \notin unsure' \cup crossed') =>
          /\ emails'[x] <= 1
          /\ emails'[x] > 0 => \E m \in Ns : thanks'[m].tip = x /\ thanks'[m].at \in {"stored", "done"}
    <3> SUFFICES ASSUME NEW x \in Tips, x \notin unsure' \cup crossed'
                 PROVE  /\ emails[x] <= 1
                        /\ emails[x] > 0 => \E m \in Ns : thanks'[m].tip = x /\ thanks'[m].at \in {"stored", "done"}
      BY <2>1
    <3>1. x \notin unsure \cup crossed
      BY <2>5
    <3>2. /\ emails[x] <= 1
          /\ emails[x] > 0 => \E m \in Ns : thanks[m].tip = x /\ thanks[m].at \in {"stored", "done"}
      BY <3>1 DEF ThankInv
    <3> QED BY <2>2, <3>2
  <2>8. thanked' \subseteq thankedAt' /\ \A m \in Ns : thanks'[m].at = "stored" => thanks'[m].tip \in thankedAt'
    BY <1>0, <2>1, <2>2
  <2> QED BY <2>4, <2>6, <2>7, <2>8 DEF ThankInv, Ns
<1>7. CASE UNCHANGED thankVars
  BY <1>7 DEF thankVars, ThankInv, ThankTyped, Lone, Under, Ns
<1> QED BY <1>1, <1>2, <1>4, <1>5, <1>6, <1>7 DEF ThankNext, Ns

LEMMA ThankStart == Init => ThankInv
<1> SUFFICES ASSUME Init PROVE ThankInv
  OBVIOUS
<1>1. /\ thanked = {} /\ wrote = 0 /\ emails = [t \in Tips |-> 0]
      /\ thanks = [n \in Ns |-> [tip |-> NoTip, at |-> "none", here |-> FALSE]]
  BY DEF Init, ThankInit, NoThanks, Ns
<1>2. ThankTyped
  BY <1>1 DEF ThankTyped
<1> QED BY <1>1, <1>2 DEF ThankInv

(* No supporter is shown as thanked who was not.                           *)
THEOREM SentStaysThanked == Spec => []SentMeansThanked
<1>1. ThankInv /\ [Next]_dashboardVars => ThankInv'
  BY ThankStep, StepsOfParts
<1>2. ThankInv => SentMeansThanked
  BY DEF ThankInv, SentMeansThanked
<1> QED BY <1>1, <1>2, ThankStart, PTL DEF Spec

(* A second thank-you follows only a first one that failed, was forgotten  *)
(* or crossed another.                                                     *)
THEOREM ThanksGoOutOnce == Spec => []ThankedOnce
<1>1. ThankInv /\ [Next]_dashboardVars => ThankInv'
  BY ThankStep, StepsOfParts
<1>2. ASSUME ThankInv PROVE ThankedOnce
  <2> SUFFICES ASSUME NEW t \in Tips, t \notin unsure \cup crossed PROVE ~(emails[t] > 1)
    BY DEF ThankedOnce
  <2>1. emails[t] \in Nat /\ emails[t] <= 1
    BY <1>2 DEF ThankInv, ThankTyped
  <2> QED BY <2>1
<1> QED BY <1>1, <1>2, ThankStart, PTL DEF Spec


-----------------------------------------------------------------------------
(***************************************************************************)
(* Jars.                                                                   *)
(***************************************************************************)

Partial(V) == UNION {[S -> V] : S \in SUBSET JarIds}

JarLoads == [at : {"asked", "served", "listed", "summed", "done"},
             js : Partial({0, Goal}), sums : Partial(0..Goal)]

Most(f) == \A j \in DOMAIN f : f[j] <= raised[j]

JarsTyped ==
  /\ jars \in [JarIds -> {0, Goal, Unmade, Gone}] /\ raised \in [JarIds -> 0..Goal]
  /\ loads \in Seq(JarLoads) /\ Len(loads) >= 1
  /\ shownJars \in Partial({0, Goal}) /\ stats \in Partial(0..Goal)
  /\ overtaken \in BOOLEAN /\ untold \in BOOLEAN
  /\ Most(stats) /\ \A i \in 1..Len(loads) : Most(loads[i].sums)

(* What the newest load was answered is of now, for whatever changed since *)
(* would have begun a newer one.                                           *)
OfNow == [j \in Rows |-> jars[j]]

NewestTrue(l) ==
  /\ l.at \in {"served", "listed", "summed"} => l.js = OfNow
  /\ l.at \in {"listed", "summed", "done"} => shownJars = OfNow
  /\ l.at = "summed" => l.sums = [j \in Rows |-> raised[j]]
  /\ l.at = "done" => \A j \in Rows : RaisedOf(j) = raised[j]

JarsInv == JarsTyped /\ (~overtaken /\ ~untold => NewestTrue(loads[Len(loads)]))

LEMMA NothingYet == NewLoad \in JarLoads /\ NoStats \in Partial({0, Goal}) /\ NoStats \in Partial(0..Goal)
                    /\ DOMAIN NoStats = {} /\ DOMAIN NewLoad.sums = {} /\ NewLoad.at = "asked"
<1>1. DOMAIN NoStats = {}
  BY DEF NoStats
<1>2. ASSUME NEW V PROVE NoStats \in Partial(V)
  <2>1. NoStats \in [{} -> V]
    BY DEF NoStats
  <2> QED BY <2>1 DEF Partial
<1> QED BY <1>1, <1>2 DEF NewLoad, JarLoads

(* A load moves on.                                                        *)
LEMMA LoadMoves ==
  ASSUME JarsInv, NEW i \in 1..Len(loads), NEW v \in JarLoads,
         loads' = [loads EXCEPT ![i] = v]
  PROVE  /\ loads' \in Seq(JarLoads) /\ Len(loads') = Len(loads) /\ loads'[i] = v
         /\ \A k \in 1..Len(loads) : k # i => loads'[k] = loads[k]
         /\ Len(loads) \in Nat /\ Len(loads) >= 1 /\ loads[i] \in JarLoads
         /\ \A k \in 1..Len(loads) : loads[k] \in JarLoads
BY ExceptSeq DEF JarsInv, JarsTyped

(* A load is begun, which knows nothing yet.                               *)
LEMMA LoadBegins ==
  ASSUME JarsInv, loads' = Append(loads, NewLoad), UNCHANGED <<raised, shownJars, stats>>,
         jars' \in [JarIds -> {0, Goal, Unmade, Gone}], overtaken' = FALSE, untold' = FALSE
  PROVE  JarsInv'
<1>1. /\ loads' \in Seq(JarLoads) /\ Len(loads') = Len(loads) + 1 /\ Len(loads) \in Nat
      /\ \A k \in 1..Len(loads) : loads'[k] = loads[k]
      /\ loads'[Len(loads) + 1] = NewLoad
  BY NothingYet, AppendProperties DEF JarsInv, JarsTyped
<1>2. (\A k \in 1..Len(loads) : Most(loads[k].sums))'
  <2> SUFFICES ASSUME NEW k \in 1..Len(loads') PROVE \A j \in DOMAIN loads'[k].sums : loads'[k].sums[j] <= raised'[j]
    BY DEF Most
  <2>1. CASE k = Len(loads) + 1
    BY <1>1, <2>1, NothingYet
  <2>2. CASE k \in 1..Len(loads)
    BY <1>1, <2>2 DEF JarsInv, JarsTyped, Most
  <2> QED BY <1>1, <2>1, <2>2
<1>3. JarsTyped'
  <2>1. overtaken' \in BOOLEAN /\ untold' \in BOOLEAN
    BY Zenon
  <2> QED BY <1>1, <1>2, <2>1 DEF JarsInv, JarsTyped, Most
<1>4. loads'[Len(loads')].at = "asked"
  BY <1>1, NothingYet
<1> QED BY <1>3, <1>4 DEF JarsInv, NewestTrue


LEMMA RowsTyped ==
  ASSUME JarsInv
  PROVE  OfNow \in Partial({0, Goal}) /\ DOMAIN OfNow = Rows /\ Rows \subseteq JarIds
<1>1. OfNow \in [Rows -> {0, Goal}] /\ Rows \in SUBSET JarIds
  BY DEF OfNow, Rows
<1> QED BY <1>1 DEF Partial

(* A step of one load that shows nothing, or shows what the load was       *)
(* answered.                                                               *)
LEMMA JarStep1 ==
  ASSUME JarsInv, NEW i \in 1..Len(loads), NEW v \in JarLoads,
         loads' = [loads EXCEPT ![i] = v], UNCHANGED <<jars, raised>>,
         Most(v.sums), overtaken' \in BOOLEAN, untold' \in BOOLEAN,
         overtaken => overtaken', untold => untold',
         shownJars' \in Partial({0, Goal}), stats' \in Partial(0..Goal),
         \A j \in DOMAIN stats' : stats'[j] <= raised[j]
  PROVE  /\ JarsTyped'
         /\ ~overtaken' /\ ~untold' /\ i # Len(loads) /\ UNCHANGED <<shownJars, stats>> => JarsInv'
         /\ ~(~overtaken' /\ ~untold') => JarsInv'
<1>1. /\ loads' \in Seq(JarLoads) /\ Len(loads') = Len(loads) /\ loads'[i] = v
      /\ \A k \in 1..Len(loads) : k # i => loads'[k] = loads[k]
      /\ Len(loads) \in Nat /\ Len(loads) >= 1
  BY LoadMoves
<1>2. (\A k \in 1..Len(loads) : Most(loads[k].sums))'
  <2> SUFFICES ASSUME NEW k \in 1..Len(loads') PROVE \A j \in DOMAIN loads'[k].sums : loads'[k].sums[j] <= raised'[j]
    BY DEF Most
  <2>1. CASE k = i
    BY <1>1, <2>1 DEF Most
  <2>2. CASE k # i
    BY <1>1, <2>2 DEF JarsInv, JarsTyped, Most
  <2> QED BY <2>1, <2>2
<1>3. JarsTyped'
  BY <1>1, <1>2 DEF JarsInv, JarsTyped, Most
<1>4. ASSUME ~overtaken', ~untold', i # Len(loads), UNCHANGED <<shownJars, stats>> PROVE JarsInv'
  <2>1. ~overtaken /\ ~untold
    BY <1>4
  <2>2. NewestTrue(loads[Len(loads)])
    BY <2>1 DEF JarsInv
  <2>3. loads'[Len(loads')] = loads[Len(loads)]
    <3>1. Len(loads) \in Nat /\ Len(loads) >= 1
      BY <1>1
    <3>2. Len(loads) \in 1..Len(loads)
      BY <3>1
    <3>3. Len(loads) # i /\ Len(loads') = Len(loads)
      BY <1>1, <1>4
    <3>4. loads'[Len(loads)] = loads[Len(loads)]
      BY <1>1, <3>2, <3>3
    <3> QED BY <3>3, <3>4
  <2>4. OfNow' = OfNow /\ Rows' = Rows
    BY DEF OfNow, Rows
  <2>5. \A j : RaisedOf(j)' = RaisedOf(j)
    BY <1>4 DEF RaisedOf
  <2>6. NewestTrue(loads[Len(loads)])'
    BY <1>4, <2>2, <2>3, <2>4, <2>5 DEF NewestTrue
  <2> QED BY <1>3, <2>6 DEF JarsInv
<1>5. ~(~overtaken' /\ ~untold') => JarsInv'
  BY <1>3 DEF JarsInv
<1> QED BY <1>3, <1>4, <1>5

LEMMA JarsStep == JarsInv /\ [JarsNext]_jarVars => JarsInv'
<1> SUFFICES ASSUME JarsInv, [JarsNext]_jarVars PROVE JarsInv'
  OBVIOUS
<1>0. JarsTyped /\ loads \in Seq(JarLoads) /\ Len(loads) \in Nat /\ Len(loads) >= 1 /\ Goal \in Nat \ {0}
  BY JarsAssumption DEF JarsInv, JarsTyped
<1>1. ASSUME NEW i \in 1..Len(loads)
      PROVE  /\ loads[i] \in JarLoads /\ Most(loads[i].sums)
             /\ loads[i].js \in Partial({0, Goal}) /\ loads[i].sums \in Partial(0..Goal)
  <2>1. loads[i] \in JarLoads
    BY <1>0, <1>1
  <2> QED BY <1>0, <1>1, <2>1 DEF JarLoads, JarsTyped
<1>3. Len(loads) \in 1..Len(loads)
  BY <1>0
<1>4. ASSUME NEW i \in 1..Len(loads), ServeList(i) PROVE JarsInv'
  <2> DEFINE v == [loads[i] EXCEPT !.at = "served", !.js = OfNow]
  <2>1. /\ loads' = [loads EXCEPT ![i] = v] /\ loads[i].at = "asked"
        /\ UNCHANGED <<jars, raised, shownJars, stats, overtaken, untold>>
    BY <1>4 DEF ServeList, Loading, OfNow
  <2>2. v \in JarLoads /\ v.at = "served" /\ v.js = OfNow /\ v.sums = loads[i].sums
    BY <1>1, RowsTyped DEF JarLoads
  <2> HIDE DEF v
  <2>3. Most(v.sums)
    BY <1>1, <2>2
  <2>4. /\ JarsTyped'
        /\ ~overtaken' /\ ~untold' /\ i # Len(loads) /\ UNCHANGED <<shownJars, stats>> => JarsInv'
        /\ ~(~overtaken' /\ ~untold') => JarsInv'
    BY <1>0, <2>1, <2>2, <2>3, JarStep1 DEF JarsTyped, Most
  <2>5. ASSUME i = Len(loads) PROVE JarsInv'
    <3>1. loads'[Len(loads')] = v
      BY <1>0, <2>1, <2>2, <2>5, LoadMoves
    <3>2. OfNow' = OfNow
      BY <2>1 DEF OfNow, Rows
    <3>3. NewestTrue(loads[Len(loads)])'
      BY <2>2, <3>1, <3>2 DEF NewestTrue
    <3> QED BY <2>4, <3>3 DEF JarsInv
  <2> QED BY <2>1, <2>4, <2>5
<1>5. ASSUME NEW i \in 1..Len(loads), ShowJars(i) PROVE JarsInv'
  <2> DEFINE v == [loads[i] EXCEPT !.at = "listed"]
  <2>1. /\ loads' = [loads EXCEPT ![i] = v] /\ loads[i].at = "served" /\ shownJars' = loads[i].js
        /\ UNCHANGED <<jars, raised, stats, untold>> /\ overtaken' = (overtaken \/ Late(i))
    BY <1>5 DEF ShowJars, Loading
  <2>2. v \in JarLoads /\ v.at = "listed" /\ v.js = loads[i].js /\ v.sums = loads[i].sums
    BY <1>1 DEF JarLoads
  <2> HIDE DEF v
  <2>3. Most(v.sums) /\ overtaken' \in BOOLEAN /\ untold' \in BOOLEAN
    BY <1>0, <1>1, <2>1, <2>2 DEF JarsTyped
  <2>4. /\ JarsTyped'
        /\ ~(~overtaken' /\ ~untold') => JarsInv'
    BY <1>0, <1>1, <2>1, <2>2, <2>3, JarStep1 DEF JarsTyped, Most
  <2>5. ASSUME ~overtaken', ~untold' PROVE JarsInv'
    <3>1. ~overtaken /\ ~untold /\ ~Late(i) /\ NewestTrue(loads[Len(loads)])
      BY <2>1, <2>5 DEF JarsInv
    <3>2. OfNow' = OfNow /\ Rows' = Rows
      BY <2>1 DEF OfNow, Rows
    <3>3. \A j : RaisedOf(j)' = RaisedOf(j)
      BY <2>1 DEF RaisedOf
    <3>4. CASE i = Len(loads)
      <4>1. loads'[Len(loads')] = v
        BY <1>0, <2>1, <2>2, <3>4, LoadMoves
      <4>2. v.js = OfNow /\ shownJars' = OfNow
        BY <2>1, <2>2, <3>1, <3>4 DEF NewestTrue
      <4>3. NewestTrue(loads[Len(loads)])'
        BY <2>2, <3>2, <4>1, <4>2 DEF NewestTrue
      <4> QED BY <2>4, <4>3 DEF JarsInv
    <3>5. CASE i # Len(loads)
      <4>1. loads'[Len(loads')] = loads[Len(loads)]
        BY <1>0, <1>3, <2>1, <2>2, <3>5, LoadMoves
      <4>2. Len(loads) \in (i + 1)..Len(loads)
        BY <1>0, <3>5
      <4>3. loads[Len(loads)].at \notin {"listed", "summed", "done"}
        BY <3>1, <4>2 DEF Late
      <4>4. NewestTrue(loads[Len(loads)])'
        BY <3>1, <3>2, <4>1, <4>3 DEF NewestTrue
      <4> QED BY <2>4, <4>4 DEF JarsInv
    <3> QED BY <3>4, <3>5
  <2> QED BY <2>4, <2>5
<1>6. ASSUME NEW i \in 1..Len(loads), ListFails(i) PROVE JarsInv'
  <2> DEFINE v == [loads[i] EXCEPT !.at = "done"]
  <2>1. /\ loads' = [loads EXCEPT ![i] = v] /\ shownJars' = NoStats
        /\ UNCHANGED <<jars, raised, stats>>
        /\ untold' = (untold \/ ~Newer(i)) /\ overtaken' = (overtaken \/ Late(i))
    BY <1>6 DEF ListFails, Loading
  <2>2. v \in JarLoads /\ v.sums = loads[i].sums
    BY <1>1 DEF JarLoads
  <2> HIDE DEF v
  <2>3. Most(v.sums) /\ overtaken' \in BOOLEAN /\ untold' \in BOOLEAN
    BY <1>0, <1>1, <2>1, <2>2 DEF JarsTyped
  <2>4. /\ JarsTyped'
        /\ ~(~overtaken' /\ ~untold') => JarsInv'
    BY <1>0, <2>1, <2>2, <2>3, JarStep1, NothingYet DEF JarsTyped, Most
  <2>5. ASSUME ~overtaken', ~untold' PROVE JarsInv'
    <3>1. ~overtaken /\ ~untold /\ ~Late(i) /\ i < Len(loads)
      BY <2>1, <2>5 DEF Newer
    <3>2. loads'[Len(loads')] = loads[Len(loads)]
      BY <1>0, <1>3, <2>1, <2>2, <3>1, LoadMoves
    <3>3. NewestTrue(loads[Len(loads)]) /\ Len(loads) \in (i + 1)..Len(loads)
      BY <1>0, <3>1 DEF JarsInv
    <3>4. loads[Len(loads)].at \notin {"listed", "summed", "done"}
      BY <3>1, <3>3 DEF Late
    <3>5. OfNow' = OfNow
      BY <2>1 DEF OfNow, Rows
    <3>6. NewestTrue(loads[Len(loads)])'
      BY <3>2, <3>3, <3>4, <3>5 DEF NewestTrue
    <3> QED BY <2>4, <3>6 DEF JarsInv
  <2> QED BY <2>4, <2>5
<1>7. ASSUME NEW i \in 1..Len(loads), ServeSums(i) PROVE JarsInv'
  <2>1. PICK ok \in SUBSET DOMAIN loads[i].js :
          /\ loads' = [loads EXCEPT ![i].at = "summed",
                         ![i].sums = [j \in DOMAIN loads[i].js |-> IF j \in ok THEN raised[j] ELSE 0]]
          /\ untold' = (untold \/ (~Newer(i) /\ ok # DOMAIN loads[i].js))
    BY <1>7 DEF ServeSums
  <2>2. UNCHANGED <<jars, raised, shownJars, stats, overtaken>> /\ loads[i].at = "listed"
    BY <1>7 DEF ServeSums, Loading
  <2> DEFINE sums == [j \in DOMAIN loads[i].js |-> IF j \in ok THEN raised[j] ELSE 0]
             v == [loads[i] EXCEPT !.at = "summed", !.sums = sums]
  <2>3. DOMAIN loads[i].js \subseteq JarIds
    BY <1>1 DEF Partial
  <2>4. sums \in Partial(0..Goal) /\ \A j \in DOMAIN sums : sums[j] <= raised[j]
    <3>1. \A j \in JarIds : raised[j] \in 0..Goal
      BY <1>0 DEF JarsTyped
    <3>2. sums \in [DOMAIN loads[i].js -> 0..Goal]
      BY <1>0, <2>3, <3>1
    <3>3. \A j \in DOMAIN sums : sums[j] <= raised[j]
      BY <2>3, <3>1
    <3> QED BY <2>3, <3>2, <3>3 DEF Partial
  <2>5. untold' = FALSE /\ i = Len(loads) => sums = [j \in DOMAIN loads[i].js |-> raised[j]]
    <3>1. i = Len(loads) => ~Newer(i)
      BY <1>0 DEF Newer
    <3> QED BY <2>1, <3>1
  <2>6. loads' = [loads EXCEPT ![i] = v]
    BY <2>1
  <2> HIDE DEF sums
  <2>7. v \in JarLoads /\ v.at = "summed" /\ v.sums = sums /\ v.js = loads[i].js
    BY <1>1, <2>4 DEF JarLoads
  <2> HIDE DEF v
  <2>8. Most(v.sums) /\ overtaken' \in BOOLEAN /\ untold' \in BOOLEAN
    BY <1>0, <2>1, <2>2, <2>4, <2>7 DEF JarsTyped, Most
  <2>9. /\ JarsTyped'
        /\ ~overtaken' /\ ~untold' /\ i # Len(loads) /\ UNCHANGED <<shownJars, stats>> => JarsInv'
        /\ ~(~overtaken' /\ ~untold') => JarsInv'
    BY <1>0, <2>1, <2>2, <2>6, <2>7, <2>8, JarStep1 DEF JarsTyped, Most
  <2>10. ASSUME ~overtaken', ~untold', i = Len(loads) PROVE JarsInv'
    <3>1. NewestTrue(loads[i])
      BY <2>1, <2>2, <2>10 DEF JarsInv
    <3>2. loads'[Len(loads')] = v
      BY <1>0, <2>6, <2>7, <2>10, LoadMoves
    <3>3. OfNow' = OfNow /\ Rows' = Rows
      BY <2>2 DEF OfNow, Rows
    <3>4. v.js = OfNow /\ shownJars = OfNow
      BY <2>2, <2>7, <3>1 DEF NewestTrue
    <3>5. v.sums = [j \in Rows |-> raised[j]]
      BY <2>5, <2>7, <2>8, <2>10, <3>4, RowsTyped
    <3>6. NewestTrue(loads[Len(loads)])'
      BY <2>2, <2>7, <3>2, <3>3, <3>4, <3>5 DEF NewestTrue
    <3> QED BY <2>9, <3>6 DEF JarsInv
  <2> QED BY <2>2, <2>9, <2>10
<1>8. ASSUME NEW i \in 1..Len(loads), ShowSums(i) PROVE JarsInv'
  <2> DEFINE v == [loads[i] EXCEPT !.at = "done"]
  <2>1. /\ loads' = [loads EXCEPT ![i] = v] /\ loads[i].at = "summed" /\ stats' = loads[i].sums
        /\ UNCHANGED <<jars, raised, shownJars, untold>> /\ overtaken' = (overtaken \/ Late(i))
    BY <1>8 DEF ShowSums, Loading
  <2>2. v \in JarLoads /\ v.at = "done" /\ v.sums = loads[i].sums
    BY <1>1 DEF JarLoads
  <2> HIDE DEF v
  <2>3. Most(v.sums) /\ overtaken' \in BOOLEAN /\ untold' \in BOOLEAN
    BY <1>0, <1>1, <2>1, <2>2 DEF JarsTyped
  <2>4. /\ JarsTyped'
        /\ ~(~overtaken' /\ ~untold') => JarsInv'
    BY <1>0, <1>1, <2>1, <2>2, <2>3, JarStep1 DEF JarsTyped, Most
  <2>5. ASSUME ~overtaken', ~untold' PROVE JarsInv'
    <3>1. ~overtaken /\ ~untold /\ ~Late(i) /\ NewestTrue(loads[Len(loads)])
      BY <2>1, <2>5 DEF JarsInv
    <3>2. OfNow' = OfNow /\ Rows' = Rows
      BY <2>1 DEF OfNow, Rows
    <3>4. CASE i = Len(loads)
      <4>1. loads'[Len(loads')] = v
        BY <1>0, <2>1, <2>2, <3>4, LoadMoves
      <4>2. stats' = [j \in Rows |-> raised[j]] /\ shownJars' = OfNow
        BY <2>1, <3>1, <3>4 DEF NewestTrue
      <4>3. \A j \in Rows : RaisedOf(j)' = raised[j]
        BY <4>2 DEF RaisedOf
      <4>4. NewestTrue(loads[Len(loads)])'
        BY <2>1, <2>2, <3>2, <4>1, <4>2, <4>3 DEF NewestTrue
      <4> QED BY <2>4, <4>4 DEF JarsInv
    <3>5. CASE i # Len(loads)
      <4>1. loads'[Len(loads')] = loads[Len(loads)]
        BY <1>0, <1>3, <2>1, <2>2, <3>5, LoadMoves
      <4>2. Len(loads) \in (i + 1)..Len(loads)
        BY <1>0, <3>5
      <4>3. loads[Len(loads)].at \notin {"listed", "summed", "done"}
        BY <3>1, <4>2 DEF Late
      <4>4. NewestTrue(loads[Len(loads)])'
        BY <3>1, <3>2, <4>1, <4>3 DEF NewestTrue
      <4> QED BY <2>4, <4>4 DEF JarsInv
    <3> QED BY <3>4, <3>5
  <2> QED BY <2>4, <2>5

<1>9. ASSUME UNCHANGED <<loads, shownJars, stats, overtaken>>, untold' \in BOOLEAN,
             jars' \in [JarIds -> {0, Goal, Unmade, Gone}], raised' \in [JarIds -> 0..Goal],
             \A j \in JarIds : raised[j] <= raised'[j]
      PROVE  JarsTyped' /\ (untold' => JarsInv')
  <2>1. ASSUME NEW V, NEW f \in Partial(V), NEW W, W = V, V \subseteq Nat, Most(f)
        PROVE  \A j \in DOMAIN f : f[j] <= raised'[j]
    <3>1. DOMAIN f \subseteq JarIds /\ \A j \in DOMAIN f : f[j] \in Nat
      BY <2>1 DEF Partial
    <3>2. \A j \in JarIds : raised[j] \in Nat /\ raised'[j] \in Nat
      BY <1>0, <1>9 DEF JarsTyped
    <3> QED BY <1>9, <2>1, <3>1, <3>2 DEF Most
  <2>2. 0..Goal \subseteq Nat
    BY <1>0
  <2>3. \A j \in DOMAIN stats : stats[j] <= raised'[j]
    BY <1>0, <2>1, <2>2 DEF JarsTyped
  <2>4. \A i \in 1..Len(loads) : \A j \in DOMAIN loads[i].sums : loads[i].sums[j] <= raised'[j]
    BY <1>1, <2>1, <2>2
  <2>5. JarsTyped'
    BY <1>0, <1>9, <2>3, <2>4 DEF JarsTyped, Most
  <2> QED BY <1>9, <2>5 DEF JarsInv
<1>10. ASSUME NEW j \in JarIds, TipIntoJar(j) PROVE JarsInv'
  <2>1. /\ raised' = [raised EXCEPT ![j] = Goal]
        /\ untold' = (untold \/ loads[Len(loads)].at \in {"summed", "done"})
        /\ UNCHANGED <<jars, shownJars, stats, loads, overtaken>>
    BY <1>10 DEF TipIntoJar
  <2>2. /\ raised \in [JarIds -> 0..Goal] /\ jars' \in [JarIds -> {0, Goal, Unmade, Gone}]
        /\ untold' \in BOOLEAN
    BY <1>0, <2>1 DEF JarsTyped
  <2>3. raised' \in [JarIds -> 0..Goal] /\ \A k \in JarIds : raised[k] <= raised'[k]
    BY <1>0, <2>1, <2>2
  <2>4. JarsTyped' /\ (untold' => JarsInv')
    BY <1>9, <2>1, <2>2, <2>3
  <2>5. ASSUME ~overtaken', ~untold' PROVE JarsInv'
    <3>1. NewestTrue(loads[Len(loads)]) /\ loads[Len(loads)].at \notin {"summed", "done"}
      BY <2>1, <2>5 DEF JarsInv
    <3>2. OfNow' = OfNow
      BY <2>1 DEF OfNow, Rows
    <3>3. NewestTrue(loads[Len(loads)])'
      BY <2>1, <3>1, <3>2 DEF NewestTrue
    <3> QED BY <2>4, <3>3 DEF JarsInv
  <2> QED BY <2>4, <2>5 DEF JarsInv
<1>11. ASSUME NEW j \in JarIds, NEW g \in {0, Goal}, CreateJar(j, g) PROVE JarsInv'
  <2>1. /\ jars' = [jars EXCEPT ![j] = g] /\ UNCHANGED <<raised, shownJars, stats>>
        /\ \/ Room /\ Begun
           \/ untold' = TRUE /\ UNCHANGED <<loads, overtaken>>
    BY <1>11 DEF CreateJar, Unshown
  <2>2. jars' \in [JarIds -> {0, Goal, Unmade, Gone}] /\ raised \in [JarIds -> 0..Goal]
    BY <1>0, <2>1 DEF JarsTyped
  <2>3. \A k \in JarIds : raised[k] <= raised'[k]
    BY <1>0, <2>1, <2>2
  <2>4. CASE Room /\ Begun
    <3>1. loads' = Append(loads, NewLoad) /\ overtaken' = FALSE /\ untold' = FALSE
      BY <2>4 DEF Asked, Room, Begun
    <3> QED BY <2>1, <2>2, <2>4, <3>1, LoadBegins
  <2>5. CASE untold' = TRUE /\ UNCHANGED <<loads, overtaken>>
    BY <1>9, <2>1, <2>2, <2>3, <2>5
  <2> QED BY <2>1, <2>4, <2>5
<1>12. ASSUME NEW j \in JarIds, DeleteJar(j) PROVE JarsInv'
  <2>1. /\ jars' \in {jars, [jars EXCEPT ![j] = Gone]} /\ Begun /\ Room
        /\ UNCHANGED <<raised, shownJars, stats>>
    BY <1>12 DEF DeleteJar, Unshown
  <2>2. loads' = Append(loads, NewLoad) /\ overtaken' = FALSE /\ untold' = FALSE
    BY <2>1 DEF Asked, Room, Begun
  <2>3. jars' \in [JarIds -> {0, Goal, Unmade, Gone}]
    BY <1>0, <2>1 DEF JarsTyped
  <2> QED BY <2>1, <2>2, <2>3, LoadBegins
<1>13. ASSUME UNCHANGED <<jars, raised, loads, shownJars, stats, overtaken, untold>> PROVE JarsInv'
  BY <1>13 DEF JarsInv, JarsTyped, Most, NewestTrue, OfNow, Rows, RaisedOf
<1>14. ASSUME NEW j \in JarIds, PressDelete(j) PROVE JarsInv'
  BY <1>13, <1>14 DEF PressDelete, Unshown
<1>15. PressCreate \/ CreateFails \/ UNCHANGED jarVars => JarsInv'
  BY <1>13 DEF PressCreate, CreateFails, Unshown, jarVars
<1> QED
  BY <1>4, <1>5, <1>6, <1>7, <1>8, <1>10, <1>11, <1>12, <1>14, <1>15 DEF JarsNext

LEMMA JarsStart == Init => JarsInv
<1> SUFFICES ASSUME Init PROVE JarsInv
  OBVIOUS
<1>1. PICK full \in SUBSET JarIds, kept \in SUBSET JarIds :
        /\ jars = [j \in JarIds |-> IF j \in kept THEN Goal ELSE Unmade]
        /\ raised = [j \in JarIds |-> IF j \in full THEN Goal ELSE 0]
  BY DEF Init, JarsInit
<1>2. /\ shownJars = NoStats /\ stats = NoStats
      /\ loads = <<NewLoad>> /\ overtaken = FALSE /\ untold = FALSE /\ Goal \in Nat \ {0}
  BY JarsAssumption DEF Init, JarsInit
<1>3. /\ loads \in Seq(JarLoads) /\ Len(loads) = 1 /\ loads[1] = NewLoad
  BY <1>2, NothingYet
<1>4. jars \in [JarIds -> {0, Goal, Unmade, Gone}] /\ raised \in [JarIds -> 0..Goal]
  BY <1>1, <1>2
<1>5. Most(stats) /\ \A i \in 1..Len(loads) : Most(loads[i].sums)
  BY <1>2, <1>3, NothingYet DEF Most
<1>6. JarsTyped
  <2>1. shownJars \in Partial({0, Goal}) /\ stats \in Partial(0..Goal)
    BY <1>2, NothingYet
  <2>2. Len(loads) >= 1
    BY <1>3
  <2>3. overtaken \in BOOLEAN /\ untold \in BOOLEAN
    BY <1>2
  <2> QED BY <1>3, <1>4, <1>5, <2>1, <2>2, <2>3 DEF JarsTyped
<1>7. loads[Len(loads)].at = "asked"
  BY <1>3, NothingYet
<1> QED BY <1>6, <1>7 DEF JarsInv, NewestTrue

LEMMA JarsHold == JarsInv => JarsShown /\ CompletedIsFull
<1> SUFFICES ASSUME JarsInv PROVE JarsShown /\ CompletedIsFull
  OBVIOUS
<1>1. ASSUME Settled, ~overtaken, ~untold
      PROVE  shownJars = OfNow /\ \A j \in Rows : RaisedOf(j) = raised[j]
  <2>1. Len(loads) \in Nat /\ Len(loads) >= 1
    BY DEF JarsInv, JarsTyped
  <2>2. Len(loads) \in 1..Len(loads)
    BY <2>1
  <2>3. loads[Len(loads)].at = "done" /\ NewestTrue(loads[Len(loads)])
    BY <1>1, <2>2 DEF Settled, JarsInv
  <2> QED BY <2>3 DEF NewestTrue
<1>2. ASSUME NEW j \in DOMAIN shownJars, Done(j) PROVE raised[j] >= Goal
  <2>1. j \in JarIds /\ shownJars[j] \in {0, Goal} /\ Goal \in Nat \ {0}
    BY JarsAssumption DEF JarsInv, JarsTyped, Partial
  <2>2. shownJars[j] = Goal /\ RaisedOf(j) >= Goal
    BY <1>2, <2>1 DEF Done
  <2>3. j \in DOMAIN stats
    BY <2>1, <2>2 DEF RaisedOf
  <2>4. RaisedOf(j) <= raised[j] /\ RaisedOf(j) \in Nat
    <3>1. stats[j] <= raised[j] /\ stats[j] \in 0..Goal
      BY <2>3 DEF JarsInv, JarsTyped, Most, Partial
    <3> QED BY <2>1, <2>3, <3>1 DEF RaisedOf
  <2>5. raised[j] \in Nat
    BY <2>1 DEF JarsInv, JarsTyped
  <2> QED BY <2>1, <2>2, <2>4, <2>5
<1> QED BY <1>1, <1>2 DEF JarsShown, CompletedIsFull, OfNow

(* Loads of the jars overlap, and each creation and each deletion begins   *)
(* one.  Once nothing is under way the tab shows the jars and sums that    *)
(* are stored, with whatever came while the newest load was under way,     *)
(* unless an older one overtook it or something happened that it could not *)
(* tell: however many jars, loads, tips and changes.                       *)
THEOREM JarsStayShown == Spec => []JarsShown
<1>1. JarsInv /\ [Next]_dashboardVars => JarsInv'
  BY JarsStep, StepsOfParts
<1> QED BY <1>1, JarsHold, JarsStart, PTL DEF Spec

(* A jar put away among the completed has reached its goal, also when the  *)
(* jars shown and the sums shown come from different loads.                *)
THEOREM CompletedStayFull == Spec => []CompletedIsFull
<1>1. JarsInv /\ [Next]_dashboardVars => JarsInv'
  BY JarsStep, StepsOfParts
<1> QED BY <1>1, JarsHold, JarsStart, PTL DEF Spec

-----------------------------------------------------------------------------
(***************************************************************************)
(* The profile form.                                                       *)
(***************************************************************************)

Forms == [Fields -> Values]

Profiles == [Public -> Values]

Puts == {NoPut} \cup [at : {"sent"}, body : Forms, unsaved : SUBSET Fields, row : {NoProfile}]
                \cup [at : {"stored"}, body : Forms, unsaved : SUBSET Fields, row : Profiles]

(* What saving b's field f would leave as it is.                           *)
Agrees(b, f) == b[f] = row[f] \/ (f \in Kept \cup Pictures /\ b[f] = Blank)

ProfileTyped ==
  /\ row \in Forms /\ form \in Forms
  /\ mine = NoProfile \/ mine \in Profiles
  /\ puts \in [1..MaxVisits -> Puts]
  /\ unsaved \subseteq Fields
  /\ visits \in 0..MaxVisits
  /\ bankRead \in Values \cup {Unread}
  /\ tab \in {"closed", "bank", "filled"} /\ (tab # "closed" => visits >= 1)
  /\ \A v \in 1..MaxVisits : v > visits => puts[v] = NoPut

(* Of a save that was sent, and of the form as far as no save of it is     *)
(* under way, the fields said to be the row's are; and the form is what    *)
(* its own save sent, except for what was edited since.                    *)
SentAgree ==
  \A v \in 1..MaxVisits : puts[v].at = "sent" =>
    \A f \in Fields \ puts[v].unsaved : Agrees(puts[v].body, f)

FormAgrees ==
  visits >= 1 =>
    \A f \in Fields \ unsaved :
      /\ puts[visits].at # "sent" \/ f \notin puts[visits].unsaved => Agrees(form, f)
      /\ puts[visits].at = "sent" => form[f] = puts[visits].body[f]

(* A picture that was once there is there.                                 *)
PicturesStay ==
  /\ \A p \in Pictures : p \in DOMAIN mine /\ mine[p] # Blank => row[p] # Blank
  /\ \A v \in 1..MaxVisits : puts[v].at = "stored" =>
       \A p \in Pictures : puts[v].row[p] # Blank => row[p] # Blank

ProfileInv ==
  /\ ProfileTyped /\ SentAgree /\ FormAgrees /\ PicturesStay
  /\ tab # "closed" /\ mine = NoProfile => Public \subseteq unsaved

LEMMA FieldsApart ==
  /\ Blank \in Values /\ Pictures \subseteq Public /\ Public \subseteq Fields
  /\ DOMAIN NoProfile = {} /\ NoPut \in Puts /\ NoPut.at = "none"
  /\ MaxVisits \in Nat /\ Bank \in Fields
  /\ \A r \in Forms : PublicOf(r) \in Profiles /\ \A p \in Public : PublicOf(r)[p] = r[p]
  /\ \A m \in Profiles : DOMAIN m = Public
<1>1. Pictures \subseteq Public /\ Public \subseteq Fields /\ Blank \in Values /\ Bank \in Fields
  BY DEF Public, Fields, Values
<1>2. DOMAIN NoProfile = {}
  BY DEF NoProfile
<1>3. NoPut \in Puts /\ NoPut.at = "none"
  BY DEF NoPut, Puts
<1> QED BY <1>1, <1>2, <1>3, ProfileAssumption DEF PublicOf, Profiles, Forms

LEMMA PutCases ==
  ASSUME ProfileInv, NEW v \in 1..MaxVisits
  PROVE  /\ puts[v] \in Puts
         /\ puts[v] = NoPut <=> puts[v].at = "none"
         /\ puts[v].at \in {"none", "sent", "stored"}
         /\ puts[v].at = "sent" => /\ puts[v].body \in Forms /\ puts[v].unsaved \subseteq Fields
                                   /\ v <= visits
         /\ puts[v].at = "stored" => puts[v].row \in Profiles
<1>1. puts[v] \in Puts /\ (v > visits => puts[v] = NoPut) /\ visits \in Nat /\ v \in Nat
  BY FieldsApart DEF ProfileInv, ProfileTyped
<1> QED BY <1>1, FieldsApart DEF Puts

LEMMA ProfileStep == ProfileInv /\ [ProfileNext]_profileVars => ProfileInv'
<1> SUFFICES ASSUME ProfileInv, [ProfileNext]_profileVars PROVE ProfileInv'
  OBVIOUS
<1>0. /\ ProfileTyped /\ SentAgree /\ FormAgrees /\ PicturesStay
      /\ tab # "closed" /\ mine = NoProfile => Public \subseteq unsaved
  BY DEF ProfileInv
<1>1. CASE LoadMine
  <2>1. mine' = PublicOf(row) /\ UNCHANGED <<row, form, tab, bankRead, puts, unsaved, visits, changes>>
    BY <1>1 DEF LoadMine
  <2>2. mine' \in Profiles /\ \A p \in Public : mine'[p] = row[p]
    BY <1>0, <2>1, FieldsApart DEF ProfileTyped
  <2>3. ProfileTyped'
    BY <1>0, <2>1, <2>2 DEF ProfileTyped
  <2>4. SentAgree' /\ FormAgrees'
    BY <1>0, <2>1 DEF SentAgree, FormAgrees, Agrees
  <2>5. PicturesStay'
    BY <1>0, <2>1, <2>2, FieldsApart DEF PicturesStay
  <2>6. mine' = NoProfile => Public = {}
    BY <2>2, FieldsApart
  <2> QED BY <2>3, <2>4, <2>5, <2>6 DEF ProfileInv
<1>2. CASE OpenTab
  <2>1. /\ visits < MaxVisits /\ visits' = visits + 1 /\ tab' = "bank" /\ bankRead' = Unread
        /\ form' = [f \in Fields |-> IF mine # NoProfile /\ f \in Kept \cup Plain
                                THEN mine[f] ELSE Blank]
        /\ unsaved' = IF Quiet /\ mine = PublicOf(row) THEN {Bank} ELSE Fields
        /\ UNCHANGED <<row, mine, puts, changes>>
    BY <1>2 DEF OpenTab
  <2>2. visits' \in 1..MaxVisits /\ visits' > visits /\ visits \in Nat
    BY <1>0, <2>1, FieldsApart DEF ProfileTyped
  <2>3. puts[visits'] = NoPut /\ puts'[visits'] = NoPut
    BY <1>0, <2>1, <2>2 DEF ProfileTyped
  <2>4. form' \in Forms
    <3>1. ASSUME NEW f \in Fields, mine # NoProfile, f \in Kept \cup Plain PROVE mine[f] \in Values
      BY <1>0, <3>1 DEF ProfileTyped, Profiles, Public
    <3> QED BY <2>1, <3>1, FieldsApart DEF Forms
  <2>5. \A v \in 1..MaxVisits : v > visits' => puts'[v] = NoPut
    BY <1>0, <2>1, <2>2 DEF ProfileTyped
  <2>6. unsaved' \subseteq Fields
    BY <2>1, FieldsApart
  <2>7. ProfileTyped'
    BY <1>0, <2>1, <2>2, <2>4, <2>5, <2>6 DEF ProfileTyped
  <2>8. SentAgree' /\ PicturesStay'
    BY <1>0, <2>1 DEF SentAgree, PicturesStay, Agrees
  <2>9. CASE mine = PublicOf(row) /\ unsaved' = {Bank}
    <3>1. ASSUME NEW f \in Public PROVE mine # NoProfile /\ mine[f] = row[f]
      BY <1>0, <2>9, FieldsApart DEF ProfileTyped
    <3>2. ASSUME NEW f \in Fields \ {Bank} PROVE Agrees(form, f)'
      <4>1. f \in Public /\ f \in Fields
        BY <3>2 DEF Fields
      <4>2. CASE f \in Kept \cup Plain
        BY <2>1, <3>1, <4>1, <4>2 DEF Agrees
      <4>3. CASE f \in Pictures
        <5>1. f \notin Kept \cup Plain
          BY <4>3, ProfileAssumption
        <5> QED BY <2>1, <4>1, <4>3, <5>1 DEF Agrees
      <4> QED BY <4>1, <4>2, <4>3 DEF Public
    <3>3. FormAgrees'
      BY <2>3, <2>9, <3>2, FieldsApart DEF FormAgrees
    <3> QED BY <2>1, <2>7, <2>8, <3>1, <3>3 DEF ProfileInv
  <2>10. CASE unsaved' = Fields
    <3>1. FormAgrees'
      BY <2>10 DEF FormAgrees
    <3> QED BY <2>7, <2>8, <2>10, <3>1, FieldsApart DEF ProfileInv
  <2> QED BY <2>1, <2>9, <2>10
<1>3. CASE CloseTab \/ ReadBank \/ BankFails
  <2>1. /\ UNCHANGED <<row, mine, form, puts, unsaved, visits>>
        /\ tab # "closed" /\ tab' \in {"closed", "bank", "filled"}
        /\ bankRead' \in {bankRead, Unread, row[Bank]}
    BY <1>3 DEF CloseTab, ReadBank, BankFails
  <2>0. row[Bank] \in Values
    BY <1>0, FieldsApart DEF ProfileTyped, Forms
  <2>2. ProfileTyped'
    BY <1>0, <2>0, <2>1 DEF ProfileTyped
  <2>3. SentAgree' /\ PicturesStay' /\ FormAgrees'
    BY <1>0, <2>1 DEF SentAgree, PicturesStay, FormAgrees, Agrees
  <2> QED BY <1>0, <2>1, <2>2, <2>3 DEF ProfileInv
<1>4. CASE BankArrives
  <2>1. /\ tab # "closed" /\ tab' = "filled" /\ form' = [form EXCEPT ![Bank] = bankRead]
        /\ unsaved' = IF Quiet /\ bankRead = row[Bank] THEN unsaved \ {Bank} ELSE unsaved \cup {Bank}
        /\ bankRead # Unread
        /\ UNCHANGED <<row, mine, bankRead, puts, visits, changes>>
    BY <1>4 DEF BankArrives
  <2>2. /\ form' \in Forms /\ form'[Bank] = bankRead /\ unsaved' \subseteq Fields
        /\ \A f \in Fields : f # Bank => form'[f] = form[f]
    BY <1>0, <2>1, FieldsApart DEF ProfileTyped, Forms
  <2>3. ProfileTyped'
    BY <1>0, <2>1, <2>2 DEF ProfileTyped
  <2>4. SentAgree' /\ PicturesStay'
    BY <1>0, <2>1 DEF SentAgree, PicturesStay, Agrees
  <2>5. FormAgrees'
    <3> SUFFICES ASSUME visits >= 1, NEW f \in Fields, f \notin unsaved'
                 PROVE  /\ puts[visits].at # "sent" \/ f \notin puts[visits].unsaved => Agrees(form, f)'
                        /\ puts[visits].at = "sent" => form'[f] = puts[visits].body[f]
      BY <2>1 DEF FormAgrees
    <3>1. CASE f = Bank
      <4>1. Quiet /\ bankRead = row[Bank] /\ visits \in 1..MaxVisits
        BY <1>0, <2>1, <3>1, FieldsApart DEF ProfileTyped
      <4>2. puts[visits].at = "none"
        BY <4>1, FieldsApart DEF Quiet
      <4> QED BY <2>1, <2>2, <3>1, <4>1, <4>2 DEF Agrees
    <3>2. CASE f # Bank
      <4>1. f \notin unsaved /\ form'[f] = form[f]
        BY <2>1, <2>2, <3>2
      <4> QED BY <1>0, <2>1, <4>1 DEF FormAgrees, Agrees
    <3> QED BY <3>1, <3>2
  <2>6. Bank \notin Public
    BY ProfileAssumption
  <2>7. tab' # "closed" /\ mine' = NoProfile => Public \subseteq unsaved'
    BY <1>0, <2>1, <2>6
  <2> QED BY <2>3, <2>4, <2>5, <2>7 DEF ProfileInv
<1>5. ASSUME NEW f \in Fields, NEW v \in Values, Edit(f, v) PROVE ProfileInv'
  <2>1. /\ form' = [form EXCEPT ![f] = v] /\ unsaved' = unsaved \cup {f} /\ mine # NoProfile
        /\ UNCHANGED <<row, mine, tab, bankRead, puts, visits>>
    BY <1>5 DEF Edit
  <2>2. form' \in Forms /\ \A g \in Fields : g # f => form'[g] = form[g]
    BY <1>0, <2>1 DEF ProfileTyped, Forms
  <2>3. ProfileTyped'
    BY <1>0, <2>1, <2>2 DEF ProfileTyped
  <2>4. SentAgree' /\ PicturesStay'
    BY <1>0, <2>1 DEF SentAgree, PicturesStay, Agrees
  <2>5. FormAgrees'
    BY <1>0, <2>1, <2>2 DEF FormAgrees, Agrees
  <2> QED BY <2>1, <2>3, <2>4, <2>5 DEF ProfileInv
<1>6. CASE EditText \/ EditBank \/ Pick
  <2>1. \E f \in Fields, v \in Values : Edit(f, v)
    BY <1>6, FieldsApart DEF EditText, EditBank, Pick, Public, Fields, Values
  <2> QED BY <1>5, <2>1

<1>7. CASE BeginPut
  <2> DEFINE b == [at |-> "sent", body |-> form, unsaved |-> unsaved, row |-> NoProfile]
  <2>1. /\ tab # "closed" /\ mine # NoProfile /\ puts[visits] = NoPut
        /\ puts' = [puts EXCEPT ![visits] = b] /\ unsaved' = {}
        /\ UNCHANGED <<row, mine, form, tab, bankRead, visits>>
    BY <1>7 DEF BeginPut
  <2>2. b \in Puts /\ b.at = "sent" /\ b.body = form /\ b.unsaved = unsaved
    BY <1>0 DEF ProfileTyped, Puts
  <2> HIDE DEF b
  <2>3. visits \in 1..MaxVisits /\ visits >= 1
    BY <1>0, <2>1, FieldsApart DEF ProfileTyped
  <2>4. /\ puts' \in [1..MaxVisits -> Puts] /\ puts'[visits] = b
        /\ \A v \in 1..MaxVisits : v # visits => puts'[v] = puts[v]
    BY <1>0, <2>1, <2>2, <2>3 DEF ProfileTyped
  <2>5. \A v \in 1..MaxVisits : v > visits => puts'[v] = NoPut
    <3> SUFFICES ASSUME NEW v \in 1..MaxVisits, v > visits PROVE puts'[v] = NoPut
      OBVIOUS
    <3>1. v # visits
      BY <2>3
    <3> QED BY <1>0, <2>4, <3>1 DEF ProfileTyped
  <2>6. ProfileTyped'
    BY <1>0, <2>1, <2>4, <2>5 DEF ProfileTyped
  <2>7. \A f \in Fields \ unsaved : Agrees(form, f)
    BY <1>0, <2>1, <2>3, FieldsApart DEF FormAgrees
  <2>8. SentAgree'
    <3> SUFFICES ASSUME NEW v \in 1..MaxVisits, puts'[v].at = "sent",
                        NEW f \in Fields, f \notin puts'[v].unsaved
                 PROVE  Agrees(puts[v].body, f)'
      BY DEF SentAgree
    <3>1. CASE v = visits
      BY <2>1, <2>2, <2>4, <2>7, <3>1 DEF Agrees
    <3>2. CASE v # visits
      BY <1>0, <2>1, <2>4, <3>2 DEF SentAgree, Agrees
    <3> QED BY <3>1, <3>2
  <2>9. FormAgrees'
    BY <2>1, <2>2, <2>4, <2>7 DEF FormAgrees, Agrees
  <2>10. PicturesStay'
    <3>1. \A v \in 1..MaxVisits : puts'[v].at = "stored" => puts'[v] = puts[v]
      BY <2>2, <2>4
    <3> QED BY <1>0, <2>1, <3>1 DEF PicturesStay
  <2> QED BY <2>1, <2>6, <2>8, <2>9, <2>10 DEF ProfileInv
<1>8. ASSUME NEW v \in 1..MaxVisits, Store(v) PROVE ProfileInv'
  <2> DEFINE b == puts[v].body
             s == [puts[v] EXCEPT !.at = "stored", !.row = PublicOf(row')]
  <2>1. /\ puts[v].at = "sent"
        /\ row' = [f \in Fields |-> IF f \in Kept \cup Pictures /\ b[f] = Blank
                                      THEN row[f] ELSE b[f]]
        /\ puts' = [w \in 1..MaxVisits |->
                IF w = v THEN s
                ELSE IF puts[w].at = "sent" THEN [puts[w] EXCEPT !.unsaved = Fields]
                ELSE puts[w]]
        /\ unsaved' = IF v = visits THEN unsaved ELSE Fields
        /\ UNCHANGED <<mine, form, tab, bankRead, visits, changes>>
    BY <1>8 DEF Store, Written
  <2>2. b \in Forms /\ puts[v].unsaved \subseteq Fields /\ puts[v] \in Puts /\ v <= visits /\ puts[v] # NoPut
    BY <2>1, PutCases
  <2>3. row' \in Forms
    BY <1>0, <2>1, <2>2 DEF ProfileTyped, Forms
  <2>4. s \in Puts /\ s.at = "stored" /\ \A p \in Public : s.row[p] = row'[p]
    BY <2>1, <2>2, <2>3, FieldsApart DEF Puts
  <2> HIDE DEF s
  <2>5. ASSUME NEW w \in 1..MaxVisits, w # v
        PROVE  /\ puts'[w] \in Puts /\ puts'[w].at = puts[w].at
               /\ puts'[w].at = "sent" => puts'[w].unsaved = Fields
               /\ puts'[w].at # "sent" => puts'[w] = puts[w]
    <3>1. puts[w] \in Puts
      BY PutCases
    <3>2. CASE puts[w].at = "sent"
      <4>1. puts'[w] = [puts[w] EXCEPT !.unsaved = Fields]
        BY <2>1, <2>5, <3>2
      <4> QED BY <3>1, <3>2, <4>1, FieldsApart DEF Puts
    <3>3. CASE puts[w].at # "sent"
      BY <2>1, <2>5, <3>1, <3>3
    <3> QED BY <3>2, <3>3
  <2>6. puts'[v] = s /\ DOMAIN puts' = 1..MaxVisits
    BY <2>1
  <2>7. puts' \in [1..MaxVisits -> Puts]
    BY <2>1, <2>4, <2>5, <2>6
  <2>8. \A w \in 1..MaxVisits : w > visits => puts'[w] = NoPut
    <3> SUFFICES ASSUME NEW w \in 1..MaxVisits, w > visits PROVE puts'[w] = NoPut
      OBVIOUS
    <3>1. puts[w] = NoPut
      BY <1>0 DEF ProfileTyped
    <3> QED BY <2>1, <2>2, <2>5, <3>1, FieldsApart
  <2>9. ProfileTyped'
    BY <1>0, <2>1, <2>3, <2>7, <2>8 DEF ProfileTyped
  <2>10. SentAgree'
    BY <2>4, <2>5, <2>6 DEF SentAgree
  <2>11. FormAgrees'
    <3> SUFFICES ASSUME visits >= 1, NEW f \in Fields, f \notin unsaved'
                 PROVE  /\ puts'[visits].at # "sent" \/ f \notin puts'[visits].unsaved => Agrees(form, f)'
                        /\ puts'[visits].at = "sent" => form[f] = puts'[visits].body[f]
      BY <2>1 DEF FormAgrees
    <3>1. v = visits /\ f \notin unsaved
      BY <2>1
    <3>2. form[f] = b[f]
      BY <1>0, <2>1, <3>1 DEF FormAgrees
    <3>3. Agrees(form, f)'
      BY <2>1, <3>2 DEF Agrees
    <3> QED BY <2>4, <2>6, <3>1, <3>3
  <2>12. \A p \in Pictures : row[p] # Blank => row'[p] # Blank
    BY <2>1, FieldsApart
  <2>13. PicturesStay'
    <3>1. \A p \in Pictures : p \in DOMAIN mine' /\ mine'[p] # Blank => row'[p] # Blank
      BY <1>0, <2>1, <2>12 DEF PicturesStay
    <3>2. ASSUME NEW w \in 1..MaxVisits, puts'[w].at = "stored",
                 NEW p \in Pictures, puts'[w].row[p] # Blank
          PROVE  row'[p] # Blank
      <4>1. CASE w = v
        BY <2>4, <2>6, <3>2, <4>1, FieldsApart
      <4>2. CASE w # v
        <5>1. puts'[w] = puts[w]
          BY <2>5, <3>2, <4>2
        <5> QED BY <1>0, <2>12, <3>2, <5>1 DEF PicturesStay
      <4> QED BY <4>1, <4>2
    <3> QED BY <3>1, <3>2 DEF PicturesStay
  <2> QED BY <1>0, <2>1, <2>9, <2>10, <2>11, <2>13, FieldsApart DEF ProfileInv
<1>9. ASSUME NEW v \in 1..MaxVisits, PutAnswered(v) PROVE ProfileInv'
  <2>1. /\ puts[v].at = "stored" /\ mine' = puts[v].row
        /\ form' = IF v = visits /\ tab # "closed"
                THEN [f \in Fields |-> IF f \in Pictures THEN Blank ELSE form[f]]
                ELSE form
        /\ puts' = [puts EXCEPT ![v] = NoPut]
        /\ UNCHANGED <<row, tab, bankRead, unsaved, visits, changes>>
    BY <1>9 DEF PutAnswered
  <2>2. mine' \in Profiles /\ (mine' = NoProfile => Public = {})
    BY <2>1, PutCases, FieldsApart
  <2>3. form' \in Forms /\ \A f \in Fields : form'[f] = form[f] \/ (f \in Pictures /\ form'[f] = Blank)
    BY <1>0, <2>1, FieldsApart DEF ProfileTyped, Forms
  <2>4. /\ puts' \in [1..MaxVisits -> Puts] /\ puts'[v] = NoPut
        /\ \A w \in 1..MaxVisits : w # v => puts'[w] = puts[w]
    BY <1>0, <2>1, FieldsApart DEF ProfileTyped
  <2>5. ProfileTyped'
    BY <1>0, <2>1, <2>2, <2>3, <2>4 DEF ProfileTyped
  <2>6. \A w \in 1..MaxVisits : puts'[w].at \in {"sent", "stored"} => puts'[w] = puts[w]
    BY <2>4, FieldsApart
  <2>7. SentAgree'
    BY <1>0, <2>1, <2>6 DEF SentAgree, Agrees
  <2>8. PicturesStay'
    BY <1>0, <2>1, <2>6 DEF PicturesStay
  <2>9. FormAgrees'
    <3> SUFFICES ASSUME visits >= 1, NEW f \in Fields, f \notin unsaved
                 PROVE  /\ puts'[visits].at # "sent" \/ f \notin puts'[visits].unsaved => Agrees(form, f)'
                        /\ puts'[visits].at = "sent" => form'[f] = puts'[visits].body[f]
      BY <2>1 DEF FormAgrees
    <3>1. visits \in 1..MaxVisits
      BY <1>0, FieldsApart DEF ProfileTyped
    <3>2. CASE v = visits
      <4>1. Agrees(form, f)
        BY <1>0, <2>1, <3>2 DEF FormAgrees
      <4> QED BY <2>1, <2>3, <2>4, <3>2, <4>1, FieldsApart DEF Agrees
    <3>3. CASE v # visits
      BY <1>0, <2>1, <2>4, <3>1, <3>3 DEF FormAgrees, Agrees
    <3> QED BY <3>2, <3>3
  <2> QED BY <2>2, <2>5, <2>7, <2>8, <2>9 DEF ProfileInv
<1>10. ASSUME NEW v \in 1..MaxVisits, PutFails(v) PROVE ProfileInv'
  <2>1. /\ puts[v] # NoPut /\ puts' = [puts EXCEPT ![v] = NoPut]
        /\ unsaved' = IF v = visits THEN unsaved \cup puts[v].unsaved ELSE unsaved
        /\ UNCHANGED <<row, mine, form, tab, bankRead, visits, changes>>
    BY <1>10 DEF PutFails
  <2>2. puts[v].unsaved \subseteq Fields
    <3>1. puts[v] \in Puts
      BY PutCases
    <3> QED BY <2>1, <3>1 DEF Puts
  <2>4. /\ puts' \in [1..MaxVisits -> Puts] /\ puts'[v] = NoPut
        /\ \A w \in 1..MaxVisits : w # v => puts'[w] = puts[w]
    BY <1>0, <2>1, FieldsApart DEF ProfileTyped
  <2>5. ProfileTyped'
    BY <1>0, <2>1, <2>2, <2>4 DEF ProfileTyped
  <2>6. \A w \in 1..MaxVisits : puts'[w].at \in {"sent", "stored"} => puts'[w] = puts[w]
    BY <2>4, FieldsApart
  <2>7. SentAgree'
    BY <1>0, <2>1, <2>6 DEF SentAgree, Agrees
  <2>8. PicturesStay'
    BY <1>0, <2>1, <2>6 DEF PicturesStay
  <2>9. FormAgrees'
    <3> SUFFICES ASSUME visits >= 1, NEW f \in Fields, f \notin unsaved'
                 PROVE  /\ puts'[visits].at # "sent" \/ f \notin puts'[visits].unsaved => Agrees(form, f)'
                        /\ puts'[visits].at = "sent" => form[f] = puts'[visits].body[f]
      BY <2>1 DEF FormAgrees
    <3>1. visits \in 1..MaxVisits
      BY <1>0, FieldsApart DEF ProfileTyped
    <3>2. CASE v = visits
      <4>1. Agrees(form, f)
        BY <1>0, <2>1, <3>2 DEF FormAgrees
      <4> QED BY <2>1, <2>4, <3>2, <4>1, FieldsApart DEF Agrees
    <3>3. CASE v # visits
      BY <1>0, <2>1, <2>4, <3>1, <3>3 DEF FormAgrees, Agrees
    <3> QED BY <3>2, <3>3
  <2> QED BY <1>0, <2>1, <2>5, <2>7, <2>8, <2>9 DEF ProfileInv
<1>11. CASE UNCHANGED profileVars
  BY <1>0, <1>11 DEF profileVars, ProfileInv, ProfileTyped, SentAgree, FormAgrees, Agrees, PicturesStay
<1> QED
  BY <1>1, <1>2, <1>3, <1>4, <1>6, <1>7, <1>8, <1>9, <1>10, <1>11 DEF ProfileNext

LEMMA ProfileStart == Init => ProfileInv
<1> SUFFICES ASSUME Init PROVE ProfileInv
  OBVIOUS
<1>1. /\ row \in Forms /\ mine = NoProfile /\ form = [f \in Fields |-> Blank] /\ tab = "closed"
      /\ bankRead = Unread
      /\ puts = [v \in 1..MaxVisits |-> NoPut] /\ unsaved = {} /\ visits = 0
  BY DEF Init, ProfileInit, Forms
<1>2. form \in Forms /\ puts \in [1..MaxVisits -> Puts] /\ visits \in 0..MaxVisits
  BY <1>1, FieldsApart DEF Forms
<1>3. ProfileTyped
  BY <1>1, <1>2 DEF ProfileTyped
<1>4. \A v \in 1..MaxVisits : puts[v].at = "none"
  BY <1>1, FieldsApart
<1>5. SentAgree /\ FormAgrees /\ PicturesStay
  BY <1>1, <1>4, FieldsApart DEF SentAgree, FormAgrees, PicturesStay
<1> QED BY <1>1, <1>3, <1>5 DEF ProfileInv

LEMMA ProfileHolds == ProfileInv => PromiseKept
<1> SUFFICES ASSUME ProfileInv, tab # "closed", unsaved \cap Public = {}, puts[visits] = NoPut, Promised,
                    NEW f \in Public
             PROVE  row[f] # Blank
  BY DEF PromiseKept, IsReadyForTips
<1>1. visits >= 1 /\ f \in Fields \ unsaved /\ mine # NoProfile /\ mine \in Profiles
  BY FieldsApart DEF ProfileInv, ProfileTyped
<1>2. Agrees(form, f)
  BY <1>1, FieldsApart DEF ProfileInv, FormAgrees
<1>3. CASE form[f] # Blank
  BY <1>2, <1>3 DEF Agrees
<1>4. CASE form[f] = Blank
  <2>1. f \in Pictures /\ mine[f] # Blank
    BY <1>4 DEF Promised, Public
  <2>2. f \in DOMAIN mine
    BY <1>1, FieldsApart
  <2> QED BY <2>1, <2>2 DEF ProfileInv, PicturesStay
<1> QED BY <1>3, <1>4

(* Nothing but a save changes the row, and it changes what its form was    *)
(* said to differ in.                                                      *)
LEMMA ProfileSaves ==
  ASSUME ProfileInv, [ProfileNext]_profileVars, NEW f \in Fields, row'[f] # row[f]
  PROVE  \E v \in 1..MaxVisits : /\ puts[v].at = "sent" /\ puts'[v].at = "stored"
                                 /\ f \in puts[v].unsaved
<1>1. PICK v \in 1..MaxVisits : Store(v)
  BY DEF ProfileNext, LoadMine, OpenTab, CloseTab, ReadBank, BankArrives, BankFails, EditText, EditBank,
         Pick, Edit, BeginPut, PutAnswered, PutFails, profileVars
<1>2. /\ puts[v].at = "sent"
      /\ row' = [g \in Fields |-> IF g \in Kept \cup Pictures /\ puts[v].body[g] = Blank
                                    THEN row[g] ELSE puts[v].body[g]]
      /\ puts'[v] = [puts[v] EXCEPT !.at = "stored", !.row = PublicOf(row')]
  BY <1>1 DEF Store, Written
<1>3. puts[v] \in Puts
  BY PutCases
<1>4. puts'[v].at = "stored"
  BY <1>2, <1>3, FieldsApart DEF Puts
<1>5. f \in puts[v].unsaved
  <2> SUFFICES ASSUME f \notin puts[v].unsaved PROVE FALSE
    OBVIOUS
  <2>1. Agrees(puts[v].body, f)
    BY <1>2 DEF ProfileInv, SentAgree
  <2> QED BY <1>2, <2>1 DEF Agrees
<1> QED BY <1>2, <1>4, <1>5

(* "100% here means the tip page is live": however often the form was      *)
(* opened, saved, failed to be saved or closed, the checklist of a form    *)
(* with nothing unsaved promises no more than the row holds.               *)
THEOREM PromiseStaysKept == Spec => []PromiseKept
<1>1. ProfileInv /\ [Next]_dashboardVars => ProfileInv'
  BY ProfileStep, StepsOfParts
<1> QED BY <1>1, ProfileHolds, ProfileStart, PTL DEF Spec

(* A save of the whole form changes no field that the creator left alone,  *)
(* unless the form was not filled from the row as it is.                   *)
THEOREM SavesStayOfEdits == Spec => SavesOnlyEdits
<1>1. ProfileInv /\ [Next]_dashboardVars => ProfileInv'
  BY ProfileStep, StepsOfParts
<1>2. ProfileInv /\ [Next]_dashboardVars =>
        [\A f \in Fields : row'[f] # row[f] =>
           \E v \in 1..MaxVisits : /\ puts[v].at = "sent" /\ puts'[v].at = "stored"
                                   /\ f \in puts[v].unsaved]_profileVars
  BY ProfileSaves, StepsOfParts
<1> QED BY <1>1, <1>2, ProfileStart, PTL DEF Spec, SavesOnlyEdits

-----------------------------------------------------------------------------
(***************************************************************************)
(* What the tabs show as under way is under way, and what they say is      *)
(* never ahead of the rows: facts that no run checks.                      *)
(***************************************************************************)

(* A disabled button of the tips' list has its thank-you under way, asked  *)
(* for by this very list, and its tip is not shown as thanked already; and *)
(* no supporter has an email whose tip was not stored as thanked.          *)
BusyIsSending ==
  /\ busyTip # NoTip => /\ \E n \in Under : thanks[n].here /\ thanks[n].tip = busyTip
                        /\ busyTip \notin thanked
  /\ \A t \in Tips : emails[t] > 0 => t \in thankedAt

LEMMA BusyStep == ThankTyped /\ BusyIsSending /\ [ThankNext]_thankVars => BusyIsSending'
<1> SUFFICES ASSUME ThankTyped, BusyIsSending, [ThankNext]_thankVars PROVE BusyIsSending'
  OBVIOUS
<1>0. /\ DOMAIN thanks = Ns /\ emails \in [Tips -> Nat]
      /\ \A n \in Ns : thanks[n] = [tip |-> thanks[n].tip, at |-> thanks[n].at, here |-> thanks[n].here]
  BY DEF ThankTyped
<1>1. ASSUME NEW t \in Tips, Thank(t) PROVE BusyIsSending'
  <2>1. wrote + 1 \in Ns
    BY <1>1, OutreachAssumption DEF Thank, ThankTyped, Ns
  <2>2. /\ busyTip' = t /\ t \notin thanked
        /\ thanks' = [thanks EXCEPT ![wrote + 1] = [tip |-> t, at |-> "sent", here |-> TRUE]]
        /\ UNCHANGED <<thanked, thankedAt, emails>>
    BY <1>1 DEF Thank, CanThank
  <2>3. thanks'[wrote + 1] = [tip |-> t, at |-> "sent", here |-> TRUE]
    BY <1>0, <2>1, <2>2
  <2> QED BY <2>1, <2>2, <2>3 DEF BusyIsSending, Under, Ns
<1>2. ASSUME NEW n \in Ns, StoreThanks(n) PROVE BusyIsSending'
  <2>1. /\ thanks[n].at = "sent" /\ thanks' = [thanks EXCEPT ![n].at = "stored"]
        /\ thankedAt' = thankedAt \cup {thanks[n].tip}
        /\ UNCHANGED <<thanked, busyTip>>
    BY <1>2 DEF StoreThanks, SendThanks
  <2>2. \A m \in Ns : /\ thanks'[m].tip = thanks[m].tip /\ thanks'[m].here = thanks[m].here
                      /\ m \in Under => thanks'[m].at \in {"sent", "stored"}
    BY <1>0, <2>1 DEF Under
  <2>3. \A t \in Tips : t # thanks[n].tip => emails'[t] = emails[t]
    BY <1>0, <1>2 DEF StoreThanks, SendThanks
  <2> QED BY <2>1, <2>2, <2>3 DEF BusyIsSending, Under, Ns
<1>3. ASSUME NEW n \in Ns, NEW done, Heard(n, done) PROVE BusyIsSending'
  <2>1. /\ thanks' = [thanks EXCEPT ![n].at = "done"]
        /\ thanked' = IF thanks[n].here THEN thanked \cup done ELSE thanked
        /\ busyTip' = IF thanks[n].here THEN NoTip ELSE busyTip
        /\ UNCHANGED <<thankedAt, emails>>
    BY <1>3 DEF Heard
  <2>2. \A m \in Ns : m # n => thanks'[m] = thanks[m]
    BY <1>0, <2>1
  <2> QED BY <2>1, <2>2 DEF BusyIsSending, Under, Ns
<1>4. ASSUME NEW n \in Ns, ThankAnswered(n) \/ ThankFails(n) PROVE BusyIsSending'
  BY <1>3, <1>4 DEF ThankAnswered, ThankFails
<1>5. CASE Relist
  BY <1>5 DEF Relist, BusyIsSending
<1>6. CASE UNCHANGED thankVars
  BY <1>6 DEF thankVars, BusyIsSending, Under
<1> QED BY <1>1, <1>2, <1>4, <1>5, <1>6 DEF ThankNext, Ns

(* No button of the tips' list stays disabled when its thank-you ended.    *)
THEOREM BusyStaysSending == Spec => []BusyIsSending
<1>1. Init => ThankInv /\ BusyIsSending
  BY ThankStart DEF Init, ThankInit, BusyIsSending
<1>2. ThankInv /\ BusyIsSending /\ [Next]_dashboardVars => ThankInv' /\ BusyIsSending'
  BY ThankStep, BusyStep, StepsOfParts DEF ThankInv
<1> HIDE DEF ThankInv, BusyIsSending
<1> QED BY <1>1, <1>2, PTL DEF Spec
-----------------------------------------------------------------------------
(* What the tab lists was a jar with the goal it shows, and is one still   *)
(* unless it was deleted since; only such a jar is asked to be deleted.    *)
ListedIn(f, js) == \A j \in DOMAIN f : j \in JarIds /\ js[j] \in {f[j], Gone}

ListedAreJars ==
  /\ ListedIn(shownJars, jars)
  /\ \A j \in JarIds : deleting[j] > 0 => jars[j] \in {0, Goal, Gone}

ListedInv == /\ JarsInv /\ ListedAreJars
             /\ \A i \in DOMAIN loads : ListedIn(loads[i].js, jars)
             /\ deleting \in [JarIds -> Int]

(* A jar lives once: it is made with a goal or without, keeps that, and    *)
(* when it is gone it does not come back.                                  *)
JarLife ==
  \A j \in JarIds : jars'[j] # jars[j] =>
    \/ jars[j] = Unmade /\ jars'[j] \in {0, Goal}
    \/ jars[j] \in {0, Goal} /\ jars'[j] = Gone

LEMMA JarsDiffer == Goal \in Nat \ {0} /\ Unmade \notin {0, Goal, Gone} /\ Gone \notin {0, Goal}
  BY JarsAssumption DEF Unmade, Gone

LEMMA JarsLive ==
  ASSUME ListedInv, [JarsNext]_jarVars
  PROVE  JarLife
<1>1. jars \in [JarIds -> {0, Goal, Unmade, Gone}]
  BY DEF ListedInv, JarsInv, JarsTyped
<1>2. ASSUME NEW j \in JarIds, NEW g \in {0, Goal}, CreateJar(j, g) PROVE JarLife
  BY <1>1, <1>2 DEF CreateJar, JarLife
<1>3. ASSUME NEW j \in JarIds, DeleteJar(j) PROVE JarLife
  <2>1. jars[j] \in {0, Goal, Gone} /\ jars' \in {jars, [jars EXCEPT ![j] = Gone]}
    BY <1>3 DEF DeleteJar, ListedInv, ListedAreJars
  <2> QED BY <1>1, <2>1 DEF JarLife
<1>4. CASE UNCHANGED jars
  BY <1>4 DEF JarLife
<1> QED BY <1>2, <1>3, <1>4
        DEF JarsNext, ServeList, ShowJars, ListFails, ServeSums, ShowSums, Loading, TipIntoJar,
            PressCreate, CreateFails, PressDelete, jarVars

(* A list that was true stays true but for deletions.                      *)
LEMMA ListedStays ==
  ASSUME JarLife, NEW f \in Partial({0, Goal}), ListedIn(f, jars)
  PROVE  ListedIn(f, jars')
<1>1. \A j \in DOMAIN f : f[j] \in {0, Goal}
  BY DEF Partial
<1> SUFFICES ASSUME NEW j \in DOMAIN f, jars'[j] # jars[j] PROVE j \in JarIds /\ jars'[j] = Gone
  BY DEF ListedIn
<1>2. j \in JarIds /\ jars[j] \in {f[j], Gone}
  BY DEF ListedIn
<1> QED BY <1>1, <1>2, JarsDiffer DEF JarLife

LEMMA ListedStep == ListedInv /\ [JarsNext]_jarVars => ListedInv'
<1> SUFFICES ASSUME ListedInv, [JarsNext]_jarVars PROVE ListedInv'
  OBVIOUS
<1>0. /\ JarLife /\ JarsInv /\ JarsInv' /\ deleting \in [JarIds -> Int]
      /\ jars \in [JarIds -> {0, Goal, Unmade, Gone}]
      /\ loads \in Seq(JarLoads) /\ loads' \in Seq(JarLoads)
      /\ shownJars' \in Partial({0, Goal})
  BY JarsStep, JarsLive DEF ListedInv, JarsInv, JarsTyped
<1>1. /\ \A i \in DOMAIN loads : loads[i] \in JarLoads
      /\ \A i \in DOMAIN loads' : loads'[i].js \in Partial({0, Goal})
  <2>1. \A i \in DOMAIN loads' : loads'[i] \in JarLoads
    BY <1>0
  <2>2. \A i \in DOMAIN loads : loads[i] \in JarLoads
    BY <1>0
  <2>3. \A l \in JarLoads : l.js \in Partial({0, Goal})
    BY DEF JarLoads
  <2> QED BY <2>1, <2>2, <2>3
<1>2. ListedIn(shownJars, jars) /\ \A i \in DOMAIN loads : ListedIn(loads[i].js, jars)
  BY DEF ListedInv, ListedAreJars
<1>3. ASSUME ListedIn(shownJars', jars),
             \A i \in DOMAIN loads' : ListedIn(loads'[i].js, jars),
             deleting' \in [JarIds -> Int],
             \A j \in JarIds : deleting'[j] > 0 => deleting[j] > 0 \/ jars[j] \in {0, Goal, Gone}
      PROVE  ListedInv'
  <2>1. ListedIn(shownJars', jars')
    BY <1>0, <1>3, ListedStays
  <2>2. \A i \in DOMAIN loads' : ListedIn(loads'[i].js, jars')
    BY <1>0, <1>1, <1>3, ListedStays
  <2>3. ASSUME NEW j \in JarIds, deleting'[j] > 0 PROVE jars'[j] \in {0, Goal, Gone}
    <3>1. jars[j] \in {0, Goal, Gone}
      BY <1>3, <2>3 DEF ListedInv, ListedAreJars
    <3> QED BY <1>0, <3>1, JarsDiffer DEF JarLife
  <2> QED BY <1>0, <1>3, <2>1, <2>2, <2>3 DEF ListedInv, ListedAreJars
<1>4. ASSUME UNCHANGED <<shownJars, loads>>, deleting' \in [JarIds -> Int],
             \A j \in JarIds : deleting'[j] > 0 => deleting[j] > 0 \/ jars[j] \in {0, Goal, Gone}
      PROVE  ListedInv'
  BY <1>2, <1>3, <1>4
<1>5. ASSUME NEW i \in DOMAIN loads, UNCHANGED deleting,
             DOMAIN loads' = DOMAIN loads,
             \A k \in DOMAIN loads : k # i => loads'[k] = loads[k],
             ListedIn(loads'[i].js, jars),
             shownJars' \in {shownJars, loads[i].js, NoStats}
      PROVE  ListedInv'
  <2>1. ListedIn(shownJars', jars)
    BY <1>2, <1>5, NothingYet DEF ListedIn
  <2>2. \A k \in DOMAIN loads' : ListedIn(loads'[k].js, jars)
    BY <1>2, <1>5
  <2> QED BY <1>0, <1>3, <1>5, <2>1, <2>2
<1>6. ASSUME NEW i \in DOMAIN loads, ServeList(i) PROVE ListedInv'
  <2>1. /\ loads' = [loads EXCEPT ![i].at = "served", ![i].js = OfNow]
        /\ UNCHANGED <<shownJars, deleting>>
    BY <1>6 DEF ServeList, Loading, OfNow
  <2>2. loads'[i].js = OfNow
    BY <1>1, <2>1 DEF JarLoads
  <2>3. ListedIn(OfNow, jars)
    BY DEF ListedIn, OfNow, Rows
  <2> QED BY <1>5, <2>1, <2>2, <2>3
<1>7. ASSUME NEW i \in DOMAIN loads, NEW z, loads' = [loads EXCEPT ![i].at = z],
             UNCHANGED deleting, shownJars' \in {shownJars, loads[i].js, NoStats}
      PROVE  ListedInv'
  <2>1. loads'[i].js = loads[i].js
    BY <1>1, <1>7 DEF JarLoads
  <2> QED BY <1>2, <1>5, <1>7, <2>1
<1>8. ASSUME NEW i \in DOMAIN loads, ShowJars(i) \/ ListFails(i) \/ ShowSums(i) PROVE ListedInv'
  BY <1>7, <1>8 DEF ShowJars, ListFails, ShowSums, Loading
<1>9. ASSUME NEW i \in DOMAIN loads, ServeSums(i) PROVE ListedInv'
  <2>1. PICK sums : loads' = [loads EXCEPT ![i].at = "summed", ![i].sums = sums]
    BY <1>9 DEF ServeSums
  <2>2. loads'[i].js = loads[i].js /\ UNCHANGED <<shownJars, deleting>>
    BY <1>1, <1>9, <2>1 DEF JarLoads, ServeSums, Loading
  <2> QED BY <1>2, <1>5, <2>1, <2>2
<1>10. ASSUME UNCHANGED shownJars, loads' \in {loads, Append(loads, NewLoad)},
              deleting' \in [JarIds -> Int],
              \A j \in JarIds : deleting'[j] > 0 => deleting[j] > 0
       PROVE  ListedInv'
  <2>1. CASE loads' = Append(loads, NewLoad)
    <3>1. NewLoad \in JarLoads /\ ListedIn(NewLoad.js, jars)
      BY NothingYet DEF NewLoad, ListedIn
    <3>2. /\ DOMAIN loads = 1..Len(loads) /\ DOMAIN loads' = 1..Len(loads) + 1
          /\ \A k \in DOMAIN loads : loads'[k] = loads[k]
          /\ loads'[Len(loads) + 1] = NewLoad /\ Len(loads) \in Nat
      BY <1>0, <2>1, <3>1, AppendProperties, LenProperties
    <3>3. \A k \in DOMAIN loads' : k \in DOMAIN loads \/ k = Len(loads) + 1
      BY <3>2
    <3>4. \A k \in DOMAIN loads' : ListedIn(loads'[k].js, jars)
      BY <1>2, <3>1, <3>2, <3>3
    <3> QED BY <1>2, <1>3, <1>10, <3>4
  <2>2. CASE loads' = loads
    BY <1>4, <1>10, <2>2
  <2> QED BY <1>10, <2>1, <2>2
<1>11. ASSUME NEW j \in JarIds, NEW g \in {0, Goal}, CreateJar(j, g) PROVE ListedInv'
  BY <1>0, <1>10, <1>11 DEF CreateJar, Asked, Begun, Unshown
<1>12. ASSUME NEW j \in JarIds, DeleteJar(j) PROVE ListedInv'
  <2>1. deleting' = [deleting EXCEPT ![j] = @ - 1]
    BY <1>12 DEF DeleteJar
  <2>2. deleting' \in [JarIds -> Int] /\ \A k \in JarIds : deleting'[k] > 0 => deleting[k] > 0
    BY <1>0, <2>1
  <2> QED BY <1>10, <1>12, <2>2 DEF DeleteJar, Asked, Begun, Unshown
<1>13. ASSUME NEW j \in JarIds, PressDelete(j) PROVE ListedInv'
  <2>1. /\ deleting' = [deleting EXCEPT ![j] = @ + 1] /\ j \in DOMAIN shownJars
        /\ UNCHANGED <<shownJars, loads>>
    BY <1>13 DEF PressDelete, Unshown
  <2>2. shownJars[j] \in {0, Goal}
    BY <2>1 DEF ListedInv, JarsInv, JarsTyped, Partial
  <2>3. jars[j] \in {0, Goal, Gone}
    BY <1>2, <2>1, <2>2 DEF ListedIn
  <2>4. /\ deleting' \in [JarIds -> Int]
        /\ \A k \in JarIds : k # j => deleting'[k] = deleting[k]
    BY <1>0, <2>1
  <2> QED BY <1>4, <2>1, <2>3, <2>4
<1>14. CASE PressCreate \/ CreateFails \/ (\E j \in JarIds : TipIntoJar(j)) \/ UNCHANGED jarVars
  BY <1>0, <1>4, <1>14 DEF PressCreate, CreateFails, TipIntoJar, Unshown, jarVars
<1>15. \A i \in 1..Len(loads) : i \in DOMAIN loads
  BY <1>0, LenProperties
<1> QED BY <1>6, <1>8, <1>9, <1>11, <1>12, <1>13, <1>14, <1>15 DEF JarsNext

LEMMA ListedStart == Init => ListedInv
<1> SUFFICES ASSUME Init PROVE ListedInv
  OBVIOUS
<1>1. /\ shownJars = NoStats /\ loads = <<NewLoad>> /\ deleting = [j \in JarIds |-> 0]
  BY DEF Init, JarsInit
<1>2. DOMAIN loads = {1} /\ loads[1] = NewLoad
  BY <1>1
<1>3. ListedIn(shownJars, jars) /\ ListedIn(NewLoad.js, jars)
  BY <1>1, NothingYet DEF NewLoad, ListedIn
<1> QED BY <1>1, <1>2, <1>3, JarsStart DEF ListedInv, ListedAreJars

(* Whatever loads overlap, the tab lists no jar that never was, and none   *)
(* with another goal than its own.                                         *)
THEOREM ListedStayJars == Spec => []ListedAreJars
<1>1. ListedInv /\ [Next]_dashboardVars => ListedInv'
  BY ListedStep, StepsOfParts
<1>2. ListedInv => ListedAreJars
  BY DEF ListedInv
<1> QED BY <1>1, <1>2, ListedStart, PTL DEF Spec

(* No late or repeated deletion takes a jar that was not made yet, and no  *)
(* creation brings one back.                                               *)
THEOREM JarsLiveOnce == Spec => [][JarLife]_jarVars
<1>1. ListedInv /\ [Next]_dashboardVars => ListedInv' /\ [JarLife]_jarVars
  BY ListedStep, JarsLive, StepsOfParts
<1> HIDE DEF ListedInv, JarLife
<1> QED BY <1>1, ListedStart, PTL DEF Spec
================================================================================
