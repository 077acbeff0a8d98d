----------------------------- MODULE StudioProofs -----------------------------
(***************************************************************************)
(* Proofs about module Studio, for any elements, looks and designs, any    *)
(* cap, and visits of any length.                                          *)
(***************************************************************************)
EXTENDS Studio, SequenceTheorems, TLAPS

(* Every canvas of a history stems from the n-th canvas opened.            *)
AllFrom(s, n) == \A i \in 1..Len(s) : s[i].from = n

(* Drawing changes how a canvas looks and nothing else that is told apart. *)
LEMMA LookOfCanvas ==
  ASSUME NEW c \in Canvas, NEW l \in Looks
  PROVE  /\ [c EXCEPT !.look = l] \in Canvas
         /\ [c EXCEPT !.look = l].els = c.els
         /\ [c EXCEPT !.look = l].from = c.from
BY DEF Canvas

LEMMA ElsOfCanvas ==
  ASSUME NEW c \in Canvas, NEW s \in SUBSET Elements
  PROVE  /\ [c EXCEPT !.els = s] \in Canvas
         /\ [c EXCEPT !.els = s].els = s
         /\ [c EXCEPT !.els = s].from = c.from
BY DEF Canvas

LEMMA FromOfCanvas ==
  ASSUME NEW c \in Canvas, NEW n \in 0..MaxOpens
  PROVE  /\ [c EXCEPT !.from = n] \in Canvas
         /\ [c EXCEPT !.from = n].from = n
BY DEF Canvas

LEMMA DefaultIsCanvas ==
  /\ Default \in Canvas /\ Default.from = 0
  /\ Templates \subseteq Canvas
<1>1. Default \in Canvas /\ Default.from = 0
  BY StudioAssumption DEF Default, Canvas
<1> QED BY <1>1, LookOfCanvas DEF Templates

LEMMA AppendedFrom ==
  ASSUME NEW s \in Seq(Canvas), NEW d \in Canvas, NEW n,
         AllFrom(s, n), d.from = n
  PROVE  AllFrom(Append(s, d), n)
BY AppendProperties DEF AllFrom

LEMMA FirstOfHistory ==
  ASSUME NEW s, NEW m \in Nat, \A i \in 1..m : s[i] \in Canvas
  PROVE  /\ SubSeq(s, 1, m) \in Seq(Canvas)
         /\ Len(SubSeq(s, 1, m)) = m
         /\ \A i \in 1..m : SubSeq(s, 1, m)[i] = s[i]
<1> DEFINE t == SubSeq(s, 1, m)
<1>1. 1 \in Int /\ m \in Int /\ m - 1 + 1 = m
  OBVIOUS
<1>2. /\ t \in Seq(Canvas)
      /\ Len(t) = IF 1 <= m THEN m - 1 + 1 ELSE 0
      /\ \A i \in 1..(m - 1 + 1) : t[i] = s[1 + i - 1]
  BY <1>1, SubSeqProperties
<1> HIDE DEF t
<1>3. Len(t) = m
  BY <1>2
<1>4. \A i \in 1..m : t[i] = s[1 + i - 1] /\ 1 + i - 1 = i
  BY <1>2
<1>5. \A i \in 1..m : t[i] = s[i]
  BY <1>4
<1> QED BY <1>2, <1>3, <1>5 DEF t

(* The last entry leaves one history for the other or for the canvas.      *)
LEMMA CutHistory ==
  ASSUME NEW s \in Seq(Canvas), s # <<>>
  PROVE  /\ SubSeq(s, 1, Len(s) - 1) \in Seq(Canvas)
         /\ Len(SubSeq(s, 1, Len(s) - 1)) = Len(s) - 1
         /\ \A i \in 1..Len(s) - 1 : SubSeq(s, 1, Len(s) - 1)[i] = s[i]
         /\ s[Len(s)] \in Canvas
         /\ Len(s) \in Nat \ {0}
<1>1. Len(s) \in Nat \ {0}
  BY EmptySeq
<1>2. \A i \in 1..Len(s) : s[i] \in Canvas
  BY ElementOfSeq
<1>3. Len(s) - 1 \in Nat /\ \A i \in 1..Len(s) - 1 : s[i] \in Canvas
  BY <1>1, <1>2
<1>4. s[Len(s)] \in Canvas
  BY <1>1, <1>2
<1> QED BY <1>1, <1>3, <1>4, FirstOfHistory

LEMMA CutFrom ==
  ASSUME NEW s \in Seq(Canvas), s # <<>>, NEW n, AllFrom(s, n)
  PROVE  /\ AllFrom(SubSeq(s, 1, Len(s) - 1), n)
         /\ AllFrom(Tail(s), n)
         /\ s[Len(s)].from = n
<1>1. /\ Len(Tail(s)) = Len(s) - 1
      /\ \A i \in 1..Len(Tail(s)) : Tail(s)[i] = s[i + 1]
  BY HeadTailProperties
<1> QED BY <1>1, CutHistory DEF AllFrom

(* What undo and redo keep: a bounded history of one canvas.               *)
HistoryKept == /\ past' \in Seq(Canvas) /\ future' \in Seq(Canvas)
               /\ fresh' \in BOOLEAN
               /\ HistoryBounded => HistoryBounded'

LEMMA CommitEffect ==
  ASSUME TypeOK, NEW d \in Canvas, Commit(d)
  PROVE  /\ HistoryKept
         /\ \A n : AllFrom(past, n) /\ d.from = n =>
                     AllFrom(past', n) /\ AllFrom(future', n)
<1>1. past \in Seq(Canvas) /\ Len(past) \in Nat /\ Len(future) \in Nat
  BY LenProperties DEF TypeOK
<1>2. future' = <<>> /\ fresh' = TRUE /\ Len(future') = 0 /\ future' \in Seq(Canvas)
  BY DEF Commit
<1>3. /\ Append(past, d) \in Seq(Canvas) /\ Append(past, d) # <<>>
      /\ Len(Append(past, d)) = Len(past) + 1
  BY <1>1, AppendProperties
<1>4. /\ Tail(Append(past, d)) \in Seq(Canvas)
      /\ Len(Tail(Append(past, d))) = Len(past)
  BY <1>1, <1>3, HeadTailProperties
<1>5. past' \in Seq(Canvas) /\ (Len(past) <= Cap => Len(past') <= Cap)
  BY <1>1, <1>3, <1>4, StudioAssumption DEF Commit
<1>6. HistoryKept
  <2>1. Len(past') \in Nat
    BY <1>5, LenProperties
  <2> QED BY <1>1, <1>2, <1>5, <2>1, StudioAssumption DEF HistoryKept, HistoryBounded
<1>7. ASSUME NEW n, AllFrom(past, n), d.from = n
      PROVE  AllFrom(past', n) /\ AllFrom(future', n)
  <2>1. AllFrom(Append(past, d), n)
    BY <1>1, <1>7, AppendedFrom
  <2>2. AllFrom(Tail(Append(past, d)), n)
    BY <1>3, <2>1, CutFrom
  <2> QED BY <1>2, <2>1, <2>2 DEF Commit, AllFrom
<1> QED BY <1>6, <1>7
-----------------------------------------------------------------------------
(***************************************************************************)
(* Drawing, undoing and dropping in pictures: whatever the step, it leaves *)
(* the designs and what waits for them alone.                              *)
(***************************************************************************)

(* Everything to undo, redo and drop in stems from the n-th canvas.        *)
Stems(n) == /\ doc.from = n
            /\ AllFrom(past, n) /\ AllFrom(future, n)
            /\ picture # None => picture.from = n

Drawn == /\ UNCHANGED <<identity, stored, save, removing, lists, raced, behind>>
         /\ doc' \in Canvas
         /\ selected' \in Elements \cup {None}
         /\ gesture' \in Elements \cup {None}
         /\ picture' \in Canvas \cup {None}
         /\ left' \in [edits : Nat, saves : Nat, removals : Nat]
         /\ HistoryKept
         /\ \A n : Stems(n) => Stems(n)'
         /\ SelectionLives => SelectionLives'

LEMMA EditedEffect ==
  ASSUME TypeOK, Edited
  PROVE  /\ UNCHANGED <<identity, stored, save, removing, lists, raced, behind>>
         /\ left' \in [edits : Nat, saves : Nat, removals : Nat]
BY DEF TypeOK, Edited

(* A commit of the canvas, with the selection and the pointer aside.       *)
LEMMA CommittedIsDrawn ==
  ASSUME TypeOK, Edited, NEW d, d = doc \/ (d = picture /\ d # None), Commit(d),
         doc' \in Canvas, doc'.from = doc.from,
         selected' \in Elements \cup {None},
         gesture' \in Elements \cup {None},
         picture' \in {picture, None},
         SelectionLives => SelectionLives'
  PROVE  Drawn
<1>1. d \in Canvas
  BY DEF TypeOK
<1>2. HistoryKept
  BY <1>1, CommitEffect
<1>3. ASSUME NEW n, Stems(n) PROVE Stems(n)'
  <2>1. d.from = n
    BY <1>3 DEF Stems
  <2>2. AllFrom(past', n) /\ AllFrom(future', n)
    BY <1>1, <1>3, <2>1, CommitEffect DEF Stems
  <2> QED BY <1>3, <2>2 DEF Stems
<1> QED BY <1>2, <1>3, EditedEffect DEF Drawn, TypeOK

LEMMA UncommittedIsDrawn ==
  ASSUME TypeOK, UNCHANGED <<identity, stored, save, removing, lists, raced, behind>>,
         left' \in [edits : Nat, saves : Nat, removals : Nat],
         UNCHANGED <<past, future>>, fresh' \in BOOLEAN,
         doc' \in Canvas, doc'.from = doc.from,
         selected' \in Elements \cup {None},
         gesture' \in Elements \cup {None},
         picture' \in Canvas \cup {None},
         picture' \in {picture, doc, None},
         SelectionLives => SelectionLives'
  PROVE  Drawn
<1>1. HistoryKept
  BY DEF HistoryKept, HistoryBounded, TypeOK
<1>2. ASSUME NEW n, Stems(n) PROVE Stems(n)'
  BY <1>2 DEF Stems
<1> QED BY <1>1, <1>2 DEF Drawn

LEMMA LooksOf ==
  ASSUME NEW c \in Canvas
  PROVE  \A t \in {[c EXCEPT !.look = l] : l \in Looks} :
           t \in Canvas /\ t.els = c.els /\ t.from = c.from
BY LookOfCanvas

(* What every drawing step starts from.                                    *)
LEMMA CanvasTypes ==
  ASSUME TypeOK
  PROVE  /\ doc \in Canvas /\ doc.els \subseteq Elements
         /\ selected \in Elements \cup {None} /\ gesture \in Elements \cup {None}
         /\ past \in Seq(Canvas) /\ future \in Seq(Canvas) /\ fresh \in BOOLEAN
         /\ picture \in Canvas \cup {None}
         /\ left \in [edits : Nat, saves : Nat, removals : Nat]
         /\ None \notin Elements
BY StudioAssumption DEF TypeOK, Canvas

LEMMA AddElIsDrawn ==
  ASSUME TypeOK, Edited, NEW e \in Elements,
         NEW d, d = doc \/ (d = picture /\ d # None),
         AddEl(e, d), UNCHANGED gesture, picture' \in {picture, None}
  PROVE  Drawn
<1>1. doc.els \cup {e} \in SUBSET Elements
  BY CanvasTypes
<1>2. doc' \in Canvas /\ doc'.from = doc.from /\ doc'.els = doc.els \cup {e}
  BY <1>1, CanvasTypes, ElsOfCanvas DEF AddEl
<1>3. SelectionLives'
  BY <1>2 DEF AddEl, SelectionLives
<1> QED BY <1>2, <1>3, CanvasTypes, CommittedIsDrawn DEF AddEl

LEMMA UndoIsDrawn ==
  ASSUME TypeOK, Undo \/ Redo
  PROVE  Drawn
<1>0. /\ doc \in Canvas /\ doc.els \subseteq Elements
      /\ selected \in Elements \cup {None} /\ gesture \in Elements \cup {None}
      /\ past \in Seq(Canvas) /\ future \in Seq(Canvas) /\ fresh \in BOOLEAN
      /\ picture \in Canvas \cup {None}
      /\ left \in [edits : Nat, saves : Nat, removals : Nat]
      /\ None \notin Elements
  BY CanvasTypes
<1> USE <1>0
<1>1. Len(past) \in Nat /\ Len(future) \in Nat
  BY LenProperties
<1>2. CASE Undo
  <2>1. /\ past # <<>> /\ doc' = past[Len(past)]
        /\ past' = SubSeq(past, 1, Len(past) - 1)
        /\ future' = Append(future, doc)
    BY <1>2 DEF Undo
  <2>2. /\ past' \in Seq(Canvas) /\ Len(past') = Len(past) - 1 /\ doc' \in Canvas
        /\ future' \in Seq(Canvas) /\ Len(future') = Len(future) + 1
    BY <2>1, CutHistory, AppendProperties
  <2>3. HistoryKept
    <3>1. fresh' \in BOOLEAN
      BY <1>2 DEF Undo
    <3>2. Len(past') + Len(future') = Len(past) + Len(future)
      BY <1>1, <2>2
    <3> QED BY <2>2, <3>1, <3>2 DEF HistoryKept, HistoryBounded
  <2>4. ASSUME NEW n, Stems(n) PROVE Stems(n)'
    BY <1>2, <2>1, <2>4, CutFrom, AppendedFrom DEF Stems, Undo, waits
  <2> QED BY <1>2, <2>2, <2>3, <2>4 DEF Undo, Drawn, SelectionLives, waits, history
<1>3. CASE Redo
  <2>1. /\ future # <<>> /\ doc' = future[Len(future)]
        /\ future' = SubSeq(future, 1, Len(future) - 1)
        /\ past' = Append(past, doc)
    BY <1>3 DEF Redo
  <2>2. /\ future' \in Seq(Canvas) /\ Len(future') = Len(future) - 1 /\ doc' \in Canvas
        /\ past' \in Seq(Canvas) /\ Len(past') = Len(past) + 1
    BY <2>1, CutHistory, AppendProperties
  <2>3. HistoryKept
    <3>1. fresh' \in BOOLEAN
      BY <1>3 DEF Redo
    <3>2. Len(past') + Len(future') = Len(past) + Len(future)
      BY <1>1, <2>2
    <3> QED BY <2>2, <3>1, <3>2 DEF HistoryKept, HistoryBounded
  <2>4. ASSUME NEW n, Stems(n) PROVE Stems(n)'
    BY <1>3, <2>1, <2>4, CutFrom, AppendedFrom DEF Stems, Redo, waits
  <2> QED BY <1>3, <2>2, <2>3, <2>4 DEF Redo, Drawn, SelectionLives, waits, history
<1> QED BY <1>2, <1>3

LEMMA DrawStep ==
  ASSUME TypeOK, Pause \/ Keyboard \/ Pointer \/ Panels \/ Pictures
  PROVE  Drawn
<1>0. /\ doc \in Canvas /\ doc.els \subseteq Elements
      /\ selected \in Elements \cup {None} /\ gesture \in Elements \cup {None}
      /\ past \in Seq(Canvas) /\ future \in Seq(Canvas) /\ fresh \in BOOLEAN
      /\ picture \in Canvas \cup {None}
      /\ left \in [edits : Nat, saves : Nat, removals : Nat]
      /\ None \notin Elements
  BY CanvasTypes
<1> USE <1>0
<1>1. \A t \in {[doc EXCEPT !.look = l] : l \in Looks} \cup {doc} :
        t \in Canvas /\ t.els = doc.els /\ t.from = doc.from
  BY LooksOf
<1>2. CASE Pause
  BY <1>2, UncommittedIsDrawn
     DEF Pause, canvas, waits, history, SelectionLives
<1>3. CASE Undo \/ Redo
  BY <1>3, UndoIsDrawn
<1>4. CASE Remove
  <2>1. doc.els \ {selected} \in SUBSET Elements
    OBVIOUS
  <2>2. doc' \in Canvas /\ doc'.from = doc.from
    BY <1>4, <2>1, ElsOfCanvas DEF Remove
  <2>3. SelectionLives'
    BY <1>4 DEF Remove, SelectionLives
  <2> QED BY <1>4, <2>2, <2>3, CommittedIsDrawn DEF Remove
<1>5. CASE Arrange
  BY <1>1, <1>5, CommittedIsDrawn DEF Arrange, SelectionLives
<1>6. CASE Patch
  BY <1>1, <1>6, EditedEffect, UncommittedIsDrawn DEF Patch, undoing, SelectionLives
<1>7. ASSUME NEW e \in Elements, Insert(e) \/ Duplicate(e) PROVE Drawn
  BY <1>7, AddElIsDrawn DEF Insert, Duplicate
<1>8. CASE SetBg
  <2>1. doc' \in Canvas /\ doc'.from = doc.from /\ (SelectionLives => SelectionLives')
    BY <1>1, <1>8 DEF SetBg, SelectionLives
  <2>2. CASE Commit(doc)
    BY <1>8, <2>1, <2>2, CommittedIsDrawn DEF SetBg
  <2>3. CASE UNCHANGED undoing
    BY <1>8, <2>1, <2>3, EditedEffect, UncommittedIsDrawn DEF SetBg, undoing
  <2> QED BY <1>8, <2>2, <2>3 DEF SetBg, CommitSometimes
<1>9. ASSUME NEW e \in Elements, Layer(e) PROVE Drawn
  <2>1. CASE selected' = e /\ UNCHANGED <<doc, undoing>>
    BY <1>9, <2>1, EditedEffect, UncommittedIsDrawn
       DEF Layer, undoing, SelectionLives
  <2>2. CASE /\ Commit(doc)
             /\ doc' \in {[doc EXCEPT !.look = l] : l \in Looks}
             /\ UNCHANGED selected
    BY <1>1, <1>9, <2>2, CommittedIsDrawn DEF Layer, SelectionLives
  <2> QED BY <1>9, <2>1, <2>2 DEF Layer
<1>10. CASE Resize
  BY <1>1, <1>10, CommittedIsDrawn DEF Resize, SelectionLives
<1>11. ASSUME NEW e \in Elements, Press(e) PROVE Drawn
  <2>1. CASE gesture' = e /\ Commit(doc)
    BY <1>11, <2>1, CommittedIsDrawn DEF Press, OnStage, SelectionLives
  <2>2. CASE UNCHANGED <<gesture, undoing>>
    BY <1>11, <2>2, EditedEffect, UncommittedIsDrawn
       DEF Press, OnStage, undoing, SelectionLives
  <2> QED BY <1>11, <2>1, <2>2 DEF Press
<1>12. CASE PressHandle
  BY <1>12, CommittedIsDrawn DEF PressHandle, OnStage, SelectionLives
<1>13. CASE Unselect \/ Release
  BY <1>13, UncommittedIsDrawn
     DEF Unselect, Release, undoing, waits, history, SelectionLives
<1>14. CASE Move
  BY <1>1, <1>14, EditedEffect, UncommittedIsDrawn DEF Move, undoing, SelectionLives
<1>15. CASE PickPicture \/ PictureFails
  BY <1>15, UncommittedIsDrawn
     DEF PickPicture, PictureFails, canvas, undoing, history, SelectionLives
<1>16. ASSUME NEW e \in Elements, PictureElement(e) PROVE Drawn
  BY <1>16, AddElIsDrawn DEF PictureElement
<1>17. CASE PictureBackground
  BY <1>1, <1>17, CommittedIsDrawn DEF PictureBackground, SelectionLives
<1> QED BY <1>2, <1>3, <1>4, <1>5, <1>6, <1>7, <1>8, <1>9, <1>10, <1>11, <1>12,
           <1>13, <1>14, <1>15, <1>16, <1>17
        DEF Keyboard, Pointer, Panels, Pictures
-----------------------------------------------------------------------------
(***************************************************************************)
(* Types.                                                                  *)
(***************************************************************************)

Rows == [Designs -> Canvas \cup {None}]
Reads == [rows : Rows, crossed : BOOLEAN]

LEMMA EmptyHistory == <<>> \in Seq(Canvas) /\ Len(<<>>) = 0 /\ \A n : AllFrom(<<>>, n)
  BY EmptySeq DEF AllFrom

LEMMA TypeInit == Init => TypeOK
<1> SUFFICES ASSUME Init PROVE TypeOK
  OBVIOUS
<1>1. designs \in Rows
  BY DefaultIsCanvas DEF Init, Rows
<1>2. [rows |-> designs, crossed |-> FALSE] \in Reads
  BY <1>1 DEF Reads
<1>3. lists \in Seq(Reads)
  BY <1>2 DEF Init
<1>4. opened \in 0..MaxOpens /\ home \in [0..MaxOpens -> Designs \cup {None}]
  BY StudioAssumption DEF Init
<1>5. past \in Seq(Canvas) /\ future \in Seq(Canvas)
  BY EmptyHistory DEF Init
<1>6. left \in [edits : Nat, saves : Nat, removals : Nat]
  BY StudioAssumption DEF Init
<1> QED BY <1>1, <1>3, <1>4, <1>5, <1>6, DefaultIsCanvas DEF Init, TypeOK, Rows, Reads

(* Another canvas: nothing to undo, and a number of its own.               *)
LEMMA ResetEffect ==
  ASSUME TypeOK, NEW d \in Canvas, Reset(d)
  PROVE  /\ opened' = opened + 1 /\ opened' \in 1..MaxOpens
         /\ doc' \in Canvas /\ doc'.from = opened'
         /\ past' = <<>> /\ future' = <<>> /\ fresh' \in BOOLEAN
         /\ selected' = None
         /\ raced' \in BOOLEAN
<1>1. opened \in Nat /\ opened + 1 \in 1..MaxOpens
  BY StudioAssumption DEF TypeOK, Reset
<1>2. opened + 1 \in 0..MaxOpens
  BY <1>1
<1>3. doc' \in Canvas /\ doc'.from = opened + 1
  BY <1>2, FromOfCanvas DEF Reset
<1> QED BY <1>1, <1>3 DEF Reset, Racing, NoRemovals, TypeOK

(* Reading the gallery, crossing the reads under way and answering one.    *)
LEMMA ReadsTyped ==
  ASSUME TypeOK
  PROVE  /\ designs \in Rows /\ gallery \in Rows
         /\ Len(lists) \in Nat
         /\ Append(lists, [rows |-> designs, crossed |-> FALSE]) \in Seq(Reads)
         /\ \A i \in 1..Len(lists) : lists[i] \in Reads
<1>1. designs \in Rows /\ gallery \in Rows /\ lists \in Seq(Reads)
  BY DEF TypeOK, Rows, Reads
<1>2. [rows |-> designs, crossed |-> FALSE] \in Reads
  BY <1>1 DEF Reads
<1> QED BY <1>1, <1>2, AppendProperties, LenProperties, ElementOfSeq

LEMMA SeqOfFunction ==
  ASSUME NEW S, NEW n \in Nat, NEW f \in [1..n -> S]
  PROVE  f \in Seq(S) /\ Len(f) = n
<1>1. f \in Seq(S)
  BY SeqDef
<1>2. DOMAIN f = 1..Len(f) /\ Len(f) \in Nat
  BY <1>1, LenProperties
<1>3. 1..Len(f) = 1..n
  BY <1>2
<1> QED BY <1>1, <1>2, <1>3

LEMMA CrossEffect ==
  ASSUME TypeOK,
         lists' = [j \in 1..Len(lists) |-> [lists[j] EXCEPT !.crossed = TRUE]]
  PROVE  /\ lists' \in Seq(Reads) /\ Len(lists') = Len(lists)
         /\ \A j \in 1..Len(lists) : lists'[j].crossed
<1>1. \A j \in 1..Len(lists) : [lists[j] EXCEPT !.crossed = TRUE] \in Reads
  BY ReadsTyped DEF Reads
<1>2. lists' \in [1..Len(lists) -> Reads]
  BY <1>1
<1>3. \A j \in 1..Len(lists) : lists'[j].crossed
  BY ReadsTyped DEF Reads
<1> QED BY <1>2, <1>3, ReadsTyped, SeqOfFunction

LEMMA AnswerEffect ==
  ASSUME TypeOK, NEW i, AnswerList(i)
  PROVE  /\ i \in 1..Len(lists)
         /\ lists' \in Seq(Reads) /\ Len(lists') = Len(lists) - 1
         /\ \A j \in 1..Len(lists') :
              /\ j < i => lists'[j].crossed
              /\ j >= i => lists'[j] = lists[j + 1]
         /\ gallery' \in Rows /\ behind' \in BOOLEAN
<1> DEFINE m == Len(lists) - 1
           f == [j \in 1..m |-> IF j < i THEN [lists[j] EXCEPT !.crossed = TRUE]
                                         ELSE lists[j + 1]]
<1>1. i \in 1..Len(lists) /\ lists' = f /\ Len(lists) \in Nat /\ m \in Nat
  BY ReadsTyped DEF AnswerList
<1>2. ASSUME NEW j \in 1..m
      PROVE  f[j] \in Reads /\ (j < i => f[j].crossed) /\ (j >= i => f[j] = lists[j + 1])
  <2>1. lists[j] \in Reads /\ lists[j + 1] \in Reads
    BY <1>1, ReadsTyped
  <2>2. /\ [lists[j] EXCEPT !.crossed = TRUE] \in Reads
        /\ [lists[j] EXCEPT !.crossed = TRUE].crossed
    BY <2>1 DEF Reads
  <2> QED BY <1>1, <2>1, <2>2
<1>3. f \in [1..m -> Reads]
  BY <1>2
<1>4. f \in Seq(Reads) /\ Len(f) = m
  <2> HIDE DEF m, f
  <2> QED BY <1>1, <1>3, SeqOfFunction
<1>5. gallery' \in Rows /\ behind' \in BOOLEAN
  BY <1>1, ReadsTyped DEF AnswerList, Rows, Reads, TypeOK
<1> QED BY <1>1, <1>2, <1>4, <1>5

Waits == /\ save \in {NoSave} \cup [at : {"paint", "sent", "stored"}, canvas : Canvas,
                                    row : Designs \cup {None}, new : BOOLEAN]
         /\ removing \in [Designs -> {None, "open", "other"}]
         /\ lists \in Seq(Reads)

LEMMA TypeParts ==
  TypeOK <=> /\ doc \in Canvas
             /\ selected \in Elements \cup {None}
             /\ gesture \in Elements \cup {None}
             /\ past \in Seq(Canvas) /\ future \in Seq(Canvas) /\ fresh \in BOOLEAN
             /\ loaded \in Designs \cup {None}
             /\ home \in [0..MaxOpens -> Designs \cup {None}]
             /\ opened \in 0..MaxOpens
             /\ designs \in Rows /\ gone \subseteq Designs /\ gallery \in Rows
             /\ picture \in Canvas \cup {None}
             /\ Waits
             /\ raced \in BOOLEAN /\ behind \in BOOLEAN
             /\ left \in [edits : Nat, saves : Nat, removals : Nat]
BY DEF TypeOK, Waits, Rows, Reads

(* A save under way.                                                       *)
LEMMA SaveTyped ==
  ASSUME TypeOK, save.at \in {"paint", "sent", "stored"}
  PROVE  /\ save \in [at : {"paint", "sent", "stored"}, canvas : Canvas,
                      row : Designs \cup {None}, new : BOOLEAN]
         /\ save.canvas \in Canvas /\ save.row \in Designs \cup {None}
         /\ save.canvas.from \in 0..MaxOpens
         /\ ~Idle
<1>1. save # NoSave
  BY DEF NoSave
<1>2. save \in [at : {"paint", "sent", "stored"}, canvas : Canvas,
                row : Designs \cup {None}, new : BOOLEAN]
  BY <1>1 DEF TypeOK
<1> QED BY <1>1, <1>2 DEF Canvas, Idle

LEMMA SavingTyped ==
  ASSUME TypeOK, Saving
  PROVE  TypeOK'
<1>0. /\ doc \in Canvas
      /\ selected \in Elements \cup {None}
      /\ gesture \in Elements \cup {None}
      /\ past \in Seq(Canvas) /\ future \in Seq(Canvas) /\ fresh \in BOOLEAN
      /\ loaded \in Designs \cup {None}
      /\ home \in [0..MaxOpens -> Designs \cup {None}]
      /\ opened \in 0..MaxOpens
      /\ designs \in Rows /\ gone \subseteq Designs /\ gallery \in Rows
      /\ picture \in Canvas \cup {None}
      /\ Waits
      /\ raced \in BOOLEAN /\ behind \in BOOLEAN
      /\ left \in [edits : Nat, saves : Nat, removals : Nat]
  BY TypeParts
<1>1. ASSUME NEW asNew \in BOOLEAN, BeginSave(asNew) PROVE TypeOK'
  <2>1. Waits'
    BY <1>0, <1>1 DEF BeginSave, Waits
  <2>2. left' \in [edits : Nat, saves : Nat, removals : Nat]
    BY <1>0, <1>1 DEF BeginSave
  <2>3. raced' \in BOOLEAN
    BY <1>0, <1>1 DEF BeginSave, NoRemovals
  <2> QED BY <1>0, <1>1, <2>1, <2>2, <2>3
          DEF TypeOK, Rows, Reads, Waits, BeginSave, canvas, undoing, identity, stored, waits
<1>2. CASE Painted
  <2>1. Waits'
    BY <1>0, <1>2, SaveTyped DEF Painted, Waits
  <2> QED BY <1>0, <1>2, <2>1
          DEF TypeOK, Rows, Reads, Waits, Painted, canvas, undoing, identity, stored, waits, history
<1>3. ASSUME NEW d \in Designs, StoreNew(d) PROVE TypeOK'
  <2>1. Waits' /\ designs' \in Rows
    BY <1>0, <1>3, SaveTyped DEF StoreNew, Waits, Rows
  <2> QED BY <1>0, <1>3, <2>1
          DEF TypeOK, Rows, Reads, Waits, StoreNew, canvas, undoing, identity, stored, waits, history
<1>4. CASE StoreUpdate
  <2>1. Waits' /\ designs' \in Rows
    BY <1>0, <1>4, SaveTyped DEF StoreUpdate, Waits, Rows
  <2> QED BY <1>0, <1>4, <2>1
          DEF TypeOK, Rows, Reads, Waits, StoreUpdate, canvas, undoing, identity, stored, waits, history
<1>5. CASE Saved
  <2>1. Waits'
    BY <1>0, <1>5, ReadsTyped DEF Saved, Waits, ListAsked
  <2>2. /\ loaded' \in Designs \cup {None}
        /\ home' \in [0..MaxOpens -> Designs \cup {None}]
    BY <1>0, <1>5, SaveTyped DEF Saved
  <2> QED BY <1>0, <1>5, <2>1, <2>2
          DEF TypeOK, Rows, Reads, Waits, Saved, canvas, undoing, identity, stored, waits, history
<1>6. CASE LoseSave
  <2>1. Waits' /\ behind' \in BOOLEAN
    BY <1>0, <1>6 DEF LoseSave, Waits
  <2> QED BY <1>0, <1>6, <2>1
          DEF TypeOK, Rows, Reads, Waits, LoseSave, canvas, undoing, identity, stored, waits, history
<1> QED BY <1>1, <1>2, <1>3, <1>4, <1>5, <1>6 DEF Saving, SaveStep

LEMMA GalleryTyped ==
  ASSUME TypeOK, Gallery
  PROVE  TypeOK'
<1>0. /\ doc \in Canvas
      /\ selected \in Elements \cup {None}
      /\ gesture \in Elements \cup {None}
      /\ past \in Seq(Canvas) /\ future \in Seq(Canvas) /\ fresh \in BOOLEAN
      /\ loaded \in Designs \cup {None}
      /\ home \in [0..MaxOpens -> Designs \cup {None}]
      /\ opened \in 0..MaxOpens
      /\ designs \in Rows /\ gone \subseteq Designs /\ gallery \in Rows
      /\ picture \in Canvas \cup {None}
      /\ Waits
      /\ raced \in BOOLEAN /\ behind \in BOOLEAN
      /\ left \in [edits : Nat, saves : Nat, removals : Nat]
  BY TypeParts
<1>1. ASSUME NEW d \in Canvas, Reset(d),
             loaded' \in Designs \cup {None},
             home' \in [0..MaxOpens -> Designs \cup {None}]
      PROVE  TypeOK'
  <2>1. /\ opened' \in 0..MaxOpens /\ doc' \in Canvas
        /\ past' \in Seq(Canvas) /\ future' \in Seq(Canvas) /\ fresh' \in BOOLEAN
        /\ selected' = None /\ raced' \in BOOLEAN
    <3>1. /\ opened' \in 1..MaxOpens /\ doc' \in Canvas
          /\ past' = <<>> /\ future' = <<>> /\ fresh' \in BOOLEAN
          /\ selected' = None /\ raced' \in BOOLEAN
      BY <1>1, ResetEffect
    <3>2. opened' \in 0..MaxOpens
      BY <3>1, StudioAssumption
    <3> QED BY <3>1, <3>2, EmptyHistory
  <2>2. Waits'
    BY <1>0, <1>1 DEF Reset, Waits, waits
  <2> QED BY <1>0, <1>1, <2>1, <2>2
          DEF TypeOK, Rows, Reads, Waits, Reset, stored, waits
<1>2. CASE OpenTemplate
  BY <1>0, <1>1, <1>2, DefaultIsCanvas DEF OpenTemplate
<1>3. ASSUME NEW d \in Designs, OpenDesign(d) PROVE TypeOK'
  <2>1. gallery[d] \in Canvas
    BY <1>0, <1>3 DEF OpenDesign, Rows
  <2>2. home' \in [0..MaxOpens -> Designs \cup {None}]
    BY <1>0, <1>3 DEF OpenDesign
  <2> QED BY <1>1, <1>3, <2>1, <2>2 DEF OpenDesign
<1>4. ASSUME NEW i \in 1..MaxLists, AnswerList(i) PROVE TypeOK'
  <2>1. lists' \in Seq(Reads) /\ gallery' \in Rows /\ behind' \in BOOLEAN
    BY <1>4, AnswerEffect
  <2>2. Waits'
    BY <1>0, <1>4, <2>1 DEF AnswerList, Waits
  <2> QED BY <1>0, <1>4, <2>1, <2>2
          DEF TypeOK, Rows, Reads, Waits, AnswerList, canvas, undoing, identity
<1>5. ASSUME NEW d \in Designs, BeginRemove(d) PROVE TypeOK'
  <2>1. Waits'
    BY <1>0, <1>5 DEF BeginRemove, Waits
  <2>2. /\ left' \in [edits : Nat, saves : Nat, removals : Nat]
        /\ raced' \in BOOLEAN
    BY <1>0, <1>5 DEF BeginRemove, Idle
  <2> QED BY <1>0, <1>5, <2>1, <2>2
          DEF TypeOK, Rows, Reads, Waits, BeginRemove, canvas, undoing, identity, stored
<1>6. ASSUME NEW d \in Designs, StoreRemove(d) PROVE TypeOK'
  <2>1. Waits'
    BY <1>0, <1>6, CrossEffect DEF StoreRemove, Waits
  <2>2. designs' \in Rows /\ gone' \subseteq Designs
    BY <1>0, <1>6 DEF StoreRemove, Rows
  <2> QED BY <1>0, <1>6, <2>1, <2>2
          DEF TypeOK, Rows, Reads, Waits, StoreRemove, canvas, undoing, identity, history
<1>7. ASSUME NEW d \in Designs, Removed(d) PROVE TypeOK'
  <2>1. Waits'
    BY <1>0, <1>7 DEF Removed, Waits
  <2>2. gallery' \in Rows
    BY <1>0, <1>7 DEF Removed, Rows
  <2>3. /\ loaded' \in Designs \cup {None}
        /\ home' \in [0..MaxOpens -> Designs \cup {None}]
    BY <1>0, <1>7 DEF Removed
  <2> QED BY <1>0, <1>7, <2>1, <2>2, <2>3
          DEF TypeOK, Rows, Reads, Waits, Removed, canvas, undoing, history
<1>8. ASSUME NEW d \in Designs, RemoveElsewhere(d) PROVE TypeOK'
  <2>1. Waits'
    BY <1>0, <1>8, CrossEffect DEF RemoveElsewhere, Waits
  <2>2. designs' \in Rows /\ gone' \subseteq Designs
    BY <1>0, <1>8 DEF RemoveElsewhere, Rows
  <2>3. left' \in [edits : Nat, saves : Nat, removals : Nat]
    <3>1. /\ left \in [edits : Nat, saves : Nat, removals : Nat]
          /\ left.removals > 0
          /\ left' = [left EXCEPT !.removals = @ - 1]
      BY <1>0, <1>8 DEF RemoveElsewhere
    <3>2. left.removals - 1 \in Nat
      BY <3>1
    <3> QED BY <3>1, <3>2
  <2> QED BY <1>0, <1>8, <2>1, <2>2, <2>3
          DEF TypeOK, Rows, Reads, Waits, RemoveElsewhere, canvas, undoing, identity
<1> QED BY <1>2, <1>3, <1>4, <1>5, <1>6, <1>7, <1>8 DEF Gallery

LEMMA TypeStep == TypeOK /\ [Next]_vars => TypeOK'
<1>1. ASSUME TypeOK, UNCHANGED vars PROVE TypeOK'
  BY <1>1 DEF TypeOK, vars, canvas, undoing, identity, stored, waits, history
<1>2. ASSUME TypeOK, Drawn PROVE TypeOK'
  <2>1. Waits'
    BY <1>2
          DEF TypeOK, Rows, Reads, Waits, Drawn, Waits
  <2> QED BY <1>2, <2>1
          DEF TypeOK, Rows, Reads, Waits, Drawn, HistoryKept, identity, stored
<1> QED BY <1>1, <1>2, DrawStep, SavingTyped, GalleryTyped DEF Next

(* Every variable of the studio has its type in every state.               *)
THEOREM StudioTyped == Spec => []TypeOK
  BY TypeInit, TypeStep, PTL DEF Spec

-----------------------------------------------------------------------------
(***************************************************************************)
(* Undo, redo and the selection.                                           *)
(***************************************************************************)

LEMMA ResetBounds ==
  ASSUME TypeOK, NEW d \in Canvas, Reset(d)
  PROVE  HistoryBounded' /\ SelectionLives'
BY ResetEffect, EmptyHistory, StudioAssumption DEF HistoryBounded, SelectionLives

(* Steps that wait for a request, or begin to, leave the canvas alone.     *)
CanvasKept == UNCHANGED <<doc, selected, past, future>>

LEMMA WaitingKeepsCanvas ==
  ASSUME TypeOK, Saving \/ Gallery \/ UNCHANGED vars
  PROVE  CanvasKept \/ \E d \in Canvas : Reset(d)
<1>1. CASE Saving
  BY <1>1 DEF Saving, SaveStep, BeginSave, Painted, StoreNew, StoreUpdate, Saved,
              LoseSave, CanvasKept, canvas, undoing
<1>2. ASSUME NEW t \in Templates, Reset(t) PROVE \E d \in Canvas : Reset(d)
  BY <1>2, DefaultIsCanvas
<1>3. ASSUME NEW d \in Designs, OpenDesign(d) PROVE \E c \in Canvas : Reset(c)
  <2>1. gallery[d] \in Canvas
    BY <1>3 DEF OpenDesign, TypeOK
  <2> QED BY <1>3, <2>1 DEF OpenDesign
<1>4. CASE Gallery
  BY <1>2, <1>3, <1>4 DEF Gallery, OpenTemplate, AnswerList, BeginRemove,
                         StoreRemove, Removed, RemoveElsewhere, CanvasKept,
                         canvas, undoing
<1> QED BY <1>1, <1>4 DEF CanvasKept, vars, canvas, undoing

(* Undo and redo together never hold more than the cap.                    *)
THEOREM HistoryStaysBounded == Spec => []HistoryBounded
<1>1. Init => HistoryBounded
  BY EmptyHistory, StudioAssumption DEF Init, HistoryBounded
<1>2. TypeOK /\ HistoryBounded /\ [Next]_vars => HistoryBounded'
  <2>1. CanvasKept /\ HistoryBounded => HistoryBounded'
    BY DEF CanvasKept, HistoryBounded
  <2>2. Drawn /\ HistoryBounded => HistoryBounded'
    BY DEF Drawn, HistoryKept
  <2> QED BY <2>1, <2>2, DrawStep, WaitingKeepsCanvas, ResetBounds DEF Next
<1> QED BY <1>1, <1>2, StudioTyped, PTL DEF Spec

(* The selected element is on the canvas, whatever took canvases away.     *)
THEOREM SelectionStaysAlive == Spec => []SelectionLives
<1>1. Init => SelectionLives
  BY DEF Init, SelectionLives
<1>2. TypeOK /\ SelectionLives /\ [Next]_vars => SelectionLives'
  <2>1. CanvasKept /\ SelectionLives => SelectionLives'
    BY DEF CanvasKept, SelectionLives
  <2>2. Drawn /\ SelectionLives => SelectionLives'
    BY DEF Drawn
  <2> QED BY <2>1, <2>2, DrawStep, WaitingKeepsCanvas, ResetBounds DEF Next
<1> QED BY <1>1, <1>2, StudioTyped, PTL DEF Spec
-----------------------------------------------------------------------------
(***************************************************************************)
(* Which design the Update button writes to.                               *)
(***************************************************************************)

(* Everything at hand stems from the canvas opened last, and what waits    *)
(* was begun with the design that is loaded still.                         *)
AtHome == /\ Stems(opened)
          /\ loaded = home[opened]
          /\ \A n \in (opened + 1)..MaxOpens : home[n] = None
          /\ ~Idle => /\ save.canvas.from = opened
                      /\ NoRemovals
                      /\ ~save.new => save.row = loaded

HomeInv == ~raced => AtHome

LEMMA HomeInit == Init => HomeInv
<1> SUFFICES ASSUME Init PROVE AtHome
  BY DEF HomeInv
<1>1. Stems(0)
  BY DefaultIsCanvas, EmptyHistory DEF Init, Stems
<1>2. 0 \in 0..MaxOpens /\ \A n \in 1..MaxOpens : n \in 0..MaxOpens
  BY StudioAssumption
<1> QED BY <1>1, <1>2 DEF Init, AtHome, Idle

(* Another canvas, when nothing waits: the next number is nobody's yet.    *)
LEMMA ResetAtHome ==
  ASSUME TypeOK, HomeInv, NEW d \in Canvas, Reset(d), ~raced'
  PROVE  /\ ~raced /\ Idle /\ picture' = None /\ UNCHANGED save
         /\ Stems(opened)'
         /\ opened' = opened + 1 /\ opened' \in 1..MaxOpens
         /\ home[opened'] = None
         /\ \A n \in (opened' + 1)..MaxOpens : home[n] = None
<1>1. ~raced /\ ~Racing
  BY DEF Reset
<1>2. Idle /\ picture' = None /\ UNCHANGED save
  BY <1>1 DEF Racing, Reset, waits
<1>3. opened' = opened + 1 /\ opened' \in 1..MaxOpens
  BY ResetEffect
<1>4. Stems(opened)'
  <2>1. doc'.from = opened' /\ AllFrom(past', opened') /\ AllFrom(future', opened')
    BY ResetEffect, EmptyHistory
  <2> QED BY <1>2, <2>1 DEF Stems
<1>5. opened \in Nat /\ \A n \in (opened + 1)..MaxOpens : home[n] = None
  BY <1>1, StudioAssumption DEF HomeInv, AtHome, TypeOK
<1> QED BY <1>1, <1>2, <1>3, <1>4, <1>5, StudioAssumption

LEMMA HomeStep == TypeOK /\ HomeInv /\ [Next]_vars => HomeInv'
<1> SUFFICES ASSUME TypeOK, HomeInv, [Next]_vars, ~raced' PROVE AtHome'
  BY DEF HomeInv
<1>1. opened \in 0..MaxOpens /\ opened \in Nat /\ MaxOpens \in Nat
  BY StudioAssumption DEF TypeOK
<1>2. home \in [0..MaxOpens -> Designs \cup {None}]
  BY DEF TypeOK
<1>3. CASE Drawn
  <2>1. ~raced
    BY <1>3 DEF Drawn
  <2>2. Stems(opened)'
    BY <1>3, <2>1 DEF Drawn, HomeInv, AtHome, identity, Stems
  <2> QED BY <1>3, <2>1, <2>2
          DEF Drawn, HomeInv, AtHome, identity, Idle, NoRemovals
<1>4. ASSUME UNCHANGED <<canvas, undoing, picture, opened>>, ~raced
      PROVE  Stems(opened)'
  BY <1>4 DEF HomeInv, AtHome, Stems, canvas, undoing
<1>5. ASSUME NEW asNew \in BOOLEAN, BeginSave(asNew) PROVE AtHome'
  <2>1. ~raced /\ NoRemovals
    BY <1>5 DEF BeginSave
  <2>2. Stems(opened)'
    BY <1>4, <1>5, <2>1 DEF BeginSave, identity
  <2>3. /\ save'.canvas.from = opened /\ NoRemovals'
        /\ ~save'.new => save'.row = loaded
    BY <1>5, <2>1 DEF BeginSave, HomeInv, AtHome, Stems, NoRemovals
  <2> QED BY <1>5, <2>1, <2>2, <2>3 DEF BeginSave, HomeInv, AtHome, identity
<1>6. ASSUME UNCHANGED <<canvas, undoing, picture, identity, removing, raced>>,
             \/ Idle'
             \/ /\ ~Idle /\ save'.canvas = save.canvas
                /\ ~save'.new => ~save.new /\ save'.row = save.row
      PROVE  AtHome'
  <2>1. Stems(opened)'
    BY <1>4, <1>6 DEF identity
  <2> QED BY <1>6, <2>1 DEF HomeInv, AtHome, identity, NoRemovals
<1>7. CASE Painted
  <2>1. ~Idle /\ save'.canvas = save.canvas /\ save'.new = save.new /\ save'.row = save.row
    BY <1>7, SaveTyped DEF Painted
  <2> QED BY <1>6, <1>7, <2>1 DEF Painted, history
<1>8. ASSUME NEW d \in Designs, StoreNew(d) PROVE AtHome'
  <2>1. ~Idle /\ save'.canvas = save.canvas /\ save'.new = save.new /\ save.new
    BY <1>8, SaveTyped DEF StoreNew
  <2> QED BY <1>6, <1>8, <2>1 DEF StoreNew, history
<1>9. CASE StoreUpdate
  <2>1. ~Idle /\ save'.canvas = save.canvas /\ save'.new = save.new /\ save'.row = save.row
    BY <1>9, SaveTyped DEF StoreUpdate
  <2> QED BY <1>6, <1>9, <2>1 DEF StoreUpdate, history
<1>10. CASE LoseSave
  <2>1. Idle'
    BY <1>10 DEF LoseSave, Idle
  <2> QED BY <1>6, <1>10, <2>1 DEF LoseSave
<1>11. CASE Saved
  <2>1. ~raced /\ ~Idle /\ Idle'
    BY <1>11, SaveTyped DEF Saved, history, Idle
  <2>2. Stems(opened)'
    BY <1>4, <1>11, <2>1 DEF Saved
  <2>3. home' = [home EXCEPT ![opened] = save.row] /\ loaded' = save.row
    BY <1>11, <2>1 DEF Saved, HomeInv, AtHome
  <2>4. \A n \in (opened + 1)..MaxOpens : home'[n] = home[n]
    BY <1>1, <1>2, <2>3
  <2> QED BY <1>1, <1>2, <1>11, <2>1, <2>2, <2>3, <2>4 DEF Saved, HomeInv, AtHome
<1>12. CASE OpenTemplate
  <2>1. PICK t \in Templates : Reset(t)
    BY <1>12 DEF OpenTemplate
  <2>2. /\ Idle /\ UNCHANGED save /\ Stems(opened)'
        /\ home[opened'] = None
        /\ \A n \in (opened' + 1)..MaxOpens : home[n] = None
    BY <2>1, ResetAtHome, DefaultIsCanvas
  <2> QED BY <1>12, <2>2 DEF OpenTemplate, AtHome, Idle
<1>13. ASSUME NEW d \in Designs, OpenDesign(d) PROVE AtHome'
  <2>1. gallery[d] \in Canvas /\ Reset(gallery[d])
    BY <1>13 DEF OpenDesign, TypeOK
  <2>2. /\ Idle /\ UNCHANGED save /\ Stems(opened)'
        /\ opened' = opened + 1 /\ opened' \in 1..MaxOpens
        /\ \A n \in (opened' + 1)..MaxOpens : home[n] = None
    BY <2>1, ResetAtHome
  <2>3. home'[opened'] = d /\ loaded' = d
    BY <1>2, <1>13, <2>2 DEF OpenDesign
  <2>4. \A n \in (opened' + 1)..MaxOpens : home'[n] = home[n]
    BY <1>1, <1>2, <1>13, <2>2 DEF OpenDesign
  <2> QED BY <2>2, <2>3, <2>4 DEF AtHome, Idle
<1>14. ASSUME NEW i, AnswerList(i) PROVE AtHome'
  <2>1. ~raced /\ Stems(opened)'
    BY <1>4, <1>14 DEF AnswerList, identity
  <2> QED BY <1>14, <2>1 DEF AnswerList, HomeInv, AtHome, identity, Idle, NoRemovals
<1>15. ASSUME NEW d \in Designs, BeginRemove(d) PROVE AtHome'
  <2>1. ~raced /\ Idle /\ Idle'
    BY <1>15 DEF BeginRemove, Idle
  <2>2. Stems(opened)'
    BY <1>4, <1>15, <2>1 DEF BeginRemove, identity
  <2> QED BY <1>15, <2>1, <2>2 DEF BeginRemove, HomeInv, AtHome, identity
<1>16. ASSUME NEW d \in Designs, StoreRemove(d) PROVE AtHome'
  <2>1. ~raced /\ Stems(opened)'
    BY <1>4, <1>16 DEF StoreRemove, identity, history
  <2> QED BY <1>16, <2>1
          DEF StoreRemove, HomeInv, AtHome, identity, Idle, NoRemovals, history
<1>17. ASSUME NEW d \in Designs, Removed(d) PROVE AtHome'
  <2>1. ~raced /\ Stems(opened)'
    BY <1>4, <1>17 DEF Removed, history
  <2>2. Idle /\ Idle'
    BY <1>17, <2>1 DEF Removed, HomeInv, AtHome, NoRemovals, Idle
  <2>3. CASE UNCHANGED <<loaded, home>>
    BY <1>17, <2>1, <2>2, <2>3 DEF Removed, HomeInv, AtHome
  <2>4. CASE loaded' = None /\ home' = [home EXCEPT ![doc.from] = None]
    <3>1. home'[opened] = None /\ \A n \in (opened + 1)..MaxOpens : home'[n] = home[n]
      BY <1>1, <1>2, <2>1, <2>4 DEF HomeInv, AtHome, Stems
    <3> QED BY <1>17, <2>1, <2>2, <2>4, <3>1 DEF Removed, HomeInv, AtHome
  <2> QED BY <1>17, <2>3, <2>4 DEF Removed
<1>18. CASE UNCHANGED vars
  <2>1. ~raced /\ Stems(opened)'
    BY <1>4, <1>18 DEF vars, identity, waits, history
  <2> QED BY <1>18, <2>1
          DEF vars, HomeInv, AtHome, identity, waits, history, Idle, NoRemovals
<1>19. ASSUME NEW d \in Designs, RemoveElsewhere(d) PROVE AtHome'
  <2>1. ~raced /\ Stems(opened)'
    BY <1>4, <1>19 DEF RemoveElsewhere, identity
  <2> QED BY <1>19, <2>1
          DEF RemoveElsewhere, HomeInv, AtHome, identity, Idle, NoRemovals
<1> QED BY <1>3, <1>5, <1>7, <1>8, <1>9, <1>10, <1>11, <1>12, <1>13, <1>14,
           <1>15, <1>16, <1>17, <1>18, <1>19, DrawStep
        DEF Next, Saving, SaveStep, Gallery

(* The Update button writes to the design the canvas was opened from or    *)
(* last saved as, unless something waited that was begun before.           *)
THEOREM LoadedStaysHome == Spec => []LoadedIsHome
<1>1. HomeInv => LoadedIsHome
  BY DEF HomeInv, AtHome, Stems, LoadedIsHome
<1> QED BY <1>1, HomeInit, HomeStep, StudioTyped, PTL DEF Spec

-----------------------------------------------------------------------------
(***************************************************************************)
(* What the gallery shows.                                                 *)
(***************************************************************************)

Stored == save.at = "stored"

(* The youngest read brings what is stored, unless it is crossed or a save *)
(* was stored since, which is answered by another read or lost.            *)
YoungestFresh == lists # <<>> /\ ~Stored /\ ~lists[Len(lists)].crossed
                   => lists[Len(lists)].rows = designs

(* With no read under way the gallery shows it, but for what is being      *)
(* removed.                                                                *)
GalleryFresh == lists = <<>> /\ ~Stored =>
                  \A d \in Designs : gallery[d] \in {None, designs[d]} \/ removing[d] # None

GalleryInv == ~behind => YoungestFresh /\ GalleryFresh

LEMMA GalleryInit == Init => GalleryInv
<1> SUFFICES ASSUME Init PROVE YoungestFresh /\ GalleryFresh
  BY DEF GalleryInv
<1>1. lists = <<[rows |-> designs, crossed |-> FALSE]>>
  BY DEF Init
<1>2. lists # <<>> /\ lists[Len(lists)].rows = designs
  BY <1>1
<1> QED BY <1>2 DEF YoungestFresh, GalleryFresh

LEMMA ListsOf ==
  ASSUME TypeOK
  PROVE  lists \in Seq(Reads) /\ Len(lists) \in Nat /\ (lists = <<>> <=> Len(lists) = 0)
<1>1. lists \in Seq(Reads)
  BY DEF TypeOK, Reads, Rows
<1> QED BY <1>1, EmptySeq, LenProperties

LEMMA GalleryStep == TypeOK /\ TypeOK' /\ GalleryInv /\ [Next]_vars => GalleryInv'
<1> SUFFICES ASSUME TypeOK, TypeOK', GalleryInv, [Next]_vars, ~behind'
             PROVE  (YoungestFresh /\ GalleryFresh)'
  BY DEF GalleryInv
<1>1. ASSUME UNCHANGED <<lists, designs, gallery, removing, behind>>, Stored' <=> Stored
      PROVE  (YoungestFresh /\ GalleryFresh)'
  BY <1>1 DEF GalleryInv, YoungestFresh, GalleryFresh
<1>2. CASE Drawn
  BY <1>1, <1>2 DEF Drawn, stored, Stored
<1>3. ASSUME NEW d \in Canvas, Reset(d) PROVE (YoungestFresh /\ GalleryFresh)'
  BY <1>1, <1>3 DEF Reset, stored, waits, Stored
<1>4. CASE OpenTemplate \/ \E d \in Designs : OpenDesign(d)
  <2>1. ASSUME NEW d \in Designs, gallery[d] # None PROVE gallery[d] \in Canvas
    BY <2>1 DEF TypeOK
  <2> QED BY <1>3, <1>4, <2>1, DefaultIsCanvas DEF OpenTemplate, OpenDesign
<1>5. ASSUME NEW asNew \in BOOLEAN, BeginSave(asNew)
      PROVE  (YoungestFresh /\ GalleryFresh)'
  <2>1. ~Stored /\ ~Stored'
    BY <1>5 DEF BeginSave, Idle, NoSave, Stored
  <2> QED BY <1>1, <1>5, <2>1 DEF BeginSave, stored
<1>6. CASE Painted
  <2>1. ~Stored /\ ~Stored'
    BY <1>6, SaveTyped DEF Painted, Stored
  <2> QED BY <1>1, <1>6, <2>1 DEF Painted, stored, history
<1>7. CASE StoreUpdate \/ \E d \in Designs : StoreNew(d)
  <2>1. Stored'
    BY <1>7, SaveTyped DEF StoreUpdate, StoreNew, Stored
  <2> QED BY <2>1 DEF YoungestFresh, GalleryFresh
<1>8. CASE Saved
  <2> DEFINE read == [rows |-> designs, crossed |-> FALSE]
  <2>1. lists' = Append(lists, read) /\ read \in Reads /\ designs' = designs
    BY <1>8, ReadsTyped DEF Saved, ListAsked, stored, Reads
  <2>2. lists' # <<>> /\ lists'[Len(lists')] = read
    BY <2>1, ListsOf, AppendProperties
  <2> QED BY <2>1, <2>2 DEF YoungestFresh, GalleryFresh
<1>9. CASE LoseSave
  <2>1. ~behind /\ ~Stored /\ ~Stored'
    BY <1>9 DEF LoseSave, Stored, NoSave
  <2>2. UNCHANGED behind
    BY <2>1 DEF TypeOK
  <2> QED BY <1>1, <1>9, <2>1, <2>2 DEF LoseSave, stored
<1>10. ASSUME NEW i, AnswerList(i) PROVE (YoungestFresh /\ GalleryFresh)'
  <2>1. /\ i \in 1..Len(lists) /\ Len(lists) \in Nat /\ Len(lists') = Len(lists) - 1
        /\ \A j \in 1..Len(lists') : /\ j < i => lists'[j].crossed
                                     /\ j >= i => lists'[j] = lists[j + 1]
        /\ (lists' = <<>> <=> Len(lists') = 0) /\ (lists = <<>> <=> Len(lists) = 0)
    BY <1>10, AnswerEffect, ListsOf
  <2>2. UNCHANGED <<designs, removing>> /\ (Stored' <=> Stored) /\ ~behind
    <3>1. UNCHANGED <<designs, removing, save>>
      BY <1>10 DEF AnswerList
    <3>2. behind' = behind \/ behind' = (behind \/ lists[i].crossed)
      BY <1>10 DEF AnswerList
    <3>3. ~behind
      BY <3>2 DEF TypeOK
    <3> QED BY <3>1, <3>3 DEF Stored
  <2>3. YoungestFresh'
    <3> SUFFICES ASSUME lists' # <<>>, ~Stored', ~lists'[Len(lists')].crossed
                 PROVE  lists'[Len(lists')].rows = designs'
      BY DEF YoungestFresh
    <3>1. Len(lists') \in 1..Len(lists') /\ Len(lists') >= i
      BY <2>1
    <3>2. lists'[Len(lists')] = lists[Len(lists)]
      BY <2>1, <3>1
    <3> QED BY <2>1, <2>2, <3>1, <3>2 DEF GalleryInv, YoungestFresh
  <2>4. GalleryFresh'
    <3> SUFFICES ASSUME lists' = <<>>, ~Stored', NEW d \in Designs
                 PROVE  gallery'[d] \in {None, designs'[d]}
      BY DEF GalleryFresh
    <3>1. i = Len(lists) /\ lists # <<>>
      <4>1. Len(lists) = 1
        BY <2>1
      <4> QED BY <2>1, <4>1
    <3>2. CASE gallery' = [e \in Designs |-> None]
      BY <3>2
    <3>3. CASE gallery' = lists[i].rows /\ behind' = (behind \/ lists[i].crossed)
      BY <2>2, <3>1, <3>3 DEF GalleryInv, YoungestFresh
    <3> QED BY <1>10, <3>2, <3>3 DEF AnswerList
  <2> QED BY <2>3, <2>4
<1>11. ASSUME NEW d \in Designs, BeginRemove(d) PROVE (YoungestFresh /\ GalleryFresh)'
  <2>1. \A e \in Designs : removing[e] # None => removing'[e] # None
    <3>1. removing[d] = None
      BY <1>11 DEF BeginRemove
    <3> QED BY <1>11, <3>1 DEF BeginRemove, TypeOK
  <2>2. UNCHANGED <<lists, designs, gallery, behind>> /\ (Stored' <=> Stored)
    BY <1>11 DEF BeginRemove, stored, Stored
  <2> QED BY <2>1, <2>2 DEF GalleryInv, YoungestFresh, GalleryFresh
<1>12. ASSUME NEW d \in Designs, StoreRemove(d) PROVE (YoungestFresh /\ GalleryFresh)'
  <2>1. /\ Len(lists') = Len(lists) /\ Len(lists) \in Nat
        /\ \A j \in 1..Len(lists) : lists'[j].crossed
        /\ (lists' = <<>> <=> Len(lists') = 0) /\ (lists = <<>> <=> Len(lists) = 0)
    BY <1>12, CrossEffect, ListsOf DEF StoreRemove
  <2>2. UNCHANGED <<gallery, removing, behind>> /\ (Stored' <=> Stored)
    BY <1>12 DEF StoreRemove, history, Stored
  <2>3. removing[d] # None /\ \A e \in Designs \ {d} : designs'[e] = designs[e]
    BY <1>12 DEF StoreRemove, TypeOK
  <2>4. YoungestFresh'
    BY <2>1 DEF YoungestFresh
  <2>5. GalleryFresh'
    BY <2>1, <2>2, <2>3 DEF GalleryInv, GalleryFresh
  <2> QED BY <2>4, <2>5
<1>13. ASSUME NEW d \in Designs, Removed(d) PROVE (YoungestFresh /\ GalleryFresh)'
  <2>1. UNCHANGED <<lists, designs, behind>> /\ (Stored' <=> Stored)
    BY <1>13 DEF Removed, history, Stored
  <2>2. gallery'[d] = None
    BY <1>13 DEF Removed, TypeOK
  <2>3. \A e \in Designs \ {d} : gallery'[e] = gallery[e] /\ removing'[e] = removing[e]
    BY <1>13 DEF Removed, TypeOK
  <2> QED BY <2>1, <2>2, <2>3 DEF GalleryInv, YoungestFresh, GalleryFresh
<1>14. CASE UNCHANGED vars
  BY <1>1, <1>14 DEF vars, stored, waits, history, Stored
<1>15. ASSUME NEW d \in Designs, RemoveElsewhere(d)
       PROVE  (YoungestFresh /\ GalleryFresh)'
  <2>1. behind'
    BY <1>15 DEF RemoveElsewhere
  <2> QED BY <2>1
<1> QED BY <1>2, <1>4, <1>5, <1>6, <1>7, <1>8, <1>9, <1>10, <1>11, <1>12, <1>13,
           <1>14, <1>15, DrawStep DEF Next, Saving, SaveStep, Gallery

(* With nothing under way and no answer lost, overtaken or crossed, the    *)
(* gallery shows what is stored, however saves, deletions and reads        *)
(* overlapped.                                                             *)
THEOREM GalleryStaysCurrent == Spec => []GalleryCurrent
<1>1. GalleryInv => GalleryCurrent
  <2>1. Idle => ~Stored
    BY DEF Idle, NoSave, Stored
  <2> QED BY <2>1 DEF GalleryInv, GalleryFresh, GalleryCurrent, NoRemovals
<1> QED BY <1>1, GalleryInit, GalleryStep, StudioTyped, PTL DEF Spec
================================================================================
