-------------------------------- MODULE Studio --------------------------------
(***************************************************************************)
(* The creator studio of frontend-next (components/StudioEditor.tsx): a    *)
(* canvas with undo and redo, its saved designs, and the gallery they are  *)
(* opened from, over the studio_designs rows of backend-rust/creators.     *)
(*                                                                         *)
(* Saving, deleting, listing and loading a picture all wait, and nothing   *)
(* is locked while they do: the creator draws on, undoes, opens another    *)
(* design.  What a handler does after its wait it does with the canvas and *)
(* the loaded design of the moment it was started.                         *)
(***************************************************************************)
EXTENDS Naturals, Sequences

CONSTANTS
  Elements,  (* the elements a canvas can hold                             *)
  Given,     (* those of the default canvas                                *)
  Looks,     (* what else can differ: texts, colours, positions, layering  *)
  Plain,     (* how the default canvas looks                               *)
  Designs,   (* the ids of the rows of studio_designs                      *)
  None,      (* null                                                       *)
  Cap,       (* entries kept to undo (60 in the code)                      *)
  MaxOpens,  (* bound: templates and designs opened                        *)
  MaxLists,  (* bound: gallery reads under way                             *)
  Budgets    (* bounds: how many edits, saves and deletions a visit has    *)

ASSUME StudioAssumption ==
  /\ None \notin Elements \cup Designs
  /\ Given \subseteq Elements /\ Plain \in Looks
  /\ Cap \in Nat /\ MaxOpens \in Nat /\ MaxLists \in Nat
  /\ Budgets \subseteq [edits : Nat, saves : Nat, removals : Nat]

VARIABLES
  doc,       (* the canvas                                                 *)
  selected,  (* the selected element                                       *)
  gesture,   (* the element the pointer drags, resizes or rotates          *)
  past, future, \* what undo and redo return to, the nearest one last
  fresh,     (* the last entry of the past is younger than 400 ms          *)
  loaded,    (* the design the Update button writes to                     *)
  home,      (* history: the design each opened canvas is kept as          *)
  opened,    (* history: how many canvases were opened                     *)
  designs,   (* the rows: a canvas, or None                                *)
  gone,      (* the ids of deleted rows, never used again                  *)
  gallery,   (* the canvases the gallery shows                             *)
  save,      (* the save under way                                         *)
  picture,   (* the canvas at the time a picture was picked                *)
  removing,  (* the deletions under way                                    *)
  lists,     (* the gallery reads under way, oldest first                  *)
  raced,     (* history: see Racing                                        *)
  behind,    (* history: see AnswerList, LoseSave and RemoveElsewhere      *)
  left       (* what is left of the visit's budget                         *)

canvas == <<doc, selected, gesture>>
undoing == <<past, future, fresh>>
identity == <<loaded, home, opened>>
stored == <<designs, gone, gallery>>
waits == <<save, picture, removing, lists>>
history == <<raced, behind, left>>
vars == <<canvas, undoing, identity, stored, waits, history>>

(* A CanvasState: `from` tells which of the opened canvases it stems from. *)
Canvas == [from : 0..MaxOpens, els : SUBSET Elements, look : Looks]

(* DEFAULT_STATE.                                                          *)
Default == [from |-> 0, els |-> Given, look |-> Plain]

(* TEMPLATES: what tells them apart are formats, texts, places, colours.   *)
Templates == {[Default EXCEPT !.look = l] : l \in Looks}

NoSave == [at |-> "idle"]

Idle == save = NoSave
NoRemovals == \A d \in Designs : removing[d] = None

Init == /\ doc = Default
        /\ selected = None /\ gesture = None
        /\ past = <<>> /\ future = <<>> /\ fresh = FALSE
        /\ loaded = None /\ home = [n \in 0..MaxOpens |-> None] /\ opened = 0
        /\ \E kept \in SUBSET Designs :
             designs = [d \in Designs |-> IF d \in kept THEN Default ELSE None]
        /\ gone = {} /\ gallery = [d \in Designs |-> None]
        /\ save = NoSave
        /\ picture = None
        /\ removing = [d \in Designs |-> None]
        /\ lists = <<[rows |-> designs, crossed |-> FALSE]>>
        /\ raced = FALSE /\ behind = FALSE
        /\ left \in Budgets
-----------------------------------------------------------------------------
(* Undo and redo.                                                          *)

CommitUncapped(d) == \* mutant: the oldest entry is not shifted out
  /\ past' = Append(past, d)
  /\ future' = <<>>
  /\ fresh' = TRUE

(* commit(true) with d as the canvas of its closure.                       *)
Commit(d) ==
  /\ past' = IF Len(past) < Cap THEN Append(past, d)
                                ELSE Tail(Append(past, d))
  /\ future' = <<>>
  /\ fresh' = TRUE

(* commit(): at most one entry in 400 ms.                                  *)
CommitSometimes(d) == IF fresh THEN UNCHANGED undoing ELSE Commit(d)

Pause == /\ fresh
         /\ fresh' = FALSE
         /\ UNCHANGED <<canvas, past, future, identity, stored, waits, history>>

UndoKeepsSelection == \* mutant: no setSelected(null)
  /\ past # <<>>
  /\ past' = SubSeq(past, 1, Len(past) - 1)
  /\ future' = Append(future, doc)
  /\ doc' = past[Len(past)]
  /\ UNCHANGED <<selected, gesture, fresh, identity, stored, waits, history>>

Undo == /\ past # <<>>
        /\ past' = SubSeq(past, 1, Len(past) - 1)
        /\ future' = Append(future, doc)
        /\ doc' = past[Len(past)]
        /\ selected' = None
        /\ UNCHANGED <<gesture, fresh, identity, stored, waits, history>>

Redo == /\ future # <<>>
        /\ future' = SubSeq(future, 1, Len(future) - 1)
        /\ past' = Append(past, doc)
        /\ doc' = future[Len(future)]
        /\ selected' = None
        /\ UNCHANGED <<gesture, fresh, identity, stored, waits, history>>
-----------------------------------------------------------------------------
(* Editing.  Every edit but a picture's arrival goes by what is shown.     *)

Edited == /\ left.edits > 0
          /\ left' = [left EXCEPT !.edits = @ - 1]
          /\ UNCHANGED <<identity, stored, save, removing, lists, raced, behind>>

(* addEl(el), committing the canvas d.                                     *)
AddEl(e, d) == /\ e \notin doc.els
               /\ Commit(d)
               /\ doc' = [doc EXCEPT !.els = @ \cup {e}]
               /\ selected' = e

(* The panel of the selected element.                                      *)
Panel == selected \in doc.els

(* The insert toolbar: text, shapes, stickers, the tip link.               *)
Insert(e) == Edited /\ AddEl(e, doc) /\ UNCHANGED <<gesture, picture>>

(* duplicateSel.                                                           *)
Duplicate(e) == /\ Panel
                /\ Insert(e)

(* removeSel.                                                              *)
Remove == /\ selected # None
          /\ Edited
          /\ Commit(doc)
          /\ doc' = [doc EXCEPT !.els = @ \ {selected}]
          /\ selected' = None
          /\ UNCHANGED <<gesture, picture>>

(* reorderSel, zSel, toggleSel and alignSel: committed, even when the      *)
(* element is where it should go already.                                  *)
Arrange == /\ selected # None
           /\ Edited
           /\ Commit(doc)
           /\ doc' \in {doc} \cup {[doc EXCEPT !.look = l] : l \in Looks}
           /\ UNCHANGED <<selected, gesture, picture>>

(* patchEl from the panel of the selected element, the arrow keys or the   *)
(* number keys: nothing is committed.                                      *)
Patch == /\ Panel
         /\ Edited
         /\ doc' \in {[doc EXCEPT !.look = l] : l \in Looks}
         /\ UNCHANGED <<selected, gesture, undoing, picture>>

(* setBg from the background panel.                                        *)
SetBg == /\ Edited
         /\ CommitSometimes(doc)
         /\ doc' \in {[doc EXCEPT !.look = l] : l \in Looks}
         /\ UNCHANGED <<selected, gesture, picture>>

(* The buttons of the layer list: select an element, hidden or not, or     *)
(* toggle its visibility or its lock.                                      *)
Layer(e) == /\ e \in doc.els
            /\ Edited
            /\ \/ selected' = e /\ UNCHANGED <<doc, undoing>>
               \/ /\ Commit(doc)
                  /\ doc' \in {[doc EXCEPT !.look = l] : l \in Looks}
                  /\ UNCHANGED selected
            /\ UNCHANGED <<gesture, picture>>

(* The size buttons: another format, the elements stay where they are.     *)
Resize == /\ Edited
          /\ Commit(doc)
          /\ doc' \in {[doc EXCEPT !.look = l] : l \in Looks}
          /\ UNCHANGED <<selected, gesture, picture>>
-----------------------------------------------------------------------------
(* The pointer.                                                            *)

(* The stage shows the canvas, a hidden element (a matter of looks) apart, *)
(* and the selected element's handles.                                     *)
OnStage == doc.els

(* startDrag: a locked element is selected and not dragged.                *)
Press(e) == /\ e \in OnStage
            /\ Edited
            /\ selected' = e
            /\ \/ gesture' = e /\ Commit(doc)
               \/ UNCHANGED <<gesture, undoing>>
            /\ UNCHANGED <<doc, picture>>

(* startResize and startRotate, from the handles of the selected element.  *)
PressHandle == /\ selected \in OnStage
               /\ Edited
               /\ Commit(doc)
               /\ gesture' = selected
               /\ UNCHANGED <<doc, selected, picture>>

(* The stage beside the elements.                                          *)
Unselect == /\ selected # None
            /\ selected' = None
            /\ UNCHANGED <<doc, gesture, undoing, identity, stored, waits,
                           history>>

(* onMove: nothing when the element is gone by now, however that came.     *)
Move == /\ gesture \in doc.els
        /\ Edited
        /\ doc' \in {[doc EXCEPT !.look = l] : l \in Looks}
        /\ UNCHANGED <<selected, gesture, undoing, picture>>

(* endPointer.                                                             *)
Release == /\ gesture # None
           /\ gesture' = None
           /\ UNCHANGED <<doc, selected, undoing, identity, stored, waits,
                          history>>
-----------------------------------------------------------------------------
(* Pictures: read, scaled down and decoded before they are inserted.       *)

PickPicture == /\ picture = None
               /\ picture' = doc
               /\ UNCHANGED <<canvas, undoing, identity, stored, save, removing,
                              lists, history>>

(* addImage and addQr: what is committed is the canvas of back then.       *)
PictureElement(e) == /\ picture # None
                     /\ Edited
                     /\ AddEl(e, picture)
                     /\ picture' = None
                     /\ UNCHANGED gesture

(* addBgImage.                                                             *)
PictureBackground == /\ picture # None
                     /\ Edited
                     /\ Commit(picture)
                     /\ doc' \in {[doc EXCEPT !.look = l] : l \in Looks}
                     /\ picture' = None
                     /\ UNCHANGED <<selected, gesture>>

PictureFails == /\ picture # None
                /\ picture' = None
                /\ UNCHANGED <<canvas, undoing, identity, stored, save, removing,
                               lists, history>>
-----------------------------------------------------------------------------
(* Opening another canvas.                                                 *)

(* Something is under way that was started from the canvas or the loaded   *)
(* design of now.                                                          *)
Racing == ~Idle \/ picture # None \/ ~NoRemovals

Reset(d) == /\ opened < MaxOpens
            /\ opened' = opened + 1
            /\ doc' = [d EXCEPT !.from = opened + 1]
            /\ selected' = None
            /\ past' = <<>> /\ future' = <<>> /\ fresh' = FALSE
            /\ raced' = (raced \/ Racing)
            /\ UNCHANGED <<gesture, stored, waits, behind, left>>

TemplateKeepsLoaded == \* mutant: no setLoadedId(null)
  \E t \in Templates : Reset(t) /\ UNCHANGED <<loaded, home>>

(* A template: a canvas of its own.                                        *)
OpenTemplate ==
  \E t \in Templates : Reset(t) /\ loaded' = None /\ UNCHANGED home

(* loadDesign: the canvas as the gallery has it.                           *)
OpenDesign(d) == /\ gallery[d] # None
                 /\ Reset(gallery[d])
                 /\ loaded' = d
                 /\ home' = [home EXCEPT ![opened + 1] = d]
-----------------------------------------------------------------------------
(* Saving.                                                                 *)

(* persist up to its first wait; the copy button only shows for a loaded   *)
(* design.                                                                 *)
BeginSave(asNew) ==
  /\ Idle
  /\ asNew => loaded # None
  /\ left.saves > 0
  /\ left' = [left EXCEPT !.saves = @ - 1]
  /\ save' = [at |-> "paint", canvas |-> doc,
              row |-> IF asNew THEN None ELSE loaded, new |-> asNew \/ loaded = None]
  /\ raced' = (raced \/ ~NoRemovals)
  /\ UNCHANGED <<canvas, undoing, identity, stored, picture, removing, lists,
                 behind>>

(* paint(270): the thumbnail, once fonts and pictures are there.           *)
Painted == /\ save.at = "paint"
           /\ save' = [save EXCEPT !.at = "sent"]
           /\ UNCHANGED <<canvas, undoing, identity, stored, picture, removing,
                          lists, history>>

(* save_design.                                                            *)
StoreNew(d) == /\ save.at = "sent" /\ save.new
               /\ designs[d] = None /\ d \notin gone
               /\ designs' = [designs EXCEPT ![d] = save.canvas]
               /\ save' = [save EXCEPT !.at = "stored", !.row = d]
               /\ UNCHANGED <<canvas, undoing, identity, gone, gallery,
                              picture, removing, lists, history>>

(* update_design: the row, if it is there.                                 *)
StoreUpdate == /\ save.at = "sent" /\ ~save.new
               /\ designs[save.row] # None
               /\ designs' = [designs EXCEPT ![save.row] = save.canvas]
               /\ save' = [save EXCEPT !.at = "stored"]
               /\ UNCHANGED <<canvas, undoing, identity, gone, gallery,
                              picture, removing, lists, history>>

ListAsked == /\ Len(lists) < MaxLists
             /\ lists' = Append(lists, [rows |-> designs, crossed |-> FALSE])

SavedForgetsId == \* mutant: no setLoadedId(d.id)
  /\ save.at = "stored"
  /\ home' = [home EXCEPT ![save.canvas.from] = save.row]
  /\ ListAsked
  /\ save' = NoSave
  /\ UNCHANGED <<canvas, undoing, loaded, opened, stored, picture, removing,
                 history>>

SavedUnlisted == \* mutant: no loadGallery()
  /\ save.at = "stored"
  /\ loaded' = IF save.new THEN save.row ELSE loaded
  /\ home' = [home EXCEPT ![save.canvas.from] = save.row]
  /\ save' = NoSave
  /\ UNCHANGED <<canvas, undoing, opened, stored, lists, picture, removing,
                 history>>

(* The answer: a new row is the loaded design from now on.                 *)
Saved == /\ save.at = "stored"
         /\ loaded' = IF save.new THEN save.row ELSE loaded
         /\ home' = [home EXCEPT ![save.canvas.from] = save.row]
         /\ ListAsked
         /\ save' = NoSave
         /\ UNCHANGED <<canvas, undoing, opened, stored, picture, removing,
                        history>>

SaveStuck == \* mutant: no finally { setBusy(false) }
  /\ ~Idle
  /\ behind' = (behind \/ save.at = "stored")
  /\ UNCHANGED <<canvas, undoing, identity, stored, waits, raced, left>>

(* The painting, the request or its answer fails, or the row is gone.      *)
LoseSave == /\ ~Idle
            /\ save' = NoSave
            /\ behind' = (behind \/ save.at = "stored")
            /\ UNCHANGED <<canvas, undoing, identity, stored, picture, removing,
                           lists, raced, left>>
-----------------------------------------------------------------------------
(* The gallery.                                                            *)

FailedAsNone(i) == \* mutant: a failed read leaves no gallery to draw
  /\ i \in 1..Len(lists)
  /\ \/ gallery' = lists[i].rows /\ behind' = (behind \/ lists[i].crossed)
     \/ gallery' = None /\ UNCHANGED behind
  /\ lists' = [j \in 1..(Len(lists) - 1) |->
                 IF j < i THEN [lists[j] EXCEPT !.crossed = TRUE]
                          ELSE lists[j + 1]]
  /\ UNCHANGED <<canvas, undoing, identity, designs, gone, save, picture,
                 removing, raced, left>>

(* loadGallery's answer, in any order; a failed read shows no design.      *)
AnswerList(i) ==
  /\ i \in 1..Len(lists)
  /\ \/ gallery' = lists[i].rows /\ behind' = (behind \/ lists[i].crossed)
     \/ gallery' = [d \in Designs |-> None] /\ UNCHANGED behind
  /\ lists' = [j \in 1..(Len(lists) - 1) |->
                 IF j < i THEN [lists[j] EXCEPT !.crossed = TRUE]
                          ELSE lists[j + 1]]
  /\ UNCHANGED <<canvas, undoing, identity, designs, gone, save, picture,
                 removing, raced, left>>

(* removeDesign up to its wait.                                            *)
BeginRemove(d) ==
  /\ gallery[d] # None
  /\ removing[d] = None
  /\ left.removals > 0
  /\ left' = [left EXCEPT !.removals = @ - 1]
  /\ removing' = [removing EXCEPT ![d] = IF loaded = d THEN "open" ELSE "other"]
  /\ raced' = (raced \/ ~Idle)
  /\ UNCHANGED <<canvas, undoing, identity, stored, save, picture, lists, behind>>

(* delete_design.                                                          *)
StoreRemove(d) ==
  /\ removing[d] # None
  /\ designs[d] # None
  /\ designs' = [designs EXCEPT ![d] = None]
  /\ gone' = gone \cup {d}
  /\ lists' = [j \in 1..Len(lists) |-> [lists[j] EXCEPT !.crossed = TRUE]]
  /\ UNCHANGED <<canvas, undoing, identity, gallery, save, picture, removing,
                 history>>

RemovedStaysLoaded(d) == \* mutant: no setLoadedId(null)
  /\ removing[d] # None
  /\ home' = IF removing[d] = "open" THEN [home EXCEPT ![doc.from] = None]
                                     ELSE home
  /\ gallery' = [gallery EXCEPT ![d] = None]
  /\ removing' = [removing EXCEPT ![d] = None]
  /\ UNCHANGED <<canvas, undoing, loaded, opened, designs, gone, save, picture,
                 lists, history>>

(* removeDesign after its wait, whether the deletion worked or not.        *)
Removed(d) ==
  /\ removing[d] # None
  /\ IF removing[d] = "open"
       THEN loaded' = None /\ home' = [home EXCEPT ![doc.from] = None]
       ELSE UNCHANGED <<loaded, home>>
  /\ gallery' = [gallery EXCEPT ![d] = None]
  /\ removing' = [removing EXCEPT ![d] = None]
  /\ UNCHANGED <<canvas, undoing, opened, designs, gone, save, picture, lists,
                 history>>

(* The gallery above the editor (GalleryPreview), or another window,       *)
(* deletes by its own list; the editor is not told.                        *)
RemoveElsewhere(d) ==
  /\ left.removals > 0
  /\ left' = [left EXCEPT !.removals = @ - 1]
  /\ designs[d] # None
  /\ designs' = [designs EXCEPT ![d] = None]
  /\ gone' = gone \cup {d}
  /\ lists' = [j \in 1..Len(lists) |-> [lists[j] EXCEPT !.crossed = TRUE]]
  /\ behind' = TRUE
  /\ UNCHANGED <<canvas, undoing, identity, gallery, save, picture, removing,
                 raced>>
-----------------------------------------------------------------------------
(* The keys, where no field has the focus, do what buttons do.             *)
Keyboard == \/ Undo \/ Redo \/ Remove \/ Arrange \/ Patch
            \/ \E e \in Elements : Duplicate(e)

Pointer == \/ PressHandle \/ Unselect \/ Move \/ Release
           \/ \E e \in Elements : Press(e)

Panels == \/ SetBg \/ Resize
          \/ \E e \in Elements : Insert(e) \/ Layer(e)

Pictures == \/ PickPicture \/ PictureBackground \/ PictureFails
            \/ \E e \in Elements : PictureElement(e)

(* The steps of a save once begun.                                         *)
SaveStep == \/ Painted \/ StoreUpdate \/ Saved \/ LoseSave
            \/ \E d \in Designs : StoreNew(d)

Saving == SaveStep \/ \E asNew \in BOOLEAN : BeginSave(asNew)

Gallery == \/ OpenTemplate
           \/ \E i \in 1..MaxLists : AnswerList(i)
           \/ \E d \in Designs : \/ OpenDesign(d) \/ BeginRemove(d)
                                 \/ StoreRemove(d) \/ Removed(d)
                                 \/ RemoveElsewhere(d)

Next == Pause \/ Keyboard \/ Pointer \/ Panels \/ Pictures \/ Saving \/ Gallery

Spec == Init /\ [][Next]_vars

(* Every request is answered or fails.                                     *)
Fairness == /\ WF_vars(SaveStep)
            /\ WF_vars(\E i \in 1..MaxLists : AnswerList(i))

FairSpec == Spec /\ Fairness
-----------------------------------------------------------------------------
(* The type of every variable.                                             *)
TypeOK ==
  /\ doc \in Canvas
  /\ selected \in Elements \cup {None}
  /\ gesture \in Elements \cup {None}
  /\ past \in Seq(Canvas) /\ future \in Seq(Canvas) /\ fresh \in BOOLEAN
  /\ loaded \in Designs \cup {None}
  /\ home \in [0..MaxOpens -> Designs \cup {None}]
  /\ opened \in 0..MaxOpens
  /\ designs \in [Designs -> Canvas \cup {None}]
  /\ gone \subseteq Designs
  /\ gallery \in [Designs -> Canvas \cup {None}]
  /\ save \in {NoSave} \cup [at : {"paint", "sent", "stored"}, canvas : Canvas,
                             row : Designs \cup {None}, new : BOOLEAN]
  /\ picture \in Canvas \cup {None}
  /\ removing \in [Designs -> {None, "open", "other"}]
  /\ lists \in Seq([rows : [Designs -> Canvas \cup {None}], crossed : BOOLEAN])
  /\ raced \in BOOLEAN /\ behind \in BOOLEAN
  /\ left \in [edits : Nat, saves : Nat, removals : Nat]

(* Whatever is undone, redone, drawn, dropped in or opened, undo and redo  *)
(* together never hold more than the cap on the past alone.                *)
HistoryBounded == Len(past) + Len(future) <= Cap

(* The selected element is on the canvas: the keys that work on the        *)
(* selection never commit an edit of an element that undo, a template or   *)
(* another design took away.                                               *)
SelectionLives == selected \in doc.els \cup {None}

(* The Update button writes the canvas to the design it was opened from or *)
(* last saved as, unless another canvas was opened, or a save and a        *)
(* deletion crossed, while a handler was waiting.                          *)
LoadedIsHome == ~raced => loaded = home[doc.from]

(* What the gallery shows is what is stored, once nothing is under way,    *)
(* unless an answer was lost, overtaken, or crossed by a deletion, or a    *)
(* design was deleted elsewhere.                                           *)
GalleryCurrent ==
  (Idle /\ NoRemovals /\ lists = <<>> /\ ~behind) =>
    \A d \in Designs : gallery[d] \in {None, designs[d]}

(* The save button comes back.                                             *)
SaveEnds == ~Idle ~> Idle
===============================================================================
