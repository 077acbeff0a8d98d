--------------------------------- MODULE Vault ---------------------------------
(***************************************************************************)
(* The exclusive posts of a creator: the composer and the list of the      *)
(* dashboard's ExclusiveTab, and the rows of exclusive_posts kept by       *)
(* backend-rust/creators.                                                  *)
(*                                                                         *)
(* One composer serves for new posts and for edits.  Publishing and        *)
(* compressing a picture wait, and the composer is not locked while they   *)
(* do.  A text or picture is known by the post it was made for: a post,    *)
(* or New for one still to be made.                                        *)
(***************************************************************************)
EXTENDS Naturals, FiniteSets

CONSTANTS
  Posts,   (* the ids of posts                                             *)
  NoPost,  (* null                                                         *)
  New,     (* made for a post that has no id yet                           *)
  Stray    (* a picture that was ready only when the draft was another     *)

ASSUME VaultAssumption == /\ {NoPost, New, Stray} \cap Posts = {}
                          /\ Cardinality({NoPost, New, Stray}) = 3

VARIABLES
  posts,    (* the rows: a content, or Absent                              *)
  fresh,    (* the ids not used yet                                        *)
  list,     (* the posts the tab shows                                     *)
  asked,    (* a list was asked for                                        *)
  compose,  (* the composer: text, picture and editingId                   *)
  meant,    (* history: what the creator writes now, a post or New         *)
  saving,   (* the publish under way                                       *)
  picking   (* what the picture being compressed was picked for            *)

vaultVars == <<posts, fresh, list, asked, compose, meant, saving, picking>>

Absent == [text |-> NoPost, picture |-> NoPost] \* every post has a title
Empty == Absent
NoPublish == [at |-> "none"]

Stored == {p \in Posts : posts[p] # Absent}
InList == {p \in Posts : list[p] # Absent}

(* What was made for a post still to be made is made for the one it became.*)
Becomes(c, p) == [k \in {"text", "picture"} |-> IF c[k] = New THEN p ELSE c[k]]

(* A picture still being compressed when another draft is begun.           *)
Strayed(x) == IF x = NoPost THEN NoPost ELSE Stray

VaultInit == /\ \E kept \in SUBSET Posts :
                  /\ posts = [p \in Posts |-> IF p \in kept
                                THEN [text |-> p, picture |-> p] ELSE Absent]
                  /\ fresh = Posts \ kept
             /\ list = [p \in Posts |-> Absent] /\ asked = TRUE
             /\ compose = [text |-> NoPost, picture |-> NoPost, editing |-> NoPost]
             /\ meant = New
             /\ saving = NoPublish
             /\ picking = NoPost
-----------------------------------------------------------------------------
(* Another draft is begun, of a post that is edited or of a new one.       *)
Begin(c, p) == /\ compose' = [text |-> c.text, picture |-> c.picture, editing |-> p]
               /\ meant' = IF p = NoPost THEN New ELSE p
               /\ picking' = Strayed(picking)

ResetKeepsEditing == \* mutant: no setEditingId(null)
  /\ compose' = [text |-> NoPost, picture |-> NoPost, editing |-> compose.editing]
  /\ meant' = New
  /\ picking' = Strayed(picking)

ResetDraft == Begin(Empty, NoPost)

(* startEdit of a post in the list, with the content the list has of it.   *)
StartEdit(p) == /\ p \in InList
                /\ Begin(list[p], p)
                /\ UNCHANGED <<posts, fresh, list, asked, saving>>

CancelEdit == /\ compose.editing # NoPost
              /\ ResetDraft
              /\ UNCHANGED <<posts, fresh, list, asked, saving>>

Composed == UNCHANGED <<posts, fresh, list, asked, meant, saving>>

(* Title, body, kind, link, access; or a template.                         *)
Write == /\ compose' = [compose EXCEPT !.text = meant]
         /\ UNCHANGED picking /\ Composed

(* Clear, and the picture's Remove: what is edited stays edited.           *)
Clear == /\ \E t \in {NoPost, compose.text} :
              compose' = [compose EXCEPT !.text = t, !.picture = NoPost]
         /\ UNCHANGED picking /\ Composed

(* A file is chosen or dropped, and compressed; then it is the composer's, *)
(* whatever is in the composer by then.                                    *)
ChooseFile == /\ picking = NoPost
              /\ picking' = meant
              /\ UNCHANGED compose /\ Composed

Compressed == /\ picking # NoPost
              /\ compose' = [compose EXCEPT !.picture = picking]
              /\ picking' = NoPost
              /\ Composed
-----------------------------------------------------------------------------
Publish == /\ saving = NoPublish
           /\ compose.text # NoPost
           /\ saving' = [at |-> "sent", post |-> compose.editing,
                         text |-> compose.text, picture |-> compose.picture]
           /\ UNCHANGED <<posts, fresh, list, asked, compose, meant, picking>>

(* create_post.                                                            *)
StoreCreated ==
  /\ saving.at = "sent" /\ saving.post = NoPost
  /\ \E p \in fresh : /\ posts' = [posts EXCEPT ![p] = Becomes(saving, p)]
                      /\ fresh' = fresh \ {p}
  /\ saving' = [saving EXCEPT !.at = "stored"]
  /\ UNCHANGED <<list, asked, compose, meant, picking>>

(* update_post; the picture is always sent, an empty one included.         *)
StoreUpdated ==
  /\ saving.at = "sent" /\ saving.post \in Stored
  /\ posts' = [posts EXCEPT ![saving.post] =
                 [text |-> saving.text, picture |-> saving.picture]]
  /\ saving' = [saving EXCEPT !.at = "stored"]
  /\ UNCHANGED <<fresh, list, asked, compose, meant, picking>>

(* The answer: the composer is emptied, whatever was written meanwhile.    *)
Published == /\ saving.at = "stored"
             /\ ResetDraft
             /\ asked' = TRUE
             /\ saving' = NoPublish
             /\ UNCHANGED <<posts, fresh, list>>

(* Not found, refused, lost, or the answer lost.                           *)
PublishFails == /\ saving # NoPublish
                /\ saving' = NoPublish
                /\ UNCHANGED <<posts, fresh, list, asked, compose, meant, picking>>

(* duplicate, which nothing disables: a post of the same content.          *)
CopyPost(p) ==
  /\ p \in InList
  /\ \E new \in fresh :
       LET c == [k \in {"text", "picture"} |->
                   IF list[p][k] = p THEN New ELSE list[p][k]]
       IN /\ posts' = [posts EXCEPT ![new] = Becomes(c, new)]
          /\ fresh' = fresh \ {new}
  /\ asked' = TRUE
  /\ UNCHANGED <<list, compose, meant, saving, picking>>

(* Deleted, or not; the list is asked for either way.                      *)
DeletePost(p) == /\ p \in InList
                 /\ posts' \in {posts, [posts EXCEPT ![p] = Absent]}
                 /\ asked' = TRUE
                 /\ UNCHANGED <<fresh, list, compose, meant, saving, picking>>

(* The list is answered; a failed one shows no posts.                      *)
ShowPosts == /\ asked
             /\ asked' = FALSE
             /\ list' \in {posts, [p \in Posts |-> Absent]}
             /\ UNCHANGED <<posts, fresh, compose, meant, saving, picking>>

VaultNext ==
  \/ \E p \in Posts : StartEdit(p) \/ CopyPost(p) \/ DeletePost(p)
  \/ CancelEdit \/ Write \/ Clear \/ ChooseFile \/ Compressed
  \/ Publish \/ StoreCreated \/ StoreUpdated \/ Published \/ PublishFails
  \/ ShowPosts
-----------------------------------------------------------------------------
(* A post has a text that was written for it, and no picture but one that  *)
(* was picked for it: an edit never lands in another post, and an edit     *)
(* that is over is not continued by the next new post.  Only a picture     *)
(* that was ready when the composer held another draft goes wherever the   *)
(* composer goes next.                                                     *)
PostsAsMeant ==
  \A p \in Stored : posts[p].text = p /\ posts[p].picture \in {NoPost, p, Stray}
===============================================================================
