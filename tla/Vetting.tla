-------------------------------- MODULE Vetting --------------------------------
(***************************************************************************)
(* Whether a creator is who they say: the documents a creator puts on the  *)
(* profile (update_my_creator of backend-rust/creators), the dialog of the *)
(* admin portal that shows them and takes a decision, and the table that   *)
(* takes one without them (app/admin-portal/page.tsx of frontend-next).    *)
(***************************************************************************)
EXTENDS Naturals, FiniteSets

CONSTANTS
  Admins,     (* the admins at work                                        *)
  NoDoc,      (* no document                                               *)
  MaxUploads,   (* bound: times the creator changes a document             *)
  MaxAbandoned  (* bound: decisions whose dialogs were closed              *)

ASSUME VettingAssumption ==
  NoDoc \notin Nat /\ MaxUploads \in Nat /\ MaxAbandoned \in Nat

VARIABLES
  file,      (* the documents on file, by kind                             *)
  kyc,       (* "not_started", "pending", "verified" or "rejected"         *)
  vetting,   (* the dialog of each admin                                   *)
  abandoned, (* decisions under way whose dialogs were closed              *)
  uploads,   (* changes of documents so far                                *)
  approved,  (* history: the documents last approved from a dialog         *)
  byTable,   (* history: the status was last set from the table            *)
  swapped    (* history: documents changed while a dialog showed them, or  *)
             (* since they were approved                                   *)

vettingVars == <<file, kyc, vetting, abandoned, uploads, approved, byTable, swapped>>

Kinds == {"id", "account"}
Statuses == {"not_started", "pending", "verified", "rejected"}
Closed == [at |-> "closed"]
Nothing == [k \in Kinds |-> NoDoc]
Whole(f) == \A k \in Kinds : f[k] # NoDoc

VettingInit == /\ file = Nothing /\ kyc = "not_started"
               /\ vetting = [a \in Admins |-> Closed] /\ abandoned = {}
               /\ uploads = 0 /\ approved = Nothing
               /\ byTable = FALSE /\ swapped = FALSE
-----------------------------------------------------------------------------
(* A document is added, replaced or taken away.  Both on file start the    *)
(* vetting, once: what the request leaves alone counts as it is, and what  *)
(* it takes away counts as it was.                                         *)
Upload(k) ==
  /\ uploads < MaxUploads
  /\ uploads' = uploads + 1
  /\ \E d \in {uploads', NoDoc} :
       /\ file' = [file EXCEPT ![k] = d]
       /\ kyc' = IF kyc = "not_started" /\ \A m \in Kinds : file[m] # NoDoc \/ (m = k /\ d # NoDoc)
                   THEN "pending" ELSE kyc
  /\ swapped' = TRUE
  /\ UNCHANGED <<vetting, abandoned, approved, byTable>>

Dialog(a, v) == vetting' = [vetting EXCEPT ![a] = v]
Decided == UNCHANGED <<file, kyc, uploads, approved, byTable, swapped>>
Server == Decided /\ UNCHANGED abandoned

Vet(a) == vetting[a] = Closed /\ Dialog(a, [at |-> "asked"]) /\ Server

(* get_verification: what is on file now.                                  *)
ServeVerification(a) == /\ vetting[a].at = "asked"
                        /\ Dialog(a, [at |-> "shown", docs |-> file])
                        /\ Server

(* Could not be loaded, the decision is answered, or closed, at any time:  *)
(* a decision under way goes on without its dialog.                        *)
VetEnds(a) ==
  /\ vetting[a] # Closed
  /\ Dialog(a, Closed)
  /\ IF vetting[a].at = "deciding"
       THEN /\ Cardinality(abandoned) < MaxAbandoned
            /\ abandoned' = abandoned \cup {[docs |-> vetting[a].docs,
                                             status |-> vetting[a].status]}
       ELSE UNCHANGED abandoned
  /\ Decided

DecideAnything(a, s) == \* mutant: the buttons do not look at the documents
  /\ vetting[a].at = "shown"
  /\ s \in {"rejected", "pending", "verified"}
  /\ Dialog(a, [at |-> "deciding", docs |-> vetting[a].docs, status |-> s])
  /\ Server

Decide(a, s) ==
  /\ vetting[a].at = "shown"
  /\ s \in {"rejected", "pending", "verified"}
  /\ s = "verified" => Whole(vetting[a].docs)
  /\ Dialog(a, [at |-> "deciding", docs |-> vetting[a].docs, status |-> s])
  /\ Server

(* set_kyc: whatever is on file by now.                                    *)
Settle(decision) ==
  /\ kyc' = decision.status
  /\ approved' = IF kyc' = "verified" THEN decision.docs ELSE approved
  /\ swapped' = (kyc' = "verified" /\ decision.docs # file)
  /\ byTable' = FALSE
  /\ UNCHANGED <<file, uploads>>

ServeDecision(a) ==
  /\ vetting[a].at = "deciding"
  /\ Settle(vetting[a])
  /\ Dialog(a, [at |-> "decided", docs |-> vetting[a].docs])
  /\ UNCHANGED abandoned

ServeAbandoned(decision) == /\ Settle(decision)
                            /\ abandoned' = abandoned \ {decision}
                            /\ UNCHANGED vetting

DecisionFails(a) == /\ vetting[a].at \in {"deciding", "decided"}
                    /\ Dialog(a, [at |-> "shown", docs |-> vetting[a].docs])
                    /\ Server

SetKyc(s) == /\ s # kyc /\ kyc' = s
             /\ byTable' = TRUE
             /\ UNCHANGED <<file, vetting, abandoned, uploads, approved, swapped>>

VettingNext == \/ \E k \in Kinds : Upload(k)
               \/ \E a \in Admins : \/ Vet(a) \/ ServeVerification(a) \/ VetEnds(a)
                                    \/ ServeDecision(a) \/ DecisionFails(a)
                                    \/ \E s \in Statuses : Decide(a, s)
               \/ \E decision \in abandoned : ServeAbandoned(decision)
               \/ \E s \in Statuses : SetKyc(s)
-----------------------------------------------------------------------------
(* A creator verified from the dialog has both documents on file, and they *)
(* are those the admin saw, unless the creator changed them since they     *)
(* were shown.                                                             *)
VerifiedAsSeen ==
  kyc = "verified" /\ ~byTable /\ ~swapped => Whole(file) /\ approved = file
===============================================================================
