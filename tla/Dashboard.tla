------------------------------ MODULE Dashboard ------------------------------
(***************************************************************************)
(* The creator dashboard of frontend-next (app/dashboard/page.tsx): the    *)
(* frame around the tabs, and what each tab does.  The tabs are mounted    *)
(* one at a time and share nothing but the creator's page, so a behaviour  *)
(* is that of the one it visits; the variables of the others rest in a     *)
(* fixed initial state.                                                    *)
(***************************************************************************)
EXTENDS Shell, ProfileTab, Outreach, Ledger, Vault, Jars, Figures

VARIABLE part  (* the tab, or the frame, this behaviour visits             *)

dashboardVars == <<part, shellVars, profileVars, thankVars, updateVars, ledgerVars,
                   vaultVars, jarVars, figureVars>>

Parts == {"frame", "profile", "thanks", "update", "ledger", "vault", "jars", "figures"}

Init ==
  /\ part \in Parts
  /\ ShellInit   /\ (part # "frame"   => url = NoTab)
  /\ ProfileInit /\ (part # "profile" => row = [f \in Fields |-> Blank])
  /\ ThankInit /\ UpdateInit
  /\ LedgerInit
  /\ VaultInit   /\ (part # "vault"   => Stored = {})
  /\ JarsInit    /\ (part # "jars"    => Rows = {})
  /\ IF part = "figures" THEN FiguresInit
     ELSE /\ now = [day |-> 0, hour |-> 0] /\ zone = Ahead
          /\ paidAt = [t \in TipIds |-> ToCome] /\ known = {}
          /\ daily = NoRows /\ since = ToCome
          /\ range = CHOOSE r \in Ranges : TRUE

InFrame == /\ part = "frame" /\ ShellNext
           /\ UNCHANGED <<part, profileVars, thankVars, updateVars, ledgerVars,
                          vaultVars, jarVars, figureVars>>

InProfile == /\ part = "profile" /\ ProfileNext
             /\ UNCHANGED <<part, shellVars, thankVars, updateVars, ledgerVars,
                            vaultVars, jarVars, figureVars>>

InThanks == /\ part = "thanks" /\ ThankNext
            /\ UNCHANGED <<part, shellVars, profileVars, updateVars, ledgerVars,
                           vaultVars, jarVars, figureVars>>

InUpdate == /\ part = "update" /\ UpdateNext
            /\ UNCHANGED <<part, shellVars, profileVars, thankVars, ledgerVars,
                           vaultVars, jarVars, figureVars>>

InLedger == /\ part = "ledger" /\ LedgerNext
            /\ UNCHANGED <<part, shellVars, profileVars, thankVars, updateVars,
                           vaultVars, jarVars, figureVars>>

InVault == /\ part = "vault" /\ VaultNext
           /\ UNCHANGED <<part, shellVars, profileVars, thankVars, updateVars,
                          ledgerVars, jarVars, figureVars>>

InJars == /\ part = "jars" /\ JarsNext
          /\ UNCHANGED <<part, shellVars, profileVars, thankVars, updateVars,
                         ledgerVars, vaultVars, figureVars>>

InFigures == /\ part = "figures" /\ FiguresNext
             /\ UNCHANGED <<part, shellVars, profileVars, thankVars, updateVars,
                            ledgerVars, vaultVars, jarVars>>

Next == \/ InFrame \/ InProfile \/ InThanks \/ InUpdate
        \/ InLedger \/ InVault \/ InJars \/ InFigures

Spec == Init /\ [][Next]_dashboardVars
===============================================================================
