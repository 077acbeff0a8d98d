-------------------------------- MODULE Pages --------------------------------
(***************************************************************************)
(* The pages of frontend-next around the dashboard: signing in and up, the *)
(* wizard, the fan's pages and the admin portal.  A behaviour is that of   *)
(* the page it visits; the variables of the others rest in a fixed initial *)
(* state, for the pages share nothing but what the services keep.          *)
(***************************************************************************)
EXTENDS Codes, Session, Register, Onboarding, TipPage, Callback, Reader, Vetting, Desk

VARIABLE page  (* the page this behaviour visits                           *)

pagesVars == <<page, codesVars, sessionVars, registerVars, onboardVars, tipPageVars,
               callbackVars, readerVars, vettingVars, deskVars>>

Visited == {"codes", "session", "register", "wizard", "tip", "callback", "reader",
            "vetting", "desk"}

Init ==
  /\ page \in Visited
  /\ CodesInit
  /\ SessionInit  /\ (page # "session"  => stored = NoOne)
  /\ RegisterInit /\ (page # "register" => joined = 0)
  /\ OnboardInit  /\ (page # "wizard"   => mine = NoPage)
  /\ TipPageInit  /\ (page # "tip"      => jar = "none")
  /\ CallbackInit /\ (page # "callback" => known /\ forced = "none")
  /\ ReaderInit   /\ (page # "reader"   => subs = [e \in Emails |-> {}] /\ email = CHOOSE e \in Emails : TRUE)
  /\ VettingInit
  /\ DeskInit     /\ (page # "desk"     => list = "creators")

AtCodes == /\ page = "codes" /\ CodesNext
           /\ UNCHANGED <<page, sessionVars, registerVars, onboardVars, tipPageVars,
                          callbackVars, readerVars, vettingVars, deskVars>>

AtSession == /\ page = "session" /\ SessionNext
             /\ UNCHANGED <<page, codesVars, registerVars, onboardVars, tipPageVars,
                            callbackVars, readerVars, vettingVars, deskVars>>

AtRegister == /\ page = "register" /\ RegisterNext
              /\ UNCHANGED <<page, codesVars, sessionVars, onboardVars, tipPageVars,
                             callbackVars, readerVars, vettingVars, deskVars>>

AtOnboard == /\ page = "wizard" /\ OnboardNext
             /\ UNCHANGED <<page, codesVars, sessionVars, registerVars, tipPageVars,
                            callbackVars, readerVars, vettingVars, deskVars>>

AtTipPage == /\ page = "tip" /\ TipPageNext
             /\ UNCHANGED <<page, codesVars, sessionVars, registerVars, onboardVars,
                            callbackVars, readerVars, vettingVars, deskVars>>

AtCallback == /\ page = "callback" /\ CallbackNext
              /\ UNCHANGED <<page, codesVars, sessionVars, registerVars,
                             onboardVars, tipPageVars, readerVars, vettingVars,
                             deskVars>>

AtReader == /\ page = "reader" /\ ReaderNext
            /\ UNCHANGED <<page, codesVars, sessionVars, registerVars, onboardVars,
                           tipPageVars, callbackVars, vettingVars, deskVars>>

AtVetting == /\ page = "vetting" /\ VettingNext
             /\ UNCHANGED <<page, codesVars, sessionVars, registerVars, onboardVars,
                            tipPageVars, callbackVars, readerVars, deskVars>>

AtDesk == /\ page = "desk" /\ DeskNext
          /\ UNCHANGED <<page, codesVars, sessionVars, registerVars, onboardVars,
                         tipPageVars, callbackVars, readerVars, vettingVars>>

Next == \/ AtCodes \/ AtSession \/ AtRegister \/ AtOnboard
        \/ AtTipPage \/ AtCallback \/ AtReader \/ AtVetting
        \/ AtDesk

Spec == Init /\ [][Next]_pagesVars
===============================================================================
