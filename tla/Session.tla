-------------------------------- MODULE Session --------------------------------
(***************************************************************************)
(* Who is signed in (lib/auth.tsx of frontend-next, and the login page):   *)
(* the token kept in localStorage, which the windows of a browser share,   *)
(* and the token and user each window holds.  A token is known by its      *)
(* account.                                                                *)
(*                                                                         *)
(* A window that starts asks whose the stored token is, and can be signed  *)
(* in or out of before it is answered.                                     *)
(***************************************************************************)
EXTENDS Naturals

CONSTANTS
  Accounts,  (* the accounts                                               *)
  NoOne,     (* null                                                       *)
  Windows,   (* the windows of the browser                                 *)
  MaxSigns   (* bound: times somebody signs in                             *)

ASSUME SessionAssumption == NoOne \notin Accounts /\ MaxSigns \in Nat

VARIABLES
  stored,      (* the token in localStorage                                *)
  token,       (* the token of each window                                 *)
  user,        (* the user of each window                                  *)
  initialized, (* windows that know whether somebody is signed in          *)
  owning,      (* the token each window asks the owner of                  *)
  signing,     (* the account each window is signing in to                 *)
  outrun,      (* history: windows whose user came with an answer that a   *)
               (* sign-in or a sign-out had outrun                         *)
  signs        (* times somebody signed in so far                          *)

sessionVars == <<stored, token, user, initialized, owning, signing, outrun, signs>>

SessionInit == /\ stored \in Accounts \cup {NoOne}
               /\ token = [w \in Windows |-> NoOne]
               /\ user = [w \in Windows |-> NoOne]
               /\ initialized = {}
               /\ owning = [w \in Windows |-> NoOne]
               /\ signing = [w \in Windows |-> NoOne]
               /\ outrun = {}
               /\ signs = 0
-----------------------------------------------------------------------------
(* The page is loaded, for the first time or again.                        *)
Boot(w) ==
  /\ token' = [token EXCEPT ![w] = stored]
  /\ owning' = [owning EXCEPT ![w] = stored]
  /\ user' = [user EXCEPT ![w] = NoOne]
  /\ signing' = [signing EXCEPT ![w] = NoOne]
  /\ initialized' = IF stored = NoOne THEN initialized \cup {w} ELSE initialized \ {w}
  /\ outrun' = outrun \ {w}
  /\ UNCHANGED <<stored, signs>>

MeEnds(w) == /\ owning[w] # NoOne
             /\ owning' = [owning EXCEPT ![w] = NoOne]
             /\ initialized' = initialized \cup {w}
             /\ UNCHANGED <<signing, signs>>

MeAnswered(w) ==
  /\ MeEnds(w)
  /\ user' = [user EXCEPT ![w] = owning[w]]
  /\ outrun' = IF token[w] = owning[w] THEN outrun ELSE outrun \cup {w}
  /\ UNCHANGED <<stored, token>>

(* Expired, or not to be reached: whatever is stored by now is removed.    *)
MeFails(w) == /\ MeEnds(w)
              /\ stored' = NoOne
              /\ token' = [token EXCEPT ![w] = NoOne]
              /\ UNCHANGED <<user, outrun>>
-----------------------------------------------------------------------------
(* login, and register: the button waits.                                  *)
CanSignIn(w) == signing[w] = NoOne

SignIn(w, a) == /\ CanSignIn(w)
                /\ signs < MaxSigns
                /\ signs' = signs + 1
                /\ signing' = [signing EXCEPT ![w] = a]
                /\ UNCHANGED <<stored, token, user, initialized, owning, outrun>>

PersistKeepsUser(w, a) == \* mutant: a user that is there is kept
  /\ stored' = a
  /\ token' = [token EXCEPT ![w] = a]
  /\ user' = [user EXCEPT ![w] = IF @ = NoOne THEN a ELSE @]
  /\ outrun' = outrun \ {w}

Persist(w, a) == /\ stored' = a
                 /\ token' = [token EXCEPT ![w] = a]
                 /\ user' = [user EXCEPT ![w] = a]
                 /\ outrun' = outrun \ {w}

SignedIn(w) == /\ signing[w] # NoOne
               /\ Persist(w, signing[w])
               /\ signing' = [signing EXCEPT ![w] = NoOne]
               /\ UNCHANGED <<initialized, owning, signs>>

SignInFails(w) == /\ signing[w] # NoOne
                  /\ signing' = [signing EXCEPT ![w] = NoOne]
                  /\ UNCHANGED <<stored, token, user, initialized, owning, outrun,
                                 signs>>

isAuthenticated(w) == token[w] # NoOne /\ user[w] # NoOne

SignOut(w) == /\ isAuthenticated(w)
              /\ stored' = NoOne
              /\ token' = [token EXCEPT ![w] = NoOne]
              /\ user' = [user EXCEPT ![w] = NoOne]
              /\ UNCHANGED <<initialized, owning, signing, outrun, signs>>

SessionNext == \E w \in Windows : \/ Boot(w) \/ MeAnswered(w) \/ MeFails(w)
                                  \/ \E a \in Accounts : SignIn(w, a)
                                  \/ SignedIn(w) \/ SignInFails(w) \/ SignOut(w)
-----------------------------------------------------------------------------
(* isAuthenticated: the account shown is the account acted for, whatever   *)
(* other windows do and however often somebody else signs in - except in a *)
(* window where the first answer came after somebody had signed in or out. *)
SameIdentity ==
  \A w \in Windows \ outrun :
    isAuthenticated(w) => user[w] = token[w]
===============================================================================
