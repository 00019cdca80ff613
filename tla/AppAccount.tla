----------------------------- MODULE AppAccount -----------------------------
(***************************************************************************)
(* Whose app it is: the app is signed in with one grant or with none, it   *)
(* has no access token of any other, and a session that is over does not   *)
(* come back, but once for every time that the keychain did not delete it  *)
(* or not hand it out.  MobileSession is shown to implement this module.   *)
(***************************************************************************)
CONSTANTS Grants, None

VARIABLES
  signedIn, \* the grant of the session, or None
  bearer,   \* the grant of the access token that calls are made with, or None
  past,     \* grants whose session is over, or never began
  slips     \* those of them that the keychain may have yet

vars == <<signedIn, bearer, past, slips>>

Init == signedIn = None /\ bearer = None /\ past = {} /\ slips = {}

Enter(g) ==
  /\ signedIn = None /\ g \notin past
  /\ signedIn' = g /\ bearer' = g
  /\ UNCHANGED <<past, slips>>

\* The access token is renewed, or forgotten.
Renew ==
  /\ signedIn # None
  /\ bearer' \in {signedIn, None}
  /\ UNCHANGED <<signedIn, past, slips>>

Leave ==
  /\ signedIn # None
  /\ signedIn' = None /\ bearer' = None
  /\ past' = past \cup {signedIn}
  /\ slips' \in {slips, slips \cup {signedIn}}

\* A sign-in whose tokens the app never had.
Miss(g) ==
  /\ signedIn = None
  /\ past' = past \cup {g}
  /\ UNCHANGED <<signedIn, bearer, slips>>

\* The app starts with what the keychain has, and gives up what it was about: a
\* session it could not keep, or a sign-in.
Return(g) ==
  /\ g \in past \cap slips
  /\ signedIn' = g /\ bearer' = None
  /\ \E h \in (Grants \cup {None}) \ {g} :
       /\ signedIn # None => h = signedIn
       /\ past' = (past \ {g}) \cup ({h} \ {None})
  /\ slips' = slips \ {g}

Next == Renew \/ Leave \/ \E g \in Grants : Enter(g) \/ Miss(g) \/ Return(g)

Spec == Init /\ [][Next]_vars
=============================================================================
