--------------------------- MODULE AccountAccess ----------------------------
(***************************************************************************)
(* Who is signed in to one account, and how that ends: the browser sessions*)
(* of oauth/session.ts, signing in (oauth/account-routes.ts, authorize.ts),*)
(* a change of password and a sign-out everywhere (oauth/account.ts),      *)
(* against the codes and grants under way.                                 *)
(*                                                                         *)
(* A step is one statement, or the hashing of a password; the writes of a  *)
(* sign-out's transaction are seen at its commit.                          *)
(***************************************************************************)
EXTENDS Naturals

CONSTANTS Sessions,    \* ids mint('session') may draw
          Grants,      \* ids of a code and of the grant it founds
          Requests, None,
          MaxPassword  \* bound: passwords of the account, one after the other

ASSUME NoneIsNoSession == None \notin Sessions
ASSUME SessionsAreNotGrants == Sessions \cap Grants = {}
ASSUME MaxPasswordIsNat == MaxPassword \in Nat \ {0}

VARIABLES
  password, \* the version of accounts.password_hash
  live,     \* as_sessions rows not revoked and not expired
  coded,    \* codes issued and not redeemed
  granted,  \* grants not revoked
  pc, req,
  proof,    \* history: the password in force when a session's sign-in was checked
  spared,   \* history: sessions a change of password cannot have ended
  ended     \* history: what sign-outs and disconnections have found and ended

vars == <<password, live, coded, granted, pc, req, proof, spared, ended>>

\* session: the one the browser had; pw: the password checked or set;
\* grants, sessions: what the transaction revokes; found: what it began with.
NoReq == [session |-> None, pw |-> 0, change |-> FALSE, late |-> FALSE,
          grants |-> {}, sessions |-> {}, found |-> {}]
SigningIn  == {"replace", "insert"}
SigningOut == {"lock", "endSessions", "commit"}
Steps      == {"idle", "code", "update"} \cup SigningIn \cup SigningOut

TypeOK ==
  /\ password \in 1..MaxPassword
  /\ live \subseteq Sessions /\ coded \subseteq Grants /\ granted \subseteq Grants
  /\ coded \cap granted = {}
  /\ pc \in [Requests -> Steps]
  /\ req \in [Requests -> [session : Sessions \cup {None}, pw : 0..MaxPassword, change : BOOLEAN,
                           late : BOOLEAN, grants : SUBSET Grants, sessions : SUBSET Sessions,
                           found : SUBSET (Sessions \cup Grants)]]
  /\ proof \in [Sessions -> 0..MaxPassword]
  /\ spared \subseteq Sessions
  /\ ended \subseteq Sessions \cup Grants

Init ==
  /\ password = 1
  /\ live = {} /\ coded = {} /\ granted = {}
  /\ pc = [r \in Requests |-> "idle"] /\ req = [r \in Requests |-> NoReq]
  /\ proof = [s \in Sessions |-> 0]
  /\ spared = {} /\ ended = {}

Goto(r, step) == pc' = [pc EXCEPT ![r] = step]
Finish(r) == Goto(r, "idle") /\ req' = [req EXCEPT ![r] = NoReq]
Begin(r, step, s) ==
  /\ pc[r] = "idle"
  /\ Goto(r, step)
  /\ req' = [req EXCEPT ![r].session = s, ![r].pw = password]

-----------------------------------------------------------------------------
(* Signing in and out in one browser.                                      *)

\* verifyCredentials, or finishAuthentication; s is the session of the cookie.
SignIn(r, s) ==
  /\ Begin(r, "replace", s)
  /\ UNCHANGED <<password, live, coded, granted, proof, spared, ended>>

\* revokeAsSession: always a fresh session, never an upgraded one.
Replace(r) ==
  /\ pc[r] = "replace"
  /\ live' = live \ {req[r].session}
  /\ Goto(r, "insert")
  /\ UNCHANGED <<password, coded, granted, req, proof, spared, ended>>

\* startAsSession.
Start(r, s) ==
  /\ pc[r] = "insert" /\ proof[s] = 0
  /\ live' = live \cup {s}
  /\ proof' = [proof EXCEPT ![s] = req[r].pw]
  /\ spared' = IF req[r].late THEN spared \cup {s} ELSE spared
  /\ Finish(r)
  /\ UNCHANGED <<password, coded, granted, ended>>

\* Logged out, or its time is over.
End(s) ==
  /\ s \in live
  /\ live' = live \ {s}
  /\ UNCHANGED <<password, coded, granted, pc, req, proof, spared, ended>>

-----------------------------------------------------------------------------
(* An application is authorized from a session.                            *)

\* readAsSession for the cookie, and the form's own CSRF value.
SignedIn(s) == s \in live

Authorize(r, s) ==
  /\ SignedIn(s)
  /\ Begin(r, "code", s)
  /\ UNCHANGED <<password, live, coded, granted, proof, spared, ended>>

Issue(r, g) ==
  /\ pc[r] = "code" /\ g \notin coded \cup granted \cup ended
  /\ coded' = coded \cup {g}
  /\ Finish(r)
  /\ UNCHANGED <<password, live, granted, proof, spared, ended>>

\* establishGrant; the code does not depend on the session any more.
Redeem(g) ==
  /\ g \in coded
  /\ coded' = coded \ {g} /\ granted' = granted \cup {g}
  /\ UNCHANGED <<password, live, pc, req, proof, spared, ended>>

-----------------------------------------------------------------------------
(* revokeConnectedApp, signOutEverywhere and changePassword.               *)

Disconnect(g) ==
  /\ g \in granted
  /\ granted' = granted \ {g} /\ ended' = ended \cup {g}
  /\ UNCHANGED <<password, live, coded, pc, req, proof, spared>>

SignOut(r, s) ==
  /\ SignedIn(s)
  /\ Begin(r, "lock", s)
  /\ UNCHANGED <<password, live, coded, granted, proof, spared, ended>>

\* The current password is right; the new one is hashed.
ChangePassword(r, s) ==
  /\ SignedIn(s)
  /\ Begin(r, "update", s)
  /\ UNCHANGED <<password, live, coded, granted, proof, spared, ended>>

\* Slip: the sign-out comes first, and the password after it.
ReplacePasswordLast(r) ==
  /\ pc[r] = "update" /\ password < MaxPassword
  /\ req' = [req EXCEPT ![r].pw = password + 1, ![r].change = TRUE,
                        ![r].found = live \cup granted, ![r].grants = granted, ![r].sessions = live]
  /\ password' = password + 1
  /\ spared' = spared
  /\ Goto(r, "commit")
  /\ UNCHANGED <<live, coded, granted, proof, ended>>

\* The UPDATE.  Sign-ins checked before it and not yet finished, and the fresh
\* session of another change, can no longer be stopped.
ReplacePassword(r) ==
  /\ pc[r] = "update" /\ password < MaxPassword
  /\ password' = password + 1
  /\ req' = [q \in Requests |->
       IF q = r THEN [req[r] EXCEPT !.pw = password + 1, !.change = TRUE]
       ELSE [req[q] EXCEPT !.late = @ \/ pc[q] \in SigningIn \/ req[q].change]]
  /\ Goto(r, "lock")
  /\ UNCHANGED <<live, coded, granted, proof, spared, ended>>

Lock(r) ==
  /\ pc[r] = "lock"
  /\ req' = [req EXCEPT ![r].grants = granted, ![r].found = live \cup granted]
  /\ Goto(r, "endSessions")
  /\ UNCHANGED <<password, live, coded, granted, proof, spared, ended>>

\* Slip: only the session of the request (revokeAsSession).
OwnSession(r) == live \cap {req[r].session}

\* revokeAllAsSessions.
SessionsFound(r) == live

EndSessions(r) ==
  /\ pc[r] = "endSessions"
  /\ req' = [req EXCEPT ![r].sessions = SessionsFound(r)]
  /\ Goto(r, "commit")
  /\ UNCHANGED <<password, live, coded, granted, proof, spared, ended>>

\* Committed and announced; after a change of password a fresh session starts.
Commit(r) ==
  /\ pc[r] = "commit"
  /\ granted' = granted \ req[r].grants
  /\ live' = live \ req[r].sessions
  /\ ended' = ended \cup req[r].found
  /\ IF req[r].change
     THEN Goto(r, "insert") /\ req' = [req EXCEPT ![r].found = {}, ![r].grants = {}, ![r].sessions = {}]
     ELSE Finish(r)
  /\ UNCHANGED <<password, coded, proof, spared>>

\* The transaction, or the process, fails.  After a change of password the old
\* sessions stay.
Fail(r) ==
  /\ pc[r] \in SigningOut
  /\ spared' = IF req[r].change THEN spared \cup live ELSE spared
  /\ pc' = [pc EXCEPT ![r] = "idle"]
  /\ req' = [req EXCEPT ![r] = NoReq]
  /\ UNCHANGED <<password, live, coded, granted, proof, ended>>

Next ==
  \/ \E r \in Requests :
       \/ \E s \in live \cup {None} : SignIn(r, s)
       \/ \E s \in Sessions : Start(r, s) \/ Authorize(r, s) \/ SignOut(r, s) \/ ChangePassword(r, s)
       \/ \E g \in Grants : Issue(r, g)
       \/ Replace(r) \/ ReplacePassword(r) \/ Lock(r) \/ EndSessions(r) \/ Commit(r) \/ Fail(r)
  \/ \E s \in Sessions : End(s)
  \/ \E g \in Grants : Redeem(g) \/ Disconnect(g)

Spec == Init /\ [][Next]_vars

-----------------------------------------------------------------------------
(* Correctness.                                                            *)

Changing == \E r \in Requests : pc[r] \in SigningOut /\ req[r].change

\* Once a change of password is over, a session signed in under an older one
\* is left only by a sign-in that was under way at the change, or by a change
\* whose sign-out failed (changePassword: the UPDATE and the sign-out are two
\* transactions, and a sign-in checks the password before it starts a session).
OldSessionsWereUnderWay ==
  ~Changing => \A s \in live : proof[s] = password \/ s \in spared

\* Nothing a sign-out everywhere found when its transaction began is there
\* after it, however many sign-outs, sign-ins and redemptions overlap
\* (signOutEverywhere).
SignOutEndsWhatItFound == ended \cap (live \cup granted) = {}
=============================================================================
