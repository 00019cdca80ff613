---------------------------- MODULE AccessProofs ----------------------------
(***************************************************************************)
(* Proofs about AccountAccess, Passkeys and WriteLimits, for any sessions, *)
(* grants, devices and requests.                                           *)
(*                                                                         *)
(* The arguments.  A session signed in under an old password is left only  *)
(* while some change of password, which no later one has overtaken, has yet*)
(* to end it (Clean, EndsTheRest).  A sign-out ends what it found because  *)
(* what left the account's sessions, codes and grants does not come back:  *)
(* no id of a session is drawn twice, and what was granted was coded once  *)
(* (Spent, Found).  A use of a passkey is alone with its challenge, which  *)
(* is gone once it is accepted, and the row keeps the highest counter that *)
(* was (Answering, OrderInv); the passkeys of an account and the requests  *)
(* about to store one are together fewer than the cap and as many more as  *)
(* there are requests (RoomInv).  The changes of a device keep pace with   *)
(* what its windows have counted (LInv, further down).                     *)
(***************************************************************************)
EXTENDS MCAccess, Sequences, FiniteSetTheorems, TLAPS

USE NoneIsNoSession, SessionsAreNotGrants, MaxPasswordIsNat

\* What a request holds at its step.
Standing(r) ==
  /\ pc[r] # "idle" => req[r].pw \in 1..MaxPassword
  /\ pc[r] \in {"idle", "code", "update"} => ~req[r].change /\ ~req[r].late
  /\ pc[r] \in SigningIn => req[r].late \/ req[r].pw = password
  /\ req[r].change /\ ~req[r].late => req[r].pw = password

\* No session is left that a change of password should have ended.
Clean == \A s \in live : proof[s] = password \/ s \in spared

\* A change of password that no later one has overtaken will end those.
EndsTheRest(r) ==
  /\ pc[r] \in SigningOut /\ req[r].change /\ ~req[r].late
  /\ pc[r] = "commit" => \A s \in live \ req[r].sessions : proof[s] = password \/ s \in spared

\* What was live or granted can be neither drawn nor issued again.
Spent(X) ==
  /\ \A s \in X \cap Sessions : proof[s] # 0
  /\ X \cap coded = {}

\* What a sign-out found is gone, or will be with its commit.
Found(r) ==
  /\ Spent(req[r].found)
  /\ req[r].found \cap Grants \subseteq granted \cup ended
  /\ pc[r] \in {"endSessions", "commit"} =>
       req[r].found \cap granted \subseteq req[r].grants /\ req[r].grants \subseteq req[r].found
  /\ pc[r] = "commit" => req[r].found \cap live \subseteq req[r].sessions

OldInv == /\ \A r \in Requests : Standing(r)
          /\ Clean \/ \E r \in Requests : EndsTheRest(r)
EndInv == /\ Spent(live) /\ Spent(ended)
          /\ \A r \in Requests : Found(r)
          /\ SignOutEndsWhatItFound

Requested == [session : Sessions \cup {None}, pw : 0..MaxPassword, change : BOOLEAN, late : BOOLEAN,
              grants : SUBSET Grants, sessions : SUBSET Sessions, found : SUBSET (Sessions \cup Grants)]

-----------------------------------------------------------------------------
(* Types.                                                                  *)

\* The request of each action, whole.
LEMMA RequestedType ==
  /\ NoReq \in Requested
  /\ \A q \in Requested :
       /\ \A s \in Sessions \cup {None}, pw \in 0..MaxPassword : [q EXCEPT !.session = s, !.pw = pw] \in Requested
       /\ \A pw \in 0..MaxPassword : [q EXCEPT !.pw = pw, !.change = TRUE] \in Requested
       /\ \A b \in BOOLEAN : [q EXCEPT !.late = b] \in Requested
       /\ \A G \in SUBSET Grants, F \in SUBSET (Sessions \cup Grants) : [q EXCEPT !.grants = G, !.found = F] \in Requested
       /\ \A S \in SUBSET Sessions : [q EXCEPT !.sessions = S] \in Requested
       /\ [q EXCEPT !.found = {}, !.grants = {}, !.sessions = {}] \in Requested
  <1>1. NoReq \in Requested
    BY DEF NoReq, Requested
  <1>2. ASSUME NEW q \in Requested, NEW s \in Sessions \cup {None}, NEW pw \in 0..MaxPassword
        PROVE  [q EXCEPT !.session = s, !.pw = pw] \in Requested /\ [q EXCEPT !.pw = pw, !.change = TRUE] \in Requested
    BY DEF Requested
  <1>3. ASSUME NEW q \in Requested, NEW b \in BOOLEAN
        PROVE  [q EXCEPT !.late = b] \in Requested
    BY DEF Requested
  <1>4. ASSUME NEW q \in Requested, NEW G \in SUBSET Grants, NEW F \in SUBSET (Sessions \cup Grants), NEW S \in SUBSET Sessions
        PROVE  [q EXCEPT !.grants = G, !.found = F] \in Requested /\ [q EXCEPT !.sessions = S] \in Requested
    BY DEF Requested
  <1>5. ASSUME NEW q \in Requested PROVE [q EXCEPT !.found = {}, !.grants = {}, !.sessions = {}] \in Requested
    BY DEF Requested
  <1>6. QED
    BY <1>1, <1>2, <1>3, <1>4, <1>5

\* What a step makes of the requests: at most that of one is another, but for a
\* change of password, which tells the others.
LEMMA RequestStep ==
  ASSUME TypeOK, NEW r \in Requests
  PROVE  /\ pc \in [Requests -> Steps] /\ req \in [Requests -> Requested]
         /\ \A step : Goto(r, step) => pc' = [o \in Requests |-> IF o = r THEN step ELSE pc[o]]
         /\ Finish(r) => /\ pc' = [o \in Requests |-> IF o = r THEN "idle" ELSE pc[o]]
                         /\ req' = [o \in Requests |-> IF o = r THEN NoReq ELSE req[o]]
         /\ \A step, s : Begin(r, step, s) =>
              /\ pc' = [o \in Requests |-> IF o = r THEN step ELSE pc[o]]
              /\ req' = [o \in Requests |-> IF o = r THEN [req[r] EXCEPT !.session = s, !.pw = password] ELSE req[o]]
  <1>1. pc \in [Requests -> Steps] /\ req \in [Requests -> Requested]
    BY DEF TypeOK, Requested
  <1>2. ASSUME NEW step, Goto(r, step) PROVE pc' = [o \in Requests |-> IF o = r THEN step ELSE pc[o]]
    BY <1>1, <1>2 DEF Goto
  <1>3. ASSUME Finish(r) PROVE req' = [o \in Requests |-> IF o = r THEN NoReq ELSE req[o]]
    BY <1>1, <1>3 DEF Finish
  <1>4. ASSUME NEW step, NEW s, Begin(r, step, s)
        PROVE  req' = [o \in Requests |-> IF o = r THEN [req[r] EXCEPT !.session = s, !.pw = password] ELSE req[o]]
    BY <1>1, <1>4 DEF Begin
  <1>5. QED
    BY <1>1, <1>2, <1>3, <1>4 DEF Finish, Begin

\* The types, at the start.
LEMMA TypeInit == Init => TypeOK
  <1> SUFFICES ASSUME Init PROVE TypeOK
    OBVIOUS
  <1>1. NoReq \in Requested
    BY DEF NoReq, Requested
  <1>2. req \in [Requests -> Requested] /\ pc \in [Requests -> Steps]
    BY <1>1 DEF Init, Steps
  <1>3. QED
    BY <1>2 DEF Init, TypeOK, Requested

\* And kept, by action.
LEMMA TypeStep == TypeOK /\ [Next]_vars => TypeOK'
  <1> SUFFICES ASSUME TypeOK, [Next]_vars PROVE TypeOK'
    OBVIOUS
  <1> DEFINE Ids == /\ live \subseteq Sessions /\ coded \subseteq Grants /\ granted \subseteq Grants /\ coded \cap granted = {}
                    /\ spared \subseteq Sessions /\ ended \subseteq Sessions \cup Grants
             Reqs == pc \in [Requests -> Steps] /\ req \in [Requests -> Requested]
             Proofs == password \in 1..MaxPassword /\ proof \in [Sessions -> 0..MaxPassword]
  <1>0. Ids /\ Reqs /\ Proofs
    BY DEF TypeOK, Requested
  <1>a. Ids' /\ Reqs' /\ Proofs' => TypeOK'
    BY DEF TypeOK, Requested
  <1> HIDE DEF Ids, Proofs, Reqs
  <1>s. {"idle", "code", "update", "replace", "insert", "lock", "endSessions", "commit"} \subseteq Steps
    BY DEF Steps, SigningIn, SigningOut
  <1>r. ASSUME NEW r \in Requests PROVE req[r] \in Requested /\ NoReq \in Requested
    BY <1>0, RequestedType DEF Reqs
  <1>1. ASSUME NEW r \in Requests, NEW s \in Sessions \cup {None}, SignIn(r, s) \/ (s \in Sessions /\ (Authorize(r, s) \/ SignOut(r, s) \/ ChangePassword(r, s)))
        PROVE Ids' /\ Reqs' /\ Proofs'
    <2>1. [req[r] EXCEPT !.session = s, !.pw = password] \in Requested
      <3>1. password \in 0..MaxPassword
        BY <1>0 DEF Proofs
      <3>2. QED
        BY <1>r, <3>1, RequestedType
    <2>2. PICK step \in {"replace", "code", "lock", "update"} : Begin(r, step, s)
      BY <1>1 DEF SignIn, Authorize, SignOut, ChangePassword
    <2>5. /\ pc' = [o \in Requests |-> IF o = r THEN step ELSE pc[o]]
          /\ req' = [o \in Requests |-> IF o = r THEN [req[r] EXCEPT !.session = s, !.pw = password] ELSE req[o]]
      BY <1>0, <2>2 DEF Begin, Goto, Reqs
    <2>3. Reqs'
      BY <1>0, <1>s, <2>1, <2>2, <2>5 DEF Reqs
    <2>4. QED
      BY <1>0, <1>1, <2>3 DEF Ids, Proofs, SignIn, Authorize, SignOut, ChangePassword
  <1>2. ASSUME NEW r \in Requests, Replace(r) PROVE Ids' /\ Reqs' /\ Proofs'
    <2>1. pc' = [o \in Requests |-> IF o = r THEN "insert" ELSE pc[o]]
      BY <1>2, RequestStep DEF Replace
    <2>2. QED
      BY <1>0, <1>s, <1>2, <2>1 DEF Replace, Ids, Reqs, Proofs
  <1>3. ASSUME NEW r \in Requests, NEW s \in Sessions, Start(r, s) PROVE Ids' /\ Reqs' /\ Proofs'
    <2>1. req[r].pw \in 0..MaxPassword /\ NoReq \in Requested
      BY <1>r DEF Requested
    <2>2. Proofs'
      BY <1>0, <1>3, <2>1 DEF Proofs, Start
    <2>3. Reqs'
      BY <1>0, <1>s, <1>3, <2>1, RequestStep DEF Start, Reqs
    <2>4. QED
      BY <1>0, <1>3, <2>2, <2>3 DEF Start, Ids
  <1>4. ASSUME NEW r \in Requests, NEW g \in Grants, Issue(r, g) PROVE Ids' /\ Reqs' /\ Proofs'
    <2>1. NoReq \in Requested
      BY <1>r
    <2>2. Reqs'
      BY <1>0, <1>s, <1>4, <2>1, RequestStep DEF Issue, Reqs
    <2>3. Ids' /\ Proofs'
      BY <1>0, <1>4 DEF Issue, Ids, Proofs
    <2>4. QED
      BY <2>2, <2>3
  <1>5. ASSUME NEW r \in Requests, ReplacePassword(r) PROVE Ids' /\ Reqs' /\ Proofs'
    <2>1. password + 1 \in 1..MaxPassword
      BY <1>0, <1>5 DEF ReplacePassword, Proofs
    <2>2. [req[r] EXCEPT !.pw = password + 1, !.change = TRUE] \in Requested
      <3>1. password + 1 \in 0..MaxPassword
        BY <2>1
      <3>2. QED
        BY <1>r, <3>1, RequestedType
    <2>3. ASSUME NEW q \in Requests
          PROVE  [req[q] EXCEPT !.late = @ \/ pc[q] \in SigningIn \/ req[q].change] \in Requested
      <3>1. (req[q].late \/ pc[q] \in SigningIn \/ req[q].change) \in BOOLEAN
        OBVIOUS
      <3>2. QED
        BY <1>r, <3>1, RequestedType
    <2>6. req' \in [Requests -> Requested]
      BY <1>5, <2>2, <2>3 DEF ReplacePassword
    <2>7. pc' = [o \in Requests |-> IF o = r THEN "lock" ELSE pc[o]]
      BY <1>5, RequestStep DEF ReplacePassword
    <2>4. Reqs'
      BY <1>0, <1>s, <2>6, <2>7 DEF Reqs
    <2>5. QED
      BY <1>0, <1>5, <2>1, <2>4 DEF ReplacePassword, Ids, Proofs
  <1>6. ASSUME NEW r \in Requests, Lock(r) \/ EndSessions(r) PROVE Ids' /\ Reqs' /\ Proofs'
    <2>1. /\ [req[r] EXCEPT !.grants = granted, !.found = live \cup granted] \in Requested
          /\ [req[r] EXCEPT !.sessions = live] \in Requested
      BY <1>0, <1>r, RequestedType DEF Ids
    <2>4. \/ req' = [req EXCEPT ![r] = [req[r] EXCEPT !.grants = granted, !.found = live \cup granted]]
          \/ req' = [req EXCEPT ![r] = [req[r] EXCEPT !.sessions = live]]
      BY <1>0, <1>6 DEF Lock, EndSessions, SessionsFound, Reqs
    <2>5. PICK step \in {"endSessions", "commit"} : pc' = [o \in Requests |-> IF o = r THEN step ELSE pc[o]]
      BY <1>0, <1>6 DEF Lock, EndSessions, Goto, Reqs
    <2>2. Reqs'
      BY <1>0, <1>s, <2>1, <2>4, <2>5 DEF Reqs
    <2>3. QED
      BY <1>0, <1>6, <2>2 DEF Lock, EndSessions, Ids, Proofs
  <1>7. ASSUME NEW r \in Requests, Commit(r) PROVE Ids' /\ Reqs' /\ Proofs'
    <2>1. /\ NoReq \in Requested
          /\ [req[r] EXCEPT !.found = {}, !.grants = {}, !.sessions = {}] \in Requested
          /\ req[r].found \subseteq Sessions \cup Grants
      <3>1. req[r].found \subseteq Sessions \cup Grants
        BY <1>r DEF Requested
      <3>2. QED
        BY <1>r, <3>1, RequestedType
    <2>4. \/ Finish(r)
          \/ /\ Goto(r, "insert")
             /\ req' = [req EXCEPT ![r] = [req[r] EXCEPT !.found = {}, !.grants = {}, !.sessions = {}]]
      BY <1>0, <1>7 DEF Commit, Reqs
    <2>5. ASSUME Finish(r) PROVE Reqs'
      <3>1. /\ pc' = [o \in Requests |-> IF o = r THEN "idle" ELSE pc[o]]
            /\ req' = [o \in Requests |-> IF o = r THEN NoReq ELSE req[o]]
        BY <1>0, <2>5 DEF Finish, Goto, Reqs
      <3>2. pc' \in [Requests -> Steps]
        BY <1>0, <1>s, <3>1 DEF Reqs
      <3>3. req' \in [Requests -> Requested]
        BY <1>0, <1>r, <3>1 DEF Reqs
      <3>4. QED
        BY <3>2, <3>3 DEF Reqs
    <2>6. ASSUME /\ Goto(r, "insert")
                 /\ req' = [req EXCEPT ![r] = [req[r] EXCEPT !.found = {}, !.grants = {}, !.sessions = {}]]
          PROVE  Reqs'
      <3>1. pc' = [o \in Requests |-> IF o = r THEN "insert" ELSE pc[o]]
        BY <1>0, <2>6 DEF Goto, Reqs
      <3>2. QED
        BY <1>0, <1>s, <2>1, <2>6, <3>1 DEF Reqs
    <2>2. Reqs'
      BY <2>4, <2>5, <2>6
    <2>3. QED
      BY <1>0, <1>7, <2>1, <2>2 DEF Commit, Ids, Proofs
  <1>8. ASSUME NEW r \in Requests, Fail(r) PROVE Ids' /\ Reqs' /\ Proofs'
    <2>1. NoReq \in Requested
      BY <1>r
    <2>2. Reqs'
      BY <1>0, <1>s, <1>8, <2>1 DEF Fail, Reqs
    <2>3. QED
      BY <1>0, <1>8, <2>2 DEF Fail, Ids, Proofs
  <1>9. ASSUME \/ \E s \in Sessions : End(s)
               \/ \E g \in Grants : Redeem(g) \/ Disconnect(g)
               \/ UNCHANGED vars
        PROVE  Ids' /\ Reqs' /\ Proofs'
    BY <1>0, <1>9 DEF End, Redeem, Disconnect, vars, Ids, Reqs, Proofs
  <1>10. live \subseteq Sessions
    BY <1>0 DEF Ids
  <1>11. QED
    BY <1>a, <1>1, <1>2, <1>3, <1>4, <1>5, <1>6, <1>7, <1>8, <1>9, <1>10 DEF Next

\* Every behaviour of the account is of the types above.
THEOREM AccessTypes == Spec => []TypeOK
  BY TypeInit, TypeStep, PTL DEF Spec

-----------------------------------------------------------------------------
(* One request at a time.                                                  *)

Unmoved(o) == pc'[o] = pc[o] /\ req'[o] = req[o]
Others(r) == \A o \in Requests \ {r} : Unmoved(o)

\* A step of r, but for the UPDATE, and what r is left with.
LEMMA Moves ==
  ASSUME TypeOK, NEW r \in Requests
  PROVE  /\ \A s : SignIn(r, s) =>
              Others(r) /\ pc'[r] = "replace" /\ req'[r] = [req[r] EXCEPT !.session = s, !.pw = password]
         /\ \A s : Authorize(r, s) =>
              Others(r) /\ pc'[r] = "code" /\ req'[r] = [req[r] EXCEPT !.session = s, !.pw = password]
         /\ \A s : SignOut(r, s) =>
              Others(r) /\ pc'[r] = "lock" /\ req'[r] = [req[r] EXCEPT !.session = s, !.pw = password]
         /\ \A s : ChangePassword(r, s) =>
              Others(r) /\ pc'[r] = "update" /\ req'[r] = [req[r] EXCEPT !.session = s, !.pw = password]
         /\ Replace(r) => Others(r) /\ pc'[r] = "insert" /\ req'[r] = req[r]
         /\ Lock(r) => /\ Others(r) /\ pc'[r] = "endSessions"
                       /\ req'[r] = [req[r] EXCEPT !.grants = granted, !.found = live \cup granted]
         /\ EndSessions(r) => Others(r) /\ pc'[r] = "commit" /\ req'[r] = [req[r] EXCEPT !.sessions = live]
         /\ Commit(r) =>
              /\ Others(r)
              /\ IF req[r].change
                 THEN pc'[r] = "insert" /\ req'[r] = [req[r] EXCEPT !.found = {}, !.grants = {}, !.sessions = {}]
                 ELSE pc'[r] = "idle" /\ req'[r] = NoReq
         /\ Fail(r) \/ (\E s : Start(r, s)) \/ (\E g : Issue(r, g)) => Others(r) /\ pc'[r] = "idle" /\ req'[r] = NoReq
  <1> DEFINE Begun(step, s) == /\ Others(r) /\ pc'[r] = step
                               /\ req'[r] = [req[r] EXCEPT !.session = s, !.pw = password]
  <1>1. pc \in [Requests -> Steps] /\ req \in [Requests -> Requested]
    BY DEF TypeOK, Requested
  <1>2. ASSUME NEW step, NEW s, Begin(r, step, s) PROVE Begun(step, s)
    BY <1>1, <1>2 DEF Begin, Goto, Others, Unmoved
  <1>3. ASSUME Finish(r) PROVE Others(r) /\ pc'[r] = "idle" /\ req'[r] = NoReq
    BY <1>1, <1>3 DEF Finish, Goto, Others, Unmoved
  <1>4. ASSUME Replace(r) PROVE Others(r) /\ pc'[r] = "insert" /\ req'[r] = req[r]
    BY <1>1, <1>4 DEF Replace, Goto, Others, Unmoved
  <1>5. ASSUME Lock(r)
        PROVE  /\ Others(r) /\ pc'[r] = "endSessions"
               /\ req'[r] = [req[r] EXCEPT !.grants = granted, !.found = live \cup granted]
    <2>1. req' = [req EXCEPT ![r] = [req[r] EXCEPT !.grants = granted, !.found = live \cup granted]]
      BY <1>1, <1>5 DEF Lock
    <2>2. QED
      BY <1>1, <1>5, <2>1 DEF Lock, Goto, Others, Unmoved
  <1>6. ASSUME EndSessions(r)
        PROVE  Others(r) /\ pc'[r] = "commit" /\ req'[r] = [req[r] EXCEPT !.sessions = live]
    BY <1>1, <1>6 DEF EndSessions, SessionsFound, Goto, Others, Unmoved
  <1>7. ASSUME Commit(r), req[r].change
        PROVE  /\ Others(r) /\ pc'[r] = "insert"
               /\ req'[r] = [req[r] EXCEPT !.found = {}, !.grants = {}, !.sessions = {}]
    <2>1. req' = [req EXCEPT ![r] = [req[r] EXCEPT !.found = {}, !.grants = {}, !.sessions = {}]]
      BY <1>1, <1>7 DEF Commit
    <2>2. QED
      BY <1>1, <1>7, <2>1 DEF Commit, Goto, Others, Unmoved
  <1>8. ASSUME Fail(r) PROVE Others(r) /\ pc'[r] = "idle" /\ req'[r] = NoReq
    BY <1>1, <1>8 DEF Fail, Others, Unmoved
  <1>9. QED
    BY <1>2, <1>3, <1>4, <1>5, <1>6, <1>7, <1>8
       DEF SignIn, Authorize, SignOut, ChangePassword, Commit, Start, Issue

-----------------------------------------------------------------------------
(* Old sessions.                                                           *)

\* What was as it should be stays so, when no session comes but a good one and
\* the password is the same.
LEMMA GoodSessions ==
  ASSUME password' = password, spared \subseteq spared',
         \A s \in live' : (s \in live /\ proof'[s] = proof[s]) \/ proof'[s] = password \/ s \in spared'
  PROVE  /\ Clean => Clean'
         /\ \A o \in Requests : Unmoved(o) => (EndsTheRest(o) => EndsTheRest(o)') /\ (Standing(o) => Standing(o)')
  BY DEF Clean, EndsTheRest, Standing, Unmoved

\* A step of one request: what it owes.
LEMMA OldMove ==
  ASSUME OldInv, NEW r \in Requests, Others(r), Standing(r)',
         password' = password, spared \subseteq spared',
         \A s \in live' : (s \in live /\ proof'[s] = proof[s]) \/ proof'[s] = password \/ s \in spared',
         EndsTheRest(r) => EndsTheRest(r)' \/ Clean'
  PROVE  OldInv'
  <1>1. \A o \in Requests : Standing(o)'
    BY GoodSessions DEF OldInv, Others
  <1>2. Clean' \/ \E o \in Requests : EndsTheRest(o)'
    BY GoodSessions DEF OldInv, Others
  <1>3. QED
    BY <1>1, <1>2 DEF OldInv

\* At the start there is no session under an old password.
LEMMA OldInit == Init => OldInv
  BY DEF Init, OldInv, Standing, Clean, NoReq, SigningIn

\* The invariant about old passwords is kept, by action.
LEMMA OldStep == TypeOK /\ OldInv /\ [Next]_vars => OldInv'
  <1> SUFFICES ASSUME TypeOK, OldInv, [Next]_vars PROVE OldInv'
    OBVIOUS
  <1> USE DEF SigningIn, SigningOut
  <1>0. /\ pc \in [Requests -> Steps] /\ req \in [Requests -> Requested]
        /\ password \in 1..MaxPassword /\ proof \in [Sessions -> 0..MaxPassword] /\ live \subseteq Sessions
    BY DEF TypeOK, Requested
  <1>r. ASSUME NEW r \in Requests PROVE req[r] \in Requested /\ Standing(r)
    BY <1>0 DEF OldInv
  <1>1. ASSUME NEW r \in Requests, NEW s \in Sessions \cup {None},
               SignIn(r, s) \/ Authorize(r, s) \/ SignOut(r, s) \/ ChangePassword(r, s)
        PROVE  OldInv'
    <2>1. /\ pc[r] = "idle" /\ Others(r) /\ pc'[r] \in {"replace", "code", "lock", "update"}
          /\ req'[r] = [req[r] EXCEPT !.session = s, !.pw = password]
          /\ UNCHANGED <<password, live, spared, proof>>
      BY <1>1, Moves DEF SignIn, Authorize, SignOut, ChangePassword, Begin
    <2>2. /\ req'[r].pw = password /\ req'[r].late = req[r].late /\ req'[r].change = req[r].change
          /\ ~req[r].change /\ ~req[r].late
      BY <1>r, <2>1 DEF Requested, Standing
    <2>3. Standing(r)' /\ ~EndsTheRest(r)
      BY <1>0, <2>1, <2>2 DEF Standing, EndsTheRest
    <2>4. QED
      BY <2>1, <2>3, OldMove
  <1>2. ASSUME NEW r \in Requests, Replace(r) PROVE OldInv'
    <2>1. /\ Others(r) /\ pc[r] = "replace" /\ pc'[r] = "insert" /\ req'[r] = req[r]
          /\ UNCHANGED <<password, spared, proof>> /\ live' \subseteq live
      BY <1>2, Moves DEF Replace
    <2>2. Standing(r)' /\ ~EndsTheRest(r)
      BY <1>r, <2>1 DEF Standing, EndsTheRest
    <2>3. QED
      BY <2>1, <2>2, OldMove
  <1>3. ASSUME NEW r \in Requests, NEW s \in Sessions, Start(r, s) PROVE OldInv'
    <2>1. /\ Others(r) /\ pc[r] = "insert" /\ pc'[r] = "idle" /\ req'[r] = NoReq
          /\ UNCHANGED password /\ live' = live \cup {s} /\ spared \subseteq spared'
      BY <1>3, Moves DEF Start
    <2>2. Standing(r)' /\ ~EndsTheRest(r)
      BY <2>1 DEF Standing, EndsTheRest, NoReq
    <2>3. \A o \in live : o # s => proof'[o] = proof[o]
      BY <1>0, <1>3 DEF Start
    <2>4. proof'[s] = password \/ s \in spared'
      BY <1>0, <1>3, <1>r DEF Start, Standing
    <2>5. QED
      BY <2>1, <2>2, <2>3, <2>4, OldMove
  <1>4. ASSUME NEW r \in Requests, NEW g \in Grants, Issue(r, g) PROVE OldInv'
    <2>1. /\ Others(r) /\ pc[r] = "code" /\ pc'[r] = "idle" /\ req'[r] = NoReq
          /\ UNCHANGED <<password, live, spared, proof>>
      BY <1>4, Moves DEF Issue
    <2>2. Standing(r)' /\ ~EndsTheRest(r)
      BY <2>1 DEF Standing, EndsTheRest, NoReq
    <2>3. QED
      BY <2>1, <2>2, OldMove
  <1>5. ASSUME NEW r \in Requests, ReplacePassword(r) PROVE OldInv'
    <2>1. /\ pc' = [pc EXCEPT ![r] = "lock"] /\ pc[r] = "update" /\ password' = password + 1
          /\ UNCHANGED <<live, spared, proof>>
      BY <1>5 DEF ReplacePassword, Goto
    <2>2. req'[r] = [req[r] EXCEPT !.pw = password + 1, !.change = TRUE]
      BY <1>5 DEF ReplacePassword
    <2>3. req'[r].pw = password + 1 /\ req'[r].change /\ ~req'[r].late
      BY <1>r, <2>1, <2>2 DEF Requested, Standing
    <2>4. ASSUME NEW o \in Requests, o # r
          PROVE  /\ pc'[o] = pc[o] /\ req'[o].pw = req[o].pw /\ req'[o].change = req[o].change
                 /\ req'[o].late = (req[o].late \/ pc[o] \in SigningIn \/ req[o].change)
      <3>1. req'[o] = [req[o] EXCEPT !.late = @ \/ pc[o] \in SigningIn \/ req[o].change]
        BY <1>5, <2>4 DEF ReplacePassword
      <3>2. QED
        BY <1>0, <1>r, <2>1, <2>4, <3>1 DEF Requested
    <2>5. \A o \in Requests : Standing(o)'
      <3>1. Standing(r)'
        BY <1>0, <1>5, <2>1, <2>3 DEF Standing, ReplacePassword
      <3>2. ASSUME NEW o \in Requests, o # r PROVE Standing(o)'
        BY <1>r, <2>1, <2>4, <3>2 DEF Standing
      <3>3. QED
        BY <3>1, <3>2
    <2>6. EndsTheRest(r)'
      BY <1>0, <2>1, <2>3 DEF EndsTheRest
    <2>7. QED
      BY <2>5, <2>6 DEF OldInv
  <1>6. ASSUME NEW r \in Requests, Lock(r) \/ EndSessions(r) PROVE OldInv'
    <2>1. /\ Others(r) /\ pc[r] \in SigningOut /\ pc[r] # "commit" /\ pc'[r] \in {"endSessions", "commit"}
          /\ UNCHANGED <<password, live, spared, proof>>
      BY <1>6, Moves DEF Lock, EndSessions
    <2>2. /\ req'[r].pw = req[r].pw /\ req'[r].late = req[r].late /\ req'[r].change = req[r].change
          /\ pc'[r] = "commit" => req'[r].sessions = live
      <3>1. \/ pc'[r] = "endSessions" /\ req'[r] = [req[r] EXCEPT !.grants = granted, !.found = live \cup granted]
            \/ req'[r] = [req[r] EXCEPT !.sessions = live]
        BY <1>6, Moves
      <3>2. QED
        BY <1>r, <3>1 DEF Requested
    <2>3. Standing(r)' /\ (EndsTheRest(r) => EndsTheRest(r)')
      BY <1>r, <2>1, <2>2 DEF Standing, EndsTheRest
    <2>4. QED
      BY <2>1, <2>3, OldMove
  <1>7. ASSUME NEW r \in Requests, Commit(r) PROVE OldInv'
    <2>1. /\ Others(r) /\ pc[r] = "commit" /\ live' = live \ req[r].sessions
          /\ UNCHANGED <<password, spared, proof>>
      BY <1>7, Moves DEF Commit
    <2>2. CASE req[r].change
      <3>1. pc'[r] = "insert" /\ req'[r] = [req[r] EXCEPT !.found = {}, !.grants = {}, !.sessions = {}]
        BY <1>7, <2>2, Moves
      <3>2. req'[r].pw = req[r].pw /\ req'[r].late = req[r].late /\ req'[r].change = req[r].change
        BY <1>r, <3>1 DEF Requested
      <3>3. Standing(r)' /\ (EndsTheRest(r) => Clean')
        BY <1>r, <2>1, <2>2, <3>1, <3>2 DEF Standing, EndsTheRest, Clean
      <3>4. QED
        BY <2>1, <3>3, OldMove
    <2>3. CASE ~req[r].change
      <3>1. pc'[r] = "idle" /\ req'[r] = NoReq
        BY <1>7, <2>3, Moves
      <3>2. Standing(r)' /\ ~EndsTheRest(r)
        BY <2>3, <3>1 DEF Standing, EndsTheRest, NoReq
      <3>3. QED
        BY <2>1, <3>2, OldMove
    <2>4. QED
      BY <2>2, <2>3
  <1>8. ASSUME NEW r \in Requests, Fail(r) PROVE OldInv'
    <2>1. /\ Others(r) /\ pc'[r] = "idle" /\ req'[r] = NoReq
          /\ UNCHANGED <<password, live, proof>> /\ spared \subseteq spared'
          /\ req[r].change => live \subseteq spared'
      BY <1>8, Moves DEF Fail
    <2>2. Standing(r)' /\ (EndsTheRest(r) => Clean')
      BY <2>1 DEF Standing, EndsTheRest, Clean, NoReq
    <2>3. QED
      BY <2>1, <2>2, OldMove
  <1>9. ASSUME \/ \E s \in Sessions : End(s)
               \/ \E g \in Grants : Redeem(g) \/ Disconnect(g)
               \/ UNCHANGED vars
        PROVE  OldInv'
    <2>1. UNCHANGED <<password, pc, req, proof, spared>> /\ live' \subseteq live
      BY <1>9 DEF End, Redeem, Disconnect, vars
    <2>2. QED
      BY <2>1, GoodSessions DEF OldInv, Unmoved
  <1>10. QED
    BY <1>0, <1>1, <1>2, <1>3, <1>4, <1>5, <1>6, <1>7, <1>8, <1>9 DEF Next

\* No session signed in under an old password outlives a change of password
\* that has ended (changePassword), for any sessions and overlapping requests.
THEOREM OldSessionsEnd == Spec => []OldSessionsWereUnderWay
  <1>1. TypeOK /\ OldInv => OldSessionsWereUnderWay
    BY DEF OldInv, OldSessionsWereUnderWay, Changing, Clean, EndsTheRest
  <1>2. QED
    BY <1>1, TypeInit, TypeStep, OldInit, OldStep, PTL DEF Spec

-----------------------------------------------------------------------------
(* What a sign-out found.                                                  *)

\* Nothing that was live or granted comes back in a step.
Fades ==
  /\ \A s \in Sessions : proof[s] # 0 => proof'[s] # 0
  /\ (coded' \ coded) \cap (granted \cup ended) = {}
  /\ granted \cup ended \subseteq granted' \cup ended'
  /\ granted' \subseteq granted \cup coded
  /\ \A s \in live' \ live : s \in Sessions /\ proof[s] = 0

\* So what was found before such a step is not there after it, either.
LEMMA FoundStays ==
  ASSUME TypeOK, TypeOK', Fades, NEW o \in Requests, Unmoved(o), Found(o)
  PROVE  Found(o)'
  <1> DEFINE F == req[o].found
  <1>1. F \subseteq Sessions \cup Grants /\ req'[o].found = F
    BY DEF TypeOK, Unmoved
  <1>2. coded' \subseteq Grants
    BY DEF TypeOK
  <1>3. Spent(F)'
    BY <1>1, <1>2 DEF Found, Spent, Fades, Unmoved
  <1>4. F \cap Grants \subseteq granted' \cup ended'
    BY DEF Found, Fades
  <1>5. F \cap granted' \subseteq F \cap granted /\ F \cap live' \subseteq F \cap live
    BY DEF Found, Spent, Fades
  <1>6. QED
    BY <1>1, <1>3, <1>4, <1>5 DEF Found, Unmoved

\* A step of r that leaves what others found as gone as it was.
LEMMA EndMove ==
  ASSUME TypeOK, TypeOK', EndInv, Fades, NEW r \in Requests, Others(r), Found(r)',
         \A s \in live' : proof'[s] # 0,
         Spent(ended)', SignOutEndsWhatItFound'
  PROVE  EndInv'
  <1>1. \A o \in Requests : Found(o)'
    BY FoundStays DEF EndInv, Others
  <1>2. Spent(live)'
    BY DEF Spent, TypeOK
  <1>3. QED
    BY <1>1, <1>2 DEF EndInv

\* A step that signs no one in, grants nothing and ends nothing more.
LEMMA SameEnds ==
  ASSUME TypeOK, EndInv, live' \subseteq live, UNCHANGED <<granted, proof, ended>>,
         (coded' \ coded) \cap (granted \cup ended) = {}
  PROVE  (\A s \in live' : proof'[s] # 0) /\ Spent(ended)' /\ SignOutEndsWhatItFound'
  <1>1. live \subseteq Sessions
    BY DEF TypeOK
  <1>2. QED
    BY <1>1 DEF EndInv, Spent, SignOutEndsWhatItFound

\* At the start nobody signs out.
LEMMA EndInit == Init => EndInv
  BY DEF Init, EndInv, Spent, Found, NoReq, SignOutEndsWhatItFound

\* The invariant about sign-outs is kept, by action.
LEMMA EndStep == TypeOK /\ TypeOK' /\ OldInv /\ EndInv /\ [Next]_vars => EndInv'
  <1> SUFFICES ASSUME TypeOK, TypeOK', OldInv, EndInv, [Next]_vars PROVE EndInv'
    OBVIOUS
  <1>0. /\ pc \in [Requests -> Steps] /\ req \in [Requests -> Requested]
        /\ proof \in [Sessions -> 0..MaxPassword] /\ live \subseteq Sessions /\ coded \subseteq Grants
        /\ ended \subseteq Sessions \cup Grants /\ granted \subseteq Grants /\ coded \cap granted = {}
    BY DEF TypeOK, Requested
  <1>r. ASSUME NEW r \in Requests PROVE req[r] \in Requested /\ Standing(r) /\ Found(r)
    BY <1>0 DEF OldInv, EndInv
  <1>e. Spent(ended) /\ Spent(live) /\ ended \cap (live \cup granted) = {}
    BY DEF EndInv, SignOutEndsWhatItFound
  <1>1. ASSUME NEW r \in Requests, NEW s \in Sessions \cup {None},
               SignIn(r, s) \/ Authorize(r, s) \/ SignOut(r, s) \/ ChangePassword(r, s)
        PROVE  EndInv'
    <2>1. /\ Others(r) /\ pc'[r] \in {"replace", "code", "lock", "update"}
          /\ req'[r] = [req[r] EXCEPT !.session = s, !.pw = password]
          /\ UNCHANGED <<live, coded, granted, proof, ended>>
      BY <1>1, Moves DEF SignIn, Authorize, SignOut, ChangePassword
    <2>2. req'[r].found = req[r].found
      BY <1>r, <2>1 DEF Requested
    <2>3. Found(r)' /\ Fades
      BY <1>r, <2>1, <2>2 DEF Found, Spent, Fades
    <2>4. QED
      BY <2>1, <2>3, SameEnds, EndMove DEF Fades
  <1>2. ASSUME NEW r \in Requests, Replace(r) PROVE EndInv'
    <2>1. /\ Others(r) /\ pc'[r] = "insert" /\ req'[r] = req[r]
          /\ UNCHANGED <<coded, granted, proof, ended>> /\ live' \subseteq live
      BY <1>2, Moves DEF Replace
    <2>3. Found(r)' /\ Fades
      BY <1>r, <2>1 DEF Found, Spent, Fades
    <2>4. QED
      BY <2>1, <2>3, SameEnds, EndMove DEF Fades
  <1>3. ASSUME NEW r \in Requests, NEW s \in Sessions, Start(r, s) PROVE EndInv'
    <2>1. /\ Others(r) /\ pc'[r] = "idle" /\ req'[r] = NoReq /\ proof[s] = 0
          /\ UNCHANGED <<coded, granted, ended>> /\ live' = live \cup {s}
      BY <1>3, Moves DEF Start
    <2>2. proof'[s] # 0 /\ \A o \in Sessions : o # s => proof'[o] = proof[o]
      BY <1>0, <1>3, <1>r DEF Start, Standing
    <2>3. Found(r)' /\ Fades
      BY <2>1, <2>2 DEF Found, Spent, Fades, NoReq
    <2>4. s \notin ended
      BY <1>e, <2>1 DEF Spent
    <2>5. (\A o \in live' : proof'[o] # 0) /\ Spent(ended)' /\ SignOutEndsWhatItFound'
      BY <1>e, <1>0, <2>1, <2>2, <2>4 DEF Spent, SignOutEndsWhatItFound
    <2>6. QED
      BY <2>1, <2>3, <2>5, EndMove
  <1>4. ASSUME NEW r \in Requests, NEW g \in Grants, Issue(r, g) PROVE EndInv'
    <2>1. /\ Others(r) /\ pc'[r] = "idle" /\ req'[r] = NoReq /\ g \notin granted \cup ended
          /\ UNCHANGED <<live, granted, proof, ended>> /\ coded' = coded \cup {g}
      BY <1>4, Moves DEF Issue
    <2>3. Found(r)' /\ Fades
      BY <2>1 DEF Found, Spent, Fades, NoReq
    <2>4. QED
      BY <2>1, <2>3, SameEnds, EndMove DEF Fades
  <1>5. ASSUME NEW r \in Requests, ReplacePassword(r) PROVE EndInv'
    <2>1. UNCHANGED <<live, coded, granted, proof, ended>> /\ pc'[r] = "lock" /\ \A o \in Requests \ {r} : pc'[o] = pc[o]
      BY <1>0, <1>5 DEF ReplacePassword, Goto
    <2>2. ASSUME NEW o \in Requests
          PROVE  req'[o].found = req[o].found /\ (o # r => req'[o].grants = req[o].grants /\ req'[o].sessions = req[o].sessions)
      <3>1. req'[o] = IF o = r THEN [req[r] EXCEPT !.pw = password + 1, !.change = TRUE]
                      ELSE [req[o] EXCEPT !.late = @ \/ pc[o] \in SigningIn \/ req[o].change]
        BY <1>5 DEF ReplacePassword
      <3>2. QED
        BY <1>r, <3>1 DEF Requested
    <2>3. \A o \in Requests : Found(o)'
      BY <1>r, <2>1, <2>2 DEF Found, Spent
    <2>4. QED
      BY <1>e, <2>1, <2>3 DEF EndInv, Spent, SignOutEndsWhatItFound
  <1>6. ASSUME NEW r \in Requests, Lock(r) PROVE EndInv'
    <2>1. /\ Others(r) /\ pc'[r] = "endSessions" /\ UNCHANGED <<live, coded, granted, proof, ended>>
          /\ req'[r] = [req[r] EXCEPT !.grants = granted, !.found = live \cup granted]
      BY <1>6, Moves DEF Lock
    <2>2. req'[r].found = live \cup granted /\ req'[r].grants = granted
      BY <1>r, <2>1 DEF Requested
    <2>3. Found(r)' /\ Fades
      BY <1>0, <1>e, <2>1, <2>2 DEF Found, Spent, Fades
    <2>4. QED
      BY <2>1, <2>3, SameEnds, EndMove DEF Fades
  <1>7. ASSUME NEW r \in Requests, EndSessions(r) PROVE EndInv'
    <2>1. /\ Others(r) /\ pc[r] = "endSessions" /\ pc'[r] = "commit" /\ UNCHANGED <<live, coded, granted, proof, ended>>
          /\ req'[r] = [req[r] EXCEPT !.sessions = live]
      BY <1>7, Moves DEF EndSessions
    <2>2. req'[r].found = req[r].found /\ req'[r].grants = req[r].grants /\ req'[r].sessions = live
      BY <1>r, <2>1 DEF Requested
    <2>3. Found(r)' /\ Fades
      BY <1>r, <2>1, <2>2 DEF Found, Spent, Fades
    <2>4. QED
      BY <2>1, <2>3, SameEnds, EndMove DEF Fades
  <1>8. ASSUME NEW r \in Requests, Commit(r) PROVE EndInv'
    <2>1. /\ Others(r) /\ pc[r] = "commit" /\ pc'[r] \in {"insert", "idle"} /\ UNCHANGED <<coded, proof>>
          /\ granted' = granted \ req[r].grants /\ live' = live \ req[r].sessions /\ ended' = ended \cup req[r].found
          /\ req'[r] \in {NoReq, [req[r] EXCEPT !.found = {}, !.grants = {}, !.sessions = {}]}
      BY <1>8, Moves DEF Commit
    <2>2. req'[r].found = {}
      <3>1. NoReq.found = {} /\ [req[r] EXCEPT !.found = {}, !.grants = {}, !.sessions = {}].found = {}
        BY <1>r DEF Requested, NoReq
      <3>2. QED
        BY <2>1, <3>1
    <2>3. Found(r)'
      BY <2>1, <2>2 DEF Found, Spent
    <2>4. Fades
      BY <1>r, <2>1 DEF Found, Fades
    <2>5. Spent(ended)' /\ SignOutEndsWhatItFound'
      BY <1>r, <1>e, <2>1 DEF Found, Spent, SignOutEndsWhatItFound
    <2>6. \A s \in live' : proof'[s] # 0
      BY <1>0, <1>e, <2>1 DEF Spent
    <2>7. QED
      BY <2>1, <2>3, <2>4, <2>5, <2>6, EndMove
  <1>9. ASSUME NEW r \in Requests, Fail(r) PROVE EndInv'
    <2>1. /\ Others(r) /\ pc'[r] = "idle" /\ req'[r] = NoReq /\ UNCHANGED <<live, coded, granted, proof, ended>>
      BY <1>9, Moves DEF Fail
    <2>3. Found(r)' /\ Fades
      BY <2>1 DEF Found, Spent, Fades, NoReq
    <2>4. QED
      BY <2>1, <2>3, SameEnds, EndMove DEF Fades
  <1>10. ASSUME \/ \E s \in Sessions : End(s)
                \/ \E g \in Grants : Redeem(g) \/ Disconnect(g)
                \/ UNCHANGED vars
         PROVE  EndInv'
    <2>1. UNCHANGED <<proof, pc, req>> /\ live' \subseteq live /\ coded' \subseteq coded
      BY <1>10 DEF End, Redeem, Disconnect, vars
    <2>2. Fades
      BY <1>10 DEF Fades, End, Redeem, Disconnect, vars
    <2>3. \A o \in Requests : Found(o)'
      BY <1>r, <2>1, <2>2, FoundStays DEF Unmoved
    <2>4. Spent(live)'
      BY <1>e, <2>1 DEF Spent
    <2>5. Spent(ended)'
      BY <1>e, <1>0, <1>10, <2>1 DEF Spent, End, Redeem, Disconnect, vars
    <2>6. SignOutEndsWhatItFound'
      BY <1>e, <1>0, <1>10, <2>1 DEF Spent, SignOutEndsWhatItFound, End, Redeem, Disconnect, vars
    <2>7. QED
      BY <2>3, <2>4, <2>5, <2>6 DEF EndInv
  <1>11. QED
    BY <1>0, <1>1, <1>2, <1>3, <1>4, <1>5, <1>6, <1>7, <1>8, <1>9, <1>10 DEF Next

\* Whatever sign-outs, sign-ins, redemptions and disconnections overlap, none
\* brings back what a sign-out everywhere found (signOutEverywhere).
THEOREM SignOutsEnd == Spec => []SignOutEndsWhatItFound
  <1>1. EndInv => SignOutEndsWhatItFound
    BY DEF EndInv
  <1>2. QED
    BY <1>1, TypeInit, TypeStep, OldInit, OldStep, EndInit, EndStep, PTL DEF Spec

-----------------------------------------------------------------------------
(* Passkeys: types.                                                        *)

\* What a request holds until it ends.
Answering(r) ==
  kpc[r] # "idle" =>
    /\ kreq[r].challenge \in Challenges /\ challenge[kreq[r].challenge] = "gone"
    /\ kreq[r].key \in Keys
    /\ kpc[r] \in {"count", "insert"} => kreq[r].owner \in Accounts /\ Maker[kreq[r].key] = kreq[r].owner

\* Challenges are answered once, and counters are stored as they rise.
OrderInv ==
  /\ \A r \in Requests : Answering(r)
  /\ \A r, o \in Requests : r # o /\ kpc[r] # "idle" /\ kpc[o] # "idle" => kreq[r].challenge # kreq[o].challenge
  /\ \A k \in Keys : \A i \in 1..Len(accepted[k]) :
       /\ challenge[accepted[k][i].challenge] = "gone" /\ accepted[k][i].count <= passkey[k]
       /\ \A r \in Requests : kpc[r] # "idle" => kreq[r].challenge # accepted[k][i].challenge
  /\ AcceptedInOrder

\* Passkeys of an account, and those about to be.
Inserting(a) == {r \in Requests : kpc[r] = "insert" /\ kreq[r].owner = a}
RoomInv ==
  /\ IsFiniteSet(rows)
  /\ \A a \in Accounts : Cardinality(Passkey!Held(a)) + Cardinality(Inserting(a)) < Cap + Cardinality(Requests)

Accepting == [challenge : Challenges, count : 0..MaxCount]
Response == [challenge : Challenges \cup {None}, owner : Accounts \cup Browsers \cup {None},
             key : Keys \cup {None}, count : 0..MaxCount, stored : 0..MaxCount]

\* At most one request has moved.
Unanswered(o) == kpc'[o] = kpc[o] /\ kreq'[o] = kreq[o]
Alone(r) == \A o \in Requests \ {r} : Unanswered(o)

\* A step of r, and what r is left with.
LEMMA Responds ==
  ASSUME Passkey!TypeOK, NEW r \in Requests
  PROVE  /\ \A c, o, k, n : Passkey!Respond(r, c, o, k, n) =>
              /\ Alone(r) /\ kpc'[r] = IF o \in Accounts THEN "count" ELSE "read"
              /\ kreq'[r] = [challenge |-> c, owner |-> o, key |-> k, count |-> n, stored |-> 0]
         /\ Passkey!Count(r) =>
              /\ Alone(r)
              /\ \/ kpc'[r] = "insert" /\ Passkey!Room(kreq[r].owner) /\ kreq'[r] = kreq[r]
                 \/ kpc'[r] = "idle" /\ kreq'[r] = Passkey!NoReq
         /\ Passkey!Insert(r) \/ Passkey!Update(r) => Alone(r) /\ kpc'[r] = "idle" /\ kreq'[r] = Passkey!NoReq
         /\ Passkey!Read(r) =>
              /\ Alone(r)
              /\ \/ /\ kpc'[r] = "verify" /\ kreq[r].key \in rows
                    /\ kreq'[r] = [kreq[r] EXCEPT !.stored = passkey[kreq[r].key]]
                 \/ kpc'[r] = "idle" /\ kreq'[r] = Passkey!NoReq
         /\ Passkey!Verify(r) =>
              /\ Alone(r)
              /\ \/ kpc'[r] = "update" /\ kreq'[r] = kreq[r]
                 \/ kpc'[r] = "idle" /\ kreq'[r] = Passkey!NoReq
  <1>1. kpc \in [Requests -> Passkey!Steps] /\ kreq \in [Requests -> Response]
    BY DEF Passkey!TypeOK, Passkey!Owners, Response
  <1>2. ASSUME Passkey!Finish(r) PROVE Alone(r) /\ kpc'[r] = "idle" /\ kreq'[r] = Passkey!NoReq
    BY <1>1, <1>2 DEF Passkey!Finish, Passkey!Goto, Alone, Unanswered
  <1>3. ASSUME NEW step, Passkey!Goto(r, step), UNCHANGED kreq
        PROVE  Alone(r) /\ kpc'[r] = step /\ kreq'[r] = kreq[r]
    BY <1>1, <1>3 DEF Passkey!Goto, Alone, Unanswered
  <1>4. ASSUME NEW c, NEW o, NEW k, NEW n, Passkey!Respond(r, c, o, k, n)
        PROVE  /\ Alone(r) /\ kpc'[r] = IF o \in Accounts THEN "count" ELSE "read"
               /\ kreq'[r] = [challenge |-> c, owner |-> o, key |-> k, count |-> n, stored |-> 0]
    BY <1>1, <1>4 DEF Passkey!Respond, Passkey!Goto, Alone, Unanswered
  <1>5. ASSUME Passkey!Read(r), kreq[r].key \in rows
        PROVE  /\ Alone(r) /\ kpc'[r] = "verify" /\ kreq'[r] = [kreq[r] EXCEPT !.stored = passkey[kreq[r].key]]
    <2>1. kreq' = [kreq EXCEPT ![r] = [kreq[r] EXCEPT !.stored = passkey[kreq[r].key]]]
      BY <1>1, <1>5 DEF Passkey!Read
    <2>2. QED
      BY <1>1, <1>5, <2>1 DEF Passkey!Read, Passkey!Goto, Alone, Unanswered
  <1>6. QED
    BY <1>2, <1>3, <1>4, <1>5
       DEF Passkey!Count, Passkey!Insert, Passkey!Update, Passkey!Read, Passkey!Verify

\* At first there is no request, challenge or passkey.
LEMMA PasskeyTypeInit == Passkey!Init => Passkey!TypeOK
  <1> SUFFICES ASSUME Passkey!Init PROVE Passkey!TypeOK
    OBVIOUS
  <1>1. Passkey!NoReq \in Response
    BY PasskeyBounds DEF Passkey!NoReq, Response
  <1>2. kreq \in [Requests -> Response]
    BY <1>1 DEF Passkey!Init
  <1>3. accepted \in [Keys -> Seq(Accepting)]
    BY DEF Passkey!Init
  <1>4. QED
    BY <1>2, <1>3, PasskeyBounds DEF Passkey!Init, Passkey!TypeOK, Passkey!Owners, Passkey!Steps, Response, Accepting

\* Every step keeps the types.
LEMMA PasskeyTypeStep == Passkey!TypeOK /\ (\A r \in Requests : Answering(r)) /\ [Passkey!Next]_(Passkey!vars) => Passkey!TypeOK'
  <1> SUFFICES ASSUME Passkey!TypeOK, \A r \in Requests : Answering(r), [Passkey!Next]_(Passkey!vars) PROVE Passkey!TypeOK'
    OBVIOUS
  <1> DEFINE Reqs == kpc \in [Requests -> Passkey!Steps] /\ kreq \in [Requests -> Response]
             Data == /\ challenge \in [Challenges -> Passkey!Owners \cup {"free", "gone"}]
                     /\ passkey \in [Keys -> 0..MaxCount] /\ rows \subseteq Keys
                     /\ accepted \in [Keys -> Seq(Accepting)]
  <1>0. Reqs /\ Data
    BY DEF Passkey!TypeOK, Passkey!Owners, Response, Accepting
  <1>a. Reqs' /\ Data' => Passkey!TypeOK'
    BY DEF Passkey!TypeOK, Passkey!Owners, Response, Accepting
  <1>s. Passkey!Steps = {"idle", "count", "insert", "read", "verify", "update"}
    BY DEF Passkey!Steps
  <1>n. Passkey!NoReq \in Response
    BY PasskeyBounds DEF Passkey!NoReq, Response
  <1>q. ASSUME NEW r \in Requests PROVE kreq[r] \in Response
    BY <1>0
  <1> HIDE DEF Reqs, Data
  <1>1. ASSUME NEW c \in Challenges, Passkey!RegistrationOptions(c) \/ Passkey!AuthenticationOptions(c) \/ Passkey!Expire(c)
        PROVE  Reqs' /\ Data'
    BY <1>0, <1>1 DEF Passkey!RegistrationOptions, Passkey!AuthenticationOptions, Passkey!Offer, Passkey!Expire, Passkey!Owners, Reqs, Data
  <1>2. ASSUME NEW k \in Keys, Passkey!Delete(k) PROVE Reqs' /\ Data'
    BY <1>0, <1>2 DEF Passkey!Delete, Reqs, Data
  <1>3. ASSUME NEW r \in Requests, NEW c \in Challenges, NEW o \in Passkey!Owners, NEW k \in Keys, NEW n \in 0..MaxCount,
               Passkey!Respond(r, c, o, k, n)
        PROVE  Reqs' /\ Data'
    <2>1. [challenge |-> c, owner |-> o, key |-> k, count |-> n, stored |-> 0] \in Response
      BY PasskeyBounds DEF Response, Passkey!Owners
    <2>2. Reqs'
      BY <1>0, <1>3, <1>s, <2>1 DEF Passkey!Respond, Passkey!Goto, Reqs
    <2>3. QED
      BY <1>0, <1>3, <2>2 DEF Passkey!Respond, Passkey!TakeChallenge, Data
  <1>4. ASSUME NEW r \in Requests, Passkey!Count(r) \/ Passkey!Verify(r) PROVE Reqs' /\ Data'
    <2>1. Reqs'
      BY <1>0, <1>4, <1>s, <1>n DEF Passkey!Count, Passkey!Verify, Passkey!Goto, Passkey!Finish, Reqs
    <2>2. QED
      BY <1>0, <1>4, <2>1 DEF Passkey!Count, Passkey!Verify, Data
  <1>5. ASSUME NEW r \in Requests, Passkey!Insert(r) PROVE Reqs' /\ Data'
    <2>1. kreq[r].key \in Keys /\ kreq[r].count \in 0..MaxCount
      BY <1>5, <1>q DEF Answering, Passkey!Insert, Response
    <2>2. Reqs'
      BY <1>0, <1>5, <1>s, <1>n DEF Passkey!Insert, Passkey!Finish, Passkey!Goto, Reqs
    <2>3. <<>> \in Seq(Accepting)
      OBVIOUS
    <2>4. QED
      BY <1>0, <1>5, <2>1, <2>2, <2>3 DEF Passkey!Insert, Data
  <1>6. ASSUME NEW r \in Requests, Passkey!Read(r) PROVE Reqs' /\ Data'
    <2>1. CASE kreq[r].key \in rows
      <3>1. [kreq[r] EXCEPT !.stored = passkey[kreq[r].key]] \in Response
        BY <1>0, <1>q, <2>1 DEF Response, Data
      <3>2. kreq' = [kreq EXCEPT ![r] = [kreq[r] EXCEPT !.stored = passkey[kreq[r].key]]]
        BY <1>0, <1>6, <2>1 DEF Passkey!Read, Reqs
      <3>3. Reqs'
        BY <1>0, <1>6, <1>s, <2>1, <3>1, <3>2 DEF Passkey!Read, Passkey!Goto, Reqs
      <3>4. QED
        BY <1>0, <1>6, <3>3 DEF Passkey!Read, Data
    <2>2. CASE kreq[r].key \notin rows
      BY <1>0, <1>6, <1>s, <1>n, <2>2 DEF Passkey!Read, Passkey!Finish, Passkey!Goto, Reqs, Data
    <2>3. QED
      BY <2>1, <2>2
  <1>7. ASSUME NEW r \in Requests, Passkey!Update(r) PROVE Reqs' /\ Data'
    <2>1. /\ kreq[r].key \in Keys /\ kreq[r].count \in 0..MaxCount
          /\ [challenge |-> kreq[r].challenge, count |-> kreq[r].count] \in Accepting
      BY <1>7, <1>q DEF Answering, Passkey!Update, Response, Accepting
    <2>2. Reqs'
      BY <1>0, <1>7, <1>s, <1>n DEF Passkey!Update, Passkey!Finish, Passkey!Goto, Reqs
    <2>3. accepted' \in [Keys -> Seq(Accepting)]
      <3>1. Append(accepted[kreq[r].key], [challenge |-> kreq[r].challenge, count |-> kreq[r].count]) \in Seq(Accepting)
        BY <1>0, <2>1 DEF Data
      <3>2. QED
        BY <1>0, <1>7, <3>1 DEF Passkey!Update, Data
    <2>4. QED
      BY <1>0, <1>7, <2>1, <2>2, <2>3 DEF Passkey!Update, Data
  <1>8. ASSUME UNCHANGED Passkey!vars PROVE Reqs' /\ Data'
    BY <1>0, <1>8 DEF Passkey!vars, Reqs, Data
  <1>9. ASSUME NEW r \in Requests,
               \/ \E c \in Challenges, o \in Passkey!Owners, k \in Keys, n \in 0..MaxCount : Passkey!Respond(r, c, o, k, n)
               \/ Passkey!Count(r) \/ Passkey!Insert(r) \/ Passkey!Read(r) \/ Passkey!Verify(r) \/ Passkey!Update(r)
        PROVE  Reqs' /\ Data'
    BY <1>3, <1>4, <1>5, <1>6, <1>7, <1>9
  <1>10. Reqs' /\ Data'
    BY <1>1, <1>2, <1>8, <1>9 DEF Passkey!Next
  <1>11. QED
    BY <1>a, <1>10

-----------------------------------------------------------------------------
(* Passkeys: sign-ins in order.                                            *)

\* A step of one request, or of none, that takes no challenge and accepts
\* nothing.
LEMMA OrderMove ==
  ASSUME OrderInv, UNCHANGED <<challenge, passkey, accepted>>,
         \A o \in Requests :
           \/ kpc'[o] = "idle"
           \/ /\ kpc[o] # "idle" /\ kreq'[o].challenge = kreq[o].challenge /\ Answering(o)'
  PROVE  OrderInv'
  <1>1. \A o \in Requests : Answering(o)'
    BY DEF Answering
  <1>2. \A r, o \in Requests : r # o /\ kpc'[r] # "idle" /\ kpc'[o] # "idle" => kreq'[r].challenge # kreq'[o].challenge
    BY DEF OrderInv
  <1>3. \A k \in Keys : \A i \in 1..Len(accepted'[k]) :
          /\ challenge'[accepted'[k][i].challenge] = "gone" /\ accepted'[k][i].count <= passkey'[k]
          /\ \A r \in Requests : kpc'[r] # "idle" => kreq'[r].challenge # accepted'[k][i].challenge
    BY DEF OrderInv
  <1>4. AcceptedInOrder'
    BY DEF OrderInv, AcceptedInOrder, Passkey!AcceptedInOrder
  <1>5. QED
    BY <1>1, <1>2, <1>3, <1>4 DEF OrderInv

\* At the start no challenge is being answered.
LEMMA OrderInit == Passkey!Init => OrderInv
  BY DEF Passkey!Init, OrderInv, Answering, AcceptedInOrder, Passkey!AcceptedInOrder

\* The invariant about counters is kept, by action.
LEMMA OrderStep == Passkey!TypeOK /\ Passkey!TypeOK' /\ OrderInv /\ [Passkey!Next]_(Passkey!vars) => OrderInv'
  <1> SUFFICES ASSUME Passkey!TypeOK, Passkey!TypeOK', OrderInv, [Passkey!Next]_(Passkey!vars) PROVE OrderInv'
    OBVIOUS
  <1>0. /\ kpc \in [Requests -> Passkey!Steps] /\ kreq \in [Requests -> Response]
        /\ challenge \in [Challenges -> Passkey!Owners \cup {"free", "gone"}]
        /\ passkey \in [Keys -> 0..MaxCount] /\ accepted \in [Keys -> Seq(Accepting)]
    BY DEF Passkey!TypeOK, Passkey!Owners, Response, Accepting
  <1>q. ASSUME NEW r \in Requests PROVE kreq[r] \in Response /\ Answering(r)
    BY <1>0 DEF OrderInv
  <1>a. ASSUME NEW k \in Keys, NEW i \in 1..Len(accepted[k])
        PROVE  accepted[k][i].challenge \in Challenges /\ accepted[k][i].count \in 0..MaxCount
    <2>1. accepted[k] \in Seq(Accepting)
      BY <1>0
    <2>2. accepted[k][i] \in Accepting
      BY <2>1
    <2>3. QED
      BY <2>2 DEF Accepting
  <1>o. "gone" \notin Passkey!Owners
    BY OwnersAreIds DEF Passkey!Owners
  <1>1. ASSUME NEW c \in Challenges, Passkey!RegistrationOptions(c) \/ Passkey!AuthenticationOptions(c) \/ Passkey!Expire(c)
        PROVE  OrderInv'
    <2>1. /\ UNCHANGED <<passkey, accepted, kpc, kreq>>
          /\ \A d \in Challenges : challenge[d] = "gone" => challenge'[d] = "gone"
      BY <1>0, <1>1 DEF Passkey!RegistrationOptions, Passkey!AuthenticationOptions, Passkey!Offer, Passkey!Expire
    <2>2. \A k \in Keys : \A i \in 1..Len(accepted[k]) : accepted[k][i].challenge \in Challenges
      BY <1>a
    <2>3. \A r \in Requests : Answering(r)'
      BY <1>q, <2>1 DEF Answering
    <2>4. QED
      BY <2>1, <2>2, <2>3 DEF OrderInv, AcceptedInOrder, Passkey!AcceptedInOrder
  <1>2. ASSUME NEW k \in Keys, Passkey!Delete(k) PROVE OrderInv'
    <2>1. UNCHANGED <<challenge, passkey, accepted, kpc, kreq>>
      BY <1>2 DEF Passkey!Delete
    <2>2. QED
      BY <2>1 DEF OrderInv, Answering, AcceptedInOrder, Passkey!AcceptedInOrder
  <1>3. ASSUME NEW r \in Requests, NEW c \in Challenges, NEW o \in Passkey!Owners, NEW k \in Keys, NEW n \in 0..MaxCount,
               Passkey!Respond(r, c, o, k, n)
        PROVE  OrderInv'
    <2>1. /\ kpc[r] = "idle" /\ Alone(r) /\ kreq'[r].challenge = c /\ kreq'[r].owner = o /\ kreq'[r].key = k
          /\ kpc'[r] = IF o \in Accounts THEN "count" ELSE "read"
          /\ UNCHANGED <<passkey, accepted>> /\ challenge' = [challenge EXCEPT ![c] = "gone"]
          /\ challenge[c] # "gone" /\ (o \in Accounts => Maker[k] = o)
      <3>1. /\ Alone(r) /\ kpc'[r] = IF o \in Accounts THEN "count" ELSE "read"
            /\ kreq'[r] = [challenge |-> c, owner |-> o, key |-> k, count |-> n, stored |-> 0]
        BY <1>3, Responds
      <3>2. QED
        BY <1>3, <1>o, <3>1 DEF Passkey!Respond, Passkey!TakeChallenge
    <2>2. \A d \in Challenges : challenge'[d] = "gone" <=> challenge[d] = "gone" \/ d = c
      BY <1>0, <2>1
    <2>3. \A p \in Keys : \A i \in 1..Len(accepted[p]) : accepted[p][i].challenge \in Challenges \ {c}
      <3>1. \A p \in Keys : \A i \in 1..Len(accepted[p]) : accepted[p][i].challenge \in Challenges
        BY <1>a
      <3>2. QED
        BY <3>1, <2>1 DEF OrderInv
    <2>4. \A q \in Requests \ {r} : kpc[q] # "idle" => kreq[q].challenge # c
      BY <2>1, <1>q DEF Answering
    <2>5. \A q \in Requests \ {r} : kpc'[q] = kpc[q] /\ kreq'[q] = kreq[q]
      BY <2>1 DEF Alone, Unanswered
    <2>6. \A q \in Requests : Answering(q)'
      <3>1. Answering(r)'
        BY <2>1, <2>2 DEF Answering
      <3>2. ASSUME NEW q \in Requests \ {r} PROVE Answering(q)'
        BY <1>q, <2>2, <2>5 DEF Answering
      <3>3. QED
        BY <3>1, <3>2
    <2>7. \A p, q \in Requests : p # q /\ kpc'[p] # "idle" /\ kpc'[q] # "idle" => kreq'[p].challenge # kreq'[q].challenge
      BY <2>1, <2>4, <2>5 DEF OrderInv
    <2>8. \A p \in Keys : \A i \in 1..Len(accepted'[p]) :
             /\ challenge'[accepted'[p][i].challenge] = "gone" /\ accepted'[p][i].count <= passkey'[p]
             /\ \A q \in Requests : kpc'[q] # "idle" => kreq'[q].challenge # accepted'[p][i].challenge
      BY <2>1, <2>2, <2>3, <2>5 DEF OrderInv
    <2>9. AcceptedInOrder'
      BY <2>1 DEF OrderInv, AcceptedInOrder, Passkey!AcceptedInOrder
    <2>10. QED
      BY <2>6, <2>7, <2>8, <2>9 DEF OrderInv
  <1>4. ASSUME NEW r \in Requests, Passkey!Count(r) \/ Passkey!Read(r) \/ Passkey!Verify(r) PROVE OrderInv'
    <2>1. UNCHANGED <<challenge, passkey, accepted>> /\ kpc[r] # "idle"
      BY <1>4 DEF Passkey!Count, Passkey!Read, Passkey!Verify
    <2>2. /\ Alone(r)
          /\ \/ kpc'[r] = "idle"
             \/ /\ kreq'[r].challenge = kreq[r].challenge /\ kreq'[r].key = kreq[r].key /\ kreq'[r].owner = kreq[r].owner
                /\ kpc[r] = "count" \/ kpc'[r] \in {"verify", "update"}
      <3>1. [kreq[r] EXCEPT !.stored = passkey[kreq[r].key]].challenge = kreq[r].challenge
            /\ [kreq[r] EXCEPT !.stored = passkey[kreq[r].key]].key = kreq[r].key
            /\ [kreq[r] EXCEPT !.stored = passkey[kreq[r].key]].owner = kreq[r].owner
        BY <1>q DEF Response
      <3>2. Passkey!Count(r) => kpc[r] = "count"
        BY DEF Passkey!Count
      <3>3. QED
        BY <1>4, <3>1, <3>2, Responds
    <2>3. kpc'[r] = "idle" \/ Answering(r)'
      BY <1>q, <2>1, <2>2 DEF Answering
    <2>4. \A o \in Requests \ {r} : kpc'[o] = kpc[o] /\ kreq'[o] = kreq[o] /\ Answering(o)'
      BY <1>q, <2>1, <2>2 DEF Answering, Alone, Unanswered
    <2>5. QED
      BY <2>1, <2>2, <2>3, <2>4, OrderMove
  <1>5. ASSUME NEW r \in Requests, Passkey!Insert(r) PROVE OrderInv'
    <2> DEFINE k == kreq[r].key
    <2>1. /\ kpc[r] = "insert" /\ Alone(r) /\ kpc'[r] = "idle" /\ UNCHANGED challenge
          /\ k \in Keys
      BY <1>5, <1>q, Responds DEF Passkey!Insert, Answering
    <2>2. \A o \in Requests \ {r} : kpc'[o] = kpc[o] /\ kreq'[o] = kreq[o]
      BY <2>1 DEF Alone, Unanswered
    <2>3. \A o \in Keys : (accepted'[o] = accepted[o] /\ passkey'[o] = passkey[o]) \/ accepted'[o] = <<>>
      BY <1>0, <1>5, <2>1 DEF Passkey!Insert
    <2>4. \A o \in Requests : Answering(o)'
      BY <1>q, <2>1, <2>2 DEF Answering
    <2>5. AcceptedInOrder'
      BY <2>3 DEF OrderInv, AcceptedInOrder, Passkey!AcceptedInOrder
    <2>6. \A o \in Keys : \A i \in 1..Len(accepted'[o]) :
             /\ challenge'[accepted'[o][i].challenge] = "gone" /\ accepted'[o][i].count <= passkey'[o]
             /\ \A q \in Requests : kpc'[q] # "idle" => kreq'[q].challenge # accepted'[o][i].challenge
      <3>1. ASSUME NEW o \in Keys, NEW i \in 1..Len(accepted'[o])
            PROVE  i \in 1..Len(accepted[o]) /\ accepted'[o] = accepted[o] /\ passkey'[o] = passkey[o]
        BY <2>3
      <3>2. QED
        BY <2>1, <2>2, <3>1 DEF OrderInv
    <2>7. QED
      BY <2>1, <2>2, <2>4, <2>5, <2>6 DEF OrderInv
  <1>6. ASSUME NEW r \in Requests, Passkey!Update(r) PROVE OrderInv'
    <2> DEFINE k == kreq[r].key
               x == [challenge |-> kreq[r].challenge, count |-> kreq[r].count]
    <2>1. /\ kpc[r] = "update" /\ Alone(r) /\ kpc'[r] = "idle" /\ UNCHANGED challenge
          /\ k \in Keys /\ kreq[r].challenge \in Challenges /\ challenge[kreq[r].challenge] = "gone"
          /\ kreq[r].count \in 0..MaxCount
      BY <1>6, <1>q, Responds DEF Passkey!Update, Answering, Response
    <2>2. \A o \in Requests \ {r} : kpc'[o] = kpc[o] /\ kreq'[o] = kreq[o]
      BY <2>1 DEF Alone, Unanswered
    <2>3. \A o \in Requests : Answering(o)'
      BY <1>q, <2>1, <2>2 DEF Answering
    <2>4. CASE ~Passkey!Advances(k, kreq[r].count)
      <3>1. UNCHANGED <<passkey, accepted>>
        BY <1>6, <2>4 DEF Passkey!Update
      <3>2. QED
        BY <2>1, <2>2, <2>3, <3>1, OrderMove
    <2>5. CASE Passkey!Advances(k, kreq[r].count)
      <3>1. /\ passkey' = [passkey EXCEPT ![k] = kreq[r].count]
            /\ accepted' = [accepted EXCEPT ![k] = Append(accepted[k], x)]
        BY <1>0, <1>6, <2>5 DEF Passkey!Update
      <3>2. x.challenge = kreq[r].challenge /\ x.count = kreq[r].count
        OBVIOUS
      <3> HIDE DEF x
      <3>3. /\ \A o \in Keys \ {k} : accepted'[o] = accepted[o] /\ passkey'[o] = passkey[o]
            /\ passkey'[k] = kreq[r].count /\ accepted'[k] = Append(accepted[k], x)
        BY <1>0, <2>1, <3>1
      <3>4. accepted[k] \in Seq(Accepting) /\ Len(accepted[k]) \in Nat
        BY <1>0, <2>1
      <3>5. /\ Len(accepted'[k]) = Len(accepted[k]) + 1
            /\ \A i \in 1..Len(accepted[k]) : accepted'[k][i] = accepted[k][i]
            /\ accepted'[k][Len(accepted[k]) + 1] = x
        BY <3>3, <3>4
      <3>6. \A i \in 1..Len(accepted'[k]) : i \in 1..Len(accepted[k]) \/ i = Len(accepted[k]) + 1
        BY <3>4, <3>5
      <3>7. \A i \in 1..Len(accepted[k]) :
              /\ accepted[k][i].challenge # x.challenge
              /\ accepted[k][i].count < x.count \/ (accepted[k][i].count = 0 /\ x.count = 0)
        <4>1. passkey[k] \in Nat /\ (passkey[k] < kreq[r].count \/ (passkey[k] = 0 /\ kreq[r].count = 0))
          BY <1>0, <2>1, <2>5 DEF Passkey!Advances
        <4>2. ASSUME NEW i \in 1..Len(accepted[k])
              PROVE  /\ accepted[k][i].count \in 0..MaxCount /\ accepted[k][i].count <= passkey[k]
                     /\ kreq[r].challenge # accepted[k][i].challenge
          BY <1>a, <2>1 DEF OrderInv
        <4>3. ASSUME NEW i \in 1..Len(accepted[k])
              PROVE  accepted[k][i].count < x.count \/ (accepted[k][i].count = 0 /\ x.count = 0)
          <5> DEFINE was == accepted[k][i].count
                     now0 == x.count
          <5>1. was \in Nat /\ was <= passkey[k] /\ now0 \in Nat /\ now0 = kreq[r].count
            BY <2>1, <3>2, <4>2
          <5> HIDE DEF was, now0
          <5>2. was < now0 \/ (was = 0 /\ now0 = 0)
            BY <4>1, <5>1
          <5>3. QED
            BY <5>2 DEF was, now0
        <4>4. QED
          BY <3>2, <4>2, <4>3
      <3>8. ASSUME NEW o \in Keys, NEW i \in 1..Len(accepted'[o])
            PROVE  /\ challenge'[accepted'[o][i].challenge] = "gone" /\ accepted'[o][i].count <= passkey'[o]
                   /\ \A q \in Requests : kpc'[q] # "idle" => kreq'[q].challenge # accepted'[o][i].challenge
        <4>1. CASE o # k
          BY <2>1, <2>2, <3>3, <4>1 DEF OrderInv
        <4>2. CASE o = k /\ i \in 1..Len(accepted[k])
          <5>1. accepted[k][i].count \in 0..MaxCount
            BY <1>a, <2>1, <4>2
          <5>2. accepted'[k][i].count <= passkey'[k]
            BY <2>1, <3>2, <3>3, <3>5, <3>7, <4>2, <5>1
          <5>3. accepted'[k][i] = accepted[k][i] /\ challenge'[accepted[k][i].challenge] = "gone"
            BY <2>1, <3>5, <4>2 DEF OrderInv
          <5>4. \A q \in Requests : kpc'[q] # "idle" => kreq'[q].challenge # accepted[k][i].challenge
            BY <2>1, <2>2, <4>2 DEF OrderInv
          <5>5. QED
            BY <4>2, <5>2, <5>3, <5>4
        <4>3. CASE o = k /\ i = Len(accepted[k]) + 1
          <5>1. \A q \in Requests : kpc'[q] # "idle" => kreq'[q].challenge # kreq[r].challenge
            BY <2>1, <2>2 DEF OrderInv
          <5>2. QED
            BY <2>1, <3>2, <3>3, <3>5, <4>3, <5>1
        <4>4. QED
          BY <3>6, <4>1, <4>2, <4>3
      <3>9. AcceptedInOrder'
        <4>0. ASSUME NEW o \in Keys, NEW i \in 1..Len(accepted[o]), NEW j \in 1..Len(accepted[o]), i < j
              PROVE  /\ accepted[o][i].challenge # accepted[o][j].challenge
                     /\ accepted[o][i].count < accepted[o][j].count \/ (accepted[o][i].count = 0 /\ accepted[o][j].count = 0)
          BY <4>0 DEF OrderInv, AcceptedInOrder, Passkey!AcceptedInOrder
        <4>1. ASSUME NEW o \in Keys, NEW i \in 1..Len(accepted'[o]), NEW j \in 1..Len(accepted'[o]), i < j
              PROVE  /\ accepted'[o][i].challenge # accepted'[o][j].challenge
                     /\ \/ accepted'[o][i].count < accepted'[o][j].count
                        \/ accepted'[o][i].count = 0 /\ accepted'[o][j].count = 0
          <5>1. CASE o # k
            BY <3>3, <4>0, <4>1, <5>1
          <5>2. CASE o = k /\ j \in 1..Len(accepted[k])
            <6>1. i \in 1..Len(accepted[k])
              BY <3>4, <4>1, <5>2
            <6>2. accepted'[o][i] = accepted[k][i] /\ accepted'[o][j] = accepted[k][j]
              BY <3>5, <5>2, <6>1
            <6>3. /\ accepted[k][i].challenge # accepted[k][j].challenge
                  /\ accepted[k][i].count < accepted[k][j].count \/ (accepted[k][i].count = 0 /\ accepted[k][j].count = 0)
              BY <2>1, <4>0, <4>1, <5>2, <6>1
            <6>4. QED
              BY <6>2, <6>3
          <5>3. CASE o = k /\ j = Len(accepted[k]) + 1
            <6>1. i \in 1..Len(accepted[k])
              BY <3>4, <3>5, <4>1, <5>3
            <6>2. QED
              BY <3>5, <3>7, <5>3, <6>1
          <5>4. QED
            BY <3>6, <5>1, <5>2, <5>3
        <4>2. QED
          BY <4>1 DEF AcceptedInOrder, Passkey!AcceptedInOrder
      <3>10. \A p, q \in Requests : p # q /\ kpc'[p] # "idle" /\ kpc'[q] # "idle" => kreq'[p].challenge # kreq'[q].challenge
        BY <2>1, <2>2 DEF OrderInv
      <3>11. QED
        BY <2>3, <3>8, <3>9, <3>10 DEF OrderInv
    <2>6. QED
      BY <2>4, <2>5
  <1>7. ASSUME UNCHANGED Passkey!vars PROVE OrderInv'
    BY <1>7 DEF Passkey!vars, OrderInv, Answering, AcceptedInOrder, Passkey!AcceptedInOrder
  <1>8. ASSUME NEW r \in Requests,
               \/ \E c \in Challenges, o \in Passkey!Owners, k \in Keys, n \in 0..MaxCount : Passkey!Respond(r, c, o, k, n)
               \/ Passkey!Count(r) \/ Passkey!Insert(r) \/ Passkey!Read(r) \/ Passkey!Verify(r) \/ Passkey!Update(r)
        PROVE  OrderInv'
    BY <1>3, <1>4, <1>5, <1>6, <1>8
  <1>9. QED
    BY <1>1, <1>2, <1>7, <1>8 DEF Passkey!Next

\* Sign-ins with one passkey are accepted one after the other, each on a
\* challenge of its own and a counter past the last (finishAuthentication), for
\* any passkeys, challenges and overlapping requests.
THEOREM PasskeysInOrder == Passkey!Spec => []AcceptedInOrder
  <1>1. OrderInv => AcceptedInOrder /\ \A r \in Requests : Answering(r)
    BY DEF OrderInv
  <1>2. QED
    BY <1>1, PasskeyTypeInit, PasskeyTypeStep, OrderInit, OrderStep, PTL DEF Passkey!Spec

-----------------------------------------------------------------------------
(* Passkeys: the cap.                                                      *)

\* The module Passkeys counts as this one does.
LEMMA SameCount == ASSUME NEW S PROVE Passkey!Cardinality(S) = Cardinality(S)
  BY DEF Passkey!Cardinality, Cardinality

\* One request leaves the step before the INSERT, or none, and no passkey comes
\* but the one it had counted for.
LEMMA RoomMove ==
  ASSUME RoomInv, rows \subseteq Keys, Maker \in [Keys -> Accounts],
         \A a \in Accounts : Inserting(a)' \subseteq Inserting(a),
         rows' \subseteq rows
  PROVE  RoomInv'
  <1>1. IsFiniteSet(rows')
    BY FS_Subset DEF RoomInv
  <1>2. ASSUME NEW a \in Accounts
        PROVE  Cardinality(Passkey!Held(a)') + Cardinality(Inserting(a)') < Cap + Cardinality(Requests)
    <2>1. /\ IsFiniteSet(Passkey!Held(a)) /\ Passkey!Held(a)' \subseteq Passkey!Held(a)
          /\ IsFiniteSet(Inserting(a)) /\ Inserting(a)' \subseteq Inserting(a)
      BY PasskeyBounds, FS_Subset DEF RoomInv, Inserting, Passkey!Held
    <2>2. Cardinality(Passkey!Held(a)') <= Cardinality(Passkey!Held(a))
      BY <2>1, FS_Subset
    <2>3. Cardinality(Inserting(a)') <= Cardinality(Inserting(a))
      BY <2>1, FS_Subset
    <2>4. /\ Cardinality(Passkey!Held(a)) \in Nat /\ Cardinality(Inserting(a)) \in Nat
          /\ IsFiniteSet(Passkey!Held(a)') /\ IsFiniteSet(Inserting(a)')
      BY <2>1, FS_CardinalityType, FS_Subset
    <2>5. Cardinality(Passkey!Held(a)') \in Nat /\ Cardinality(Inserting(a)') \in Nat
      BY <2>4, FS_CardinalityType
    <2>6. Cap \in Nat /\ Cardinality(Requests) \in Nat
      BY PasskeyBounds, FS_CardinalityType
    <2>7. QED
      BY <2>2, <2>3, <2>4, <2>5, <2>6 DEF RoomInv
  <1>3. QED
    BY <1>1, <1>2 DEF RoomInv

\* At first there is no passkey.
LEMMA RoomInit == Passkey!Init => RoomInv
  <1> SUFFICES ASSUME Passkey!Init PROVE RoomInv
    OBVIOUS
  <1>1. rows = {} /\ \A a : Passkey!Held(a) = {} /\ Inserting(a) = {}
    BY DEF Passkey!Init, Passkey!Held, Inserting
  <1>2. Cardinality(Requests) \in Nat /\ Cap \in Nat \ {0}
    BY PasskeyBounds, FS_CardinalityType
  <1>3. QED
    BY <1>1, <1>2, FS_EmptySet DEF RoomInv

\* A passkey is counted for before it is there, and while it is counted for
\* there are at most as many others as there are requests.
LEMMA RoomStep == Passkey!TypeOK /\ OrderInv /\ RoomInv /\ [Passkey!Next]_(Passkey!vars) => RoomInv'
  <1> SUFFICES ASSUME Passkey!TypeOK, OrderInv, RoomInv, [Passkey!Next]_(Passkey!vars) PROVE RoomInv'
    OBVIOUS
  <1>0. rows \subseteq Keys /\ Maker \in [Keys -> Accounts] /\ \A r \in Requests : Answering(r)
    BY PasskeysHaveMakers DEF Passkey!TypeOK, OrderInv
  <1>f. IsFiniteSet(rows) /\ \A a : IsFiniteSet(Passkey!Held(a)) /\ IsFiniteSet(Inserting(a))
    BY PasskeyBounds, FS_Subset DEF RoomInv, Inserting, Passkey!Held
  <1>c. Cap \in Nat /\ Cardinality(Requests) \in Nat /\ \A a : Cardinality(Passkey!Held(a)) \in Nat /\ Cardinality(Inserting(a)) \in Nat
    BY <1>f, PasskeyBounds, FS_CardinalityType
  <1>1. ASSUME NEW r \in Requests, Passkey!Count(r) PROVE RoomInv'
    <2>1. UNCHANGED rows /\ Alone(r)
          /\ \/ kpc'[r] = "insert" /\ Passkey!Room(kreq[r].owner) /\ kreq'[r] = kreq[r]
             \/ kpc'[r] = "idle"
      BY <1>1, Responds DEF Passkey!Count
    <2>2. ASSUME NEW a \in Accounts, a # kreq[r].owner \/ kpc'[r] = "idle"
          PROVE  Inserting(a)' \subseteq Inserting(a)
      BY <2>1, <2>2 DEF Inserting, Alone, Unanswered
    <2>3. CASE kpc'[r] = "idle"
      BY <1>0, <2>1, <2>2, <2>3, RoomMove
    <2>4. CASE Passkey!Room(kreq[r].owner) /\ kpc'[r] # "idle"
      <3>1. ASSUME NEW a \in Accounts
            PROVE  Cardinality(Passkey!Held(a)') + Cardinality(Inserting(a)') < Cap + Cardinality(Requests)
        <4>1. Passkey!Held(a)' = Passkey!Held(a)
          BY <2>1 DEF Passkey!Held
        <4>2. IsFiniteSet(Inserting(a)') /\ Cardinality(Inserting(a)') <= Cardinality(Requests)
          <5>1. Inserting(a)' \subseteq Requests
            BY DEF Inserting
          <5>2. QED
            BY <5>1, PasskeyBounds, FS_Subset
        <4>3. CASE a = kreq[r].owner
          <5>1. Cardinality(Passkey!Held(a)) < Cap
            BY <2>4, <4>3, SameCount DEF Passkey!Room
          <5>2. Cardinality(Inserting(a)') \in Nat
            BY <4>2, FS_CardinalityType
          <5>3. QED
            BY <1>c, <4>1, <4>2, <5>1, <5>2
        <4>4. CASE a # kreq[r].owner
          <5>1. Inserting(a)' \subseteq Inserting(a)
            BY <2>2, <4>4
          <5>2. Cardinality(Inserting(a)') <= Cardinality(Inserting(a)) /\ Cardinality(Inserting(a)') \in Nat
            BY <1>f, <4>2, <5>1, FS_Subset, FS_CardinalityType
          <5>3. QED
            BY <1>c, <4>1, <5>2 DEF RoomInv
        <4>5. QED
          BY <4>3, <4>4
      <3>2. QED
        BY <2>1, <3>1 DEF RoomInv
    <2>5. QED
      BY <2>1, <2>3, <2>4
  <1>2. ASSUME NEW r \in Requests, Passkey!Insert(r) PROVE RoomInv'
    <2> DEFINE k == kreq[r].key
    <2>1. /\ Alone(r) /\ kpc[r] = "insert" /\ kpc'[r] = "idle" /\ rows' = rows \cup {k}
          /\ k \in Keys /\ kreq[r].owner \in Accounts /\ Maker[k] = kreq[r].owner
      BY <1>0, <1>2, Responds DEF Passkey!Insert, Answering
    <2>2. IsFiniteSet(rows')
      BY <1>f, <2>1, FS_AddElement
    <2>3. ASSUME NEW a \in Accounts
          PROVE  Cardinality(Passkey!Held(a)') + Cardinality(Inserting(a)') < Cap + Cardinality(Requests)
      <3>1. CASE a # kreq[r].owner
        <4>1. Passkey!Held(a)' = Passkey!Held(a) /\ Inserting(a)' = Inserting(a)
          BY <2>1, <3>1 DEF Passkey!Held, Inserting, Alone, Unanswered
        <4>2. QED
          BY <4>1 DEF RoomInv
      <3>2. CASE a = kreq[r].owner
        <4>1. /\ Passkey!Held(a)' = Passkey!Held(a) \cup {k}
              /\ Inserting(a)' = Inserting(a) \ {r} /\ r \in Inserting(a)
          BY <2>1, <3>2 DEF Passkey!Held, Inserting, Alone, Unanswered
        <4> DEFINE H == Passkey!Held(a)
                   I == Inserting(a)
        <4>f. IsFiniteSet(H) /\ IsFiniteSet(I) /\ Cardinality(H) \in Nat
          BY <1>c, <1>f
        <4>h. H' = H \cup {k} /\ I' = I \ {r} /\ r \in I
          BY <4>1
        <4> HIDE DEF H, I
        <4>2. Cardinality(H') <= Cardinality(H) + 1 /\ IsFiniteSet(H')
          <5>1. /\ IsFiniteSet(H \cup {k})
                /\ Cardinality(H \cup {k}) = IF k \in H THEN Cardinality(H) ELSE Cardinality(H) + 1
            BY <4>f, FS_AddElement
          <5>2. QED
            BY <4>f, <4>h, <5>1
        <4>3. Cardinality(I') = Cardinality(I) - 1
          <5>1. Cardinality(I \ {r}) = IF r \in I THEN Cardinality(I) - 1 ELSE Cardinality(I)
            BY <4>f, FS_RemoveElement
          <5>2. QED
            BY <4>h, <5>1
        <4>7. Cardinality(H') \in Nat
          BY <4>2, FS_CardinalityType
        <4> USE DEF H, I
        <4>6. QED
          BY <1>c, <4>2, <4>3, <4>7 DEF RoomInv
      <3>3. QED
        BY <3>1, <3>2
    <2>4. QED
      BY <2>2, <2>3 DEF RoomInv
  <1>3. ASSUME NEW r \in Requests,
               \/ \E c \in Challenges, o \in Passkey!Owners, k \in Keys, n \in 0..MaxCount : Passkey!Respond(r, c, o, k, n)
               \/ Passkey!Read(r) \/ Passkey!Verify(r) \/ Passkey!Update(r)
        PROVE  RoomInv'
    <2>1. UNCHANGED rows /\ Alone(r) /\ kpc'[r] # "insert"
      <3>1. CASE \E c \in Challenges, o \in Passkey!Owners, k \in Keys, n \in 0..MaxCount : Passkey!Respond(r, c, o, k, n)
        <4>1. PICK c \in Challenges, o \in Passkey!Owners, k \in Keys, n \in 0..MaxCount : Passkey!Respond(r, c, o, k, n)
          BY <3>1
        <4>2. Alone(r) /\ kpc'[r] \in {"count", "read"}
          BY <4>1, Responds
        <4>3. UNCHANGED rows
          BY <4>1 DEF Passkey!Respond
        <4>4. QED
          BY <4>2, <4>3
      <3>2. CASE Passkey!Read(r)
        BY <3>2, Responds DEF Passkey!Read
      <3>3. CASE Passkey!Verify(r)
        BY <3>3, Responds DEF Passkey!Verify
      <3>4. CASE Passkey!Update(r)
        BY <3>4, Responds DEF Passkey!Update
      <3>5. QED
        BY <1>3, <3>1, <3>2, <3>3, <3>4
    <2>2. \A a \in Accounts : Inserting(a)' \subseteq Inserting(a)
      BY <2>1 DEF Inserting, Alone, Unanswered
    <2>3. QED
      BY <1>0, <2>1, <2>2, RoomMove
  <1>4. ASSUME \/ \E c \in Challenges :
                    Passkey!RegistrationOptions(c) \/ Passkey!AuthenticationOptions(c) \/ Passkey!Expire(c)
               \/ \E k \in Keys : Passkey!Delete(k)
               \/ UNCHANGED Passkey!vars
        PROVE  RoomInv'
    <2>1. rows' \subseteq rows /\ UNCHANGED <<kpc, kreq>>
      BY <1>4
      DEF Passkey!RegistrationOptions, Passkey!AuthenticationOptions, Passkey!Offer, Passkey!Expire, Passkey!Delete,
          Passkey!vars
    <2>2. \A a \in Accounts : Inserting(a)' \subseteq Inserting(a)
      BY <2>1 DEF Inserting
    <2>3. QED
      BY <1>0, <2>1, <2>2, RoomMove
  <1>5. ASSUME NEW r \in Requests,
               \/ \E c \in Challenges, o \in Passkey!Owners, k \in Keys, n \in 0..MaxCount : Passkey!Respond(r, c, o, k, n)
               \/ Passkey!Count(r) \/ Passkey!Insert(r) \/ Passkey!Read(r) \/ Passkey!Verify(r) \/ Passkey!Update(r)
        PROVE  RoomInv'
    BY <1>1, <1>2, <1>3, <1>5
  <1>6. QED
    BY <1>4, <1>5 DEF Passkey!Next

\* An account has fewer passkeys than its cap and the registrations that can be
\* under way at once together (finishRegistration).
THEOREM PasskeysCapped == Passkey!Spec => []PasskeysNearlyCapped
  <1>1. Passkey!TypeOK /\ RoomInv => PasskeysNearlyCapped
    <2> SUFFICES ASSUME Passkey!TypeOK, RoomInv, NEW a \in Accounts
                 PROVE  Cardinality(Passkey!Held(a)) < Cap + Cardinality(Requests)
      BY SameCount DEF PasskeysNearlyCapped, Passkey!CapNearlyHolds
    <2>1. IsFiniteSet(Passkey!Held(a)) /\ IsFiniteSet(Inserting(a))
      BY PasskeyBounds, FS_Subset DEF RoomInv, Inserting, Passkey!Held
    <2>2. /\ Cardinality(Passkey!Held(a)) \in Nat /\ Cardinality(Inserting(a)) \in Nat
          /\ Cap \in Nat /\ Cardinality(Requests) \in Nat
      BY <2>1, PasskeyBounds, FS_CardinalityType
    <2>3. QED
      BY <2>2 DEF RoomInv
  <1>2. OrderInv => \A r \in Requests : Answering(r)
    BY DEF OrderInv
  <1>3. QED
    BY <1>1, <1>2, PasskeyTypeInit, PasskeyTypeStep, OrderInit, OrderStep, RoomInit, RoomStep, PTL DEF Passkey!Spec
-----------------------------------------------------------------------------
(* WriteLimits.  The changes of a device are numbered in order, and what    *)
(* they are held against depends on where windows are kept.  First, in      *)
(* memory: those from the b-th on are of the window there is, no more than  *)
(* it has counted, and no more than the limit; those before are older than  *)
(* the window, and but for as many as the limit older than the one before   *)
(* (Paced).  A window that was forgotten stands between as one more.        *)

USE LimitsAreNat

\* How many changes before a window may be no older than the window before it.
Gap(l) == IF l = 0 THEN PerDevice ELSE 2 * PerDevice

\* x: how many changes are of the window there is; a: how many hits await their
\* answer, and may be let through; q: how many hits the window counted.
Counted(x, a, q) == x + a <= q /\ x <= PerDevice

\* The first b changes are of earlier windows than the one that ends at e.
Earlier(w, b, e, l) ==
  \A i \in 1..b : w[i] + Window <= e /\ (i <= b - Gap(l) => w[i] + 2 * Window <= e)

\* w: when a device was changed; c: its window; n: the time; l: whether windows
\* were forgotten.
Paced(w, c, a, n, l) ==
  /\ c.resetAt <= n + Window
  /\ \E b \in 0..Len(w) :
       /\ Counted(Len(w) - b, a, c.count)
       /\ IF c.count = 0
          THEN /\ c.resetAt <= n /\ (l = 0 => Len(w) = 0)
               /\ \A i \in 1..Len(w) : i <= Len(w) - 2 * PerDevice => w[i] + Window <= c.resetAt
          ELSE Earlier(w, b, c.resetAt, l)

InTime(w, n) == \A i, j \in 1..Len(w) : i <= j => w[i] <= w[j] /\ w[j] <= n

Spread(w, l) == \A i, j \in 1..Len(w) : j = i + Gap(l) + PerDevice => w[j] >= w[i] + Window

Windows == [count : Nat, resetAt : Nat]

\* What is two windows before the end of one is a window before now; what is a
\* window before its beginning, two before its end; and a count keeps its bound.
LEMMA WindowsApart ==
  ASSUME NEW x \in Nat, NEW e \in Nat, NEW n \in Nat, NEW d \in Nat, NEW t \in Nat
  PROVE  /\ x + 2 * Window <= e + d /\ e <= n + Window => x + Window <= n + d
         /\ x + Window <= t + d /\ t <= n /\ e = n + Window => x + 2 * Window <= e + d
  BY DEF Windows

LEMMA CountsGrow ==
  ASSUME NEW u \in Int, NEW a \in Int, NEW x \in Int, NEW old \in Int, NEW new \in Int,
         u + a <= old, new >= old + x
  PROVE  u + (a + x) <= new
  OBVIOUS

LEMMA Transitive == ASSUME NEW x \in Int, NEW y \in Int, NEW z \in Int, x >= y, y >= z PROVE x >= z
  OBVIOUS

\* When a window is over, its changes but for the last few are a window old.
LEMMA OldChanges ==
  ASSUME NEW w \in Seq(Nat), NEW c \in Windows, NEW a \in Nat, NEW n \in Nat, NEW l \in 0..1,
         Paced(w, c, a, n, l), c.resetAt <= n, NEW i \in 1..Len(w), i <= Len(w) - Gap(l)
  PROVE  w[i] + Window <= n
  <1>1. Len(w) \in Nat /\ w[i] \in Nat /\ c.count \in Nat /\ c.resetAt \in Nat /\ i \in Nat
    BY DEF Windows
  <1>2. Gap(l) \in Nat /\ (l = 1 => Gap(l) = 2 * PerDevice)
    BY DEF Gap
  <1>3. PICK b \in 0..Len(w) :
          /\ Counted(Len(w) - b, a, c.count)
          /\ c.count = 0 => /\ l = 0 => Len(w) = 0
                            /\ i <= Len(w) - 2 * PerDevice => w[i] + Window <= c.resetAt
          /\ c.count # 0 => Earlier(w, b, c.resetAt, l)
    BY DEF Paced
  <1>4. CASE c.count = 0
    <2>1. i <= Len(w) - 2 * PerDevice
      BY <1>1, <1>2, <1>3, <1>4
    <2>2. w[i] + Window <= c.resetAt
      BY <1>3, <1>4, <2>1
    <2> DEFINE x == w[i]
               t == c.resetAt
    <2>3. x \in Nat /\ t \in Nat /\ x + Window <= t /\ t <= n
      BY <1>1, <2>2
    <2> HIDE DEF x, t
    <2>4. x + Window <= n
      BY <2>3
    <2> QED
      BY <2>4 DEF x
  <1>5. CASE c.count # 0
    <2>1. CASE i <= b
      BY <1>1, <1>3, <1>5, <2>1 DEF Earlier
    <2>2. CASE i > b
      <3>1. Len(w) - b <= PerDevice
        BY <1>3 DEF Counted
      <3>2. Gap(l) >= PerDevice
        BY DEF Gap
      <3> QED
        BY <1>1, <1>2, <2>2, <3>1, <3>2
    <2> QED
      BY <1>1, <2>1, <2>2
  <1> QED
    BY <1>4, <1>5

\* A window begins, with the first hit on it.
LEMMA PacedAnew ==
  ASSUME NEW w \in Seq(Nat), NEW c \in Windows, NEW a \in Nat, NEW n \in Nat, NEW l \in 0..1, InTime(w, n),
         Paced(w, c, a, n, l), c.resetAt <= n, NEW x \in 0..1
  PROVE  Paced(w, [count |-> 1, resetAt |-> n + Window], x, n, l)
  <1> DEFINE m == Len(w)
             e == n + Window
  <1>1. m \in Nat /\ Gap(l) \in Nat /\ e \in Nat
    BY DEF Gap
  <1>2. \A i \in 1..m : w[i] \in Nat /\ w[i] <= n
    BY <1>1 DEF InTime
  <1>3. ASSUME NEW i \in 1..m PROVE w[i] + Window <= e /\ (i <= m - Gap(l) => w[i] + 2 * Window <= e)
    <2>1. i <= m - Gap(l) => w[i] + Window <= n
      BY OldChanges
    <2> QED
      BY <1>2, <2>1
  <1>4. Earlier(w, m, e, l)
    BY <1>3 DEF Earlier
  <1>5. Counted(m - m, x, 1)
    BY <1>1 DEF Counted
  <1>6. m \in 0..m
    BY <1>1
  <1> HIDE DEF m
  <1>7. \E b \in 0..m : Counted(m - b, x, 1) /\ Earlier(w, b, e, l)
    BY <1>4, <1>5, <1>6
  <1>8. e <= n + Window
    BY <1>1
  <1> HIDE DEF e
  <1> QED
    BY <1>7, <1>8 DEF Paced, m, e

\* Another hit on a window.
LEMMA PacedAgain ==
  ASSUME NEW w \in Seq(Nat), NEW c \in Windows, NEW a \in Nat, NEW n \in Nat, NEW l \in 0..1,
         Paced(w, c, a, n, l), c.resetAt > n, NEW x \in {a, a + 1}
  PROVE  Paced(w, [count |-> c.count + 1, resetAt |-> c.resetAt], x, n, l)
  <1> DEFINE q == c.count
             e == c.resetAt
             m == Len(w)
  <1>1. m \in Nat /\ q \in Nat /\ e \in Nat /\ x \in Nat
    BY DEF Windows
  <1>2. PICK b \in 0..m : Counted(m - b, a, q) /\ (q # 0 => Earlier(w, b, e, l)) /\ q # 0
    BY <1>1 DEF Paced
  <1>3. Counted(m - b, x, q + 1)
    BY <1>1, <1>2 DEF Counted
  <1>4. q + 1 # 0
    BY <1>1
  <1>5. e <= n + Window
    BY DEF Paced
  <1> DEFINE c9 == [count |-> q + 1, resetAt |-> e]
  <1>6. c9.count = q + 1 /\ c9.resetAt = e
    OBVIOUS
  <1> HIDE DEF q, e, m, c9
  <1>7. Paced(w, c9, x, n, l)
    BY <1>2, <1>3, <1>4, <1>5, <1>6 DEF Paced, m
  <1> QED
    BY <1>7 DEF c9, q, e

\* A change is the last one.
LEMMA InTimeNow == ASSUME NEW w \in Seq(Nat), NEW n \in Nat, InTime(w, n) PROVE InTime(Append(w, n), n)
  <1> DEFINE v == Append(w, n)
             m == Len(w)
  <1>0. m \in Nat
    OBVIOUS
  <1>1. Len(v) = m + 1 /\ v[m + 1] = n /\ (\A i \in 1..m : v[i] = w[i])
    OBVIOUS
  <1>2. \A i, j \in 1..m : i <= j => w[i] <= w[j] /\ w[j] <= n
    BY DEF InTime
  <1> HIDE DEF v, m
  <1>3. InTime(v, n)
    <2> SUFFICES ASSUME NEW i \in 1..(m + 1), NEW j \in 1..(m + 1), i <= j PROVE v[i] <= v[j] /\ v[j] <= n
      BY <1>1 DEF InTime
    <2>1. CASE j \in 1..m
      <3>1. i \in 1..m
        BY <1>0, <2>1
      <3> QED
        BY <1>1, <1>2, <2>1, <3>1
    <2>2. CASE j = m + 1
      <3>1. i \in 1..m \/ i = m + 1
        BY <1>0
      <3> QED
        BY <1>0, <1>1, <1>2, <2>2, <3>1
    <2> QED
      BY <1>0, <2>1, <2>2
  <1> QED
    BY <1>3 DEF v

\* A hit is let through: it is among those counted, and within the limit.
LEMMA PacedWrite ==
  ASSUME NEW w \in Seq(Nat), NEW c \in Windows, NEW a \in Nat, NEW n \in Nat, NEW l \in 0..1, InTime(w, n), Spread(w, l),
         Paced(w, c, a + 1, n, l), c.resetAt > n, c.count <= PerDevice
  PROVE  Paced(Append(w, n), c, a, n, l) /\ InTime(Append(w, n), n) /\ Spread(Append(w, n), l)
  <1> DEFINE v == Append(w, n)
             m == Len(w)
             q == c.count
             e == c.resetAt
             g == Gap(l)
  <1>0. m \in Nat /\ q \in Nat /\ e \in Nat /\ g \in Nat /\ g >= PerDevice
    BY DEF Windows, Gap
  <1>1. Len(v) = m + 1 /\ v[m + 1] = n /\ (\A i \in 1..m : v[i] = w[i])
    OBVIOUS
  <1>2. \A i \in 1..m : w[i] \in Nat /\ w[i] <= n
    BY <1>0 DEF InTime
  <1>3. PICK b \in 0..m : Counted(m - b, a + 1, q) /\ q # 0 /\ Earlier(w, b, e, l)
    BY <1>0 DEF Paced
  <1>4. e <= n + Window
    BY DEF Paced
  <1>5. \A i, j \in 1..m : i <= j => w[i] <= w[j]
    BY DEF InTime
  <1>6. \A i, j \in 1..m : j = i + g + PerDevice => w[j] >= w[i] + Window
    BY DEF Spread
  <1>7. (m + 1) - b <= PerDevice /\ Counted((m + 1) - b, a, q)
    BY <1>0, <1>3 DEF Counted
  <1>8. \A i \in 1..b : w[i] + Window <= e /\ (i <= b - g => w[i] + 2 * Window <= e)
    BY <1>3 DEF Earlier
  <1> HIDE DEF v, m, q, e, g
  <1>9. InTime(v, n)
    BY InTimeNow DEF v
  <1>10. Spread(v, l)
    <2> SUFFICES ASSUME NEW i \in 1..(m + 1), NEW j \in 1..(m + 1), j = i + g + PerDevice PROVE v[j] >= v[i] + Window
      BY <1>1 DEF Spread, g
    <2>1. CASE j \in 1..m
      <3>1. i \in 1..m
        BY <1>0, <2>1
      <3> QED
        BY <1>1, <1>6, <2>1, <3>1
    <2>2. CASE j = m + 1
      <3>1. i \in 1..b /\ i <= b - g /\ i \in 1..m
        BY <1>0, <1>7, <2>2
      <3>2. w[i] + 2 * Window <= e /\ w[i] \in Nat
        BY <1>2, <1>8, <3>1
      <3>3. v[i] = w[i] /\ v[j] = n
        BY <1>1, <2>2, <3>1
      <3> QED
        BY <1>0, <1>4, <3>2, <3>3
    <2> QED
      BY <1>0, <2>1, <2>2
  <1>11. Paced(v, c, a, n, l)
    <2>1. b \in 0..(m + 1)
      BY <1>0
    <2>2. Earlier(v, b, e, l)
      <3>1. \A i \in 1..b : v[i] = w[i]
        BY <1>0, <1>1
      <3> QED
        BY <1>3, <3>1 DEF Earlier
    <2> QED
      BY <1>1, <1>3, <1>4, <1>7, <2>1, <2>2 DEF Paced, q, e
  <1> QED
    BY <1>9, <1>10, <1>11 DEF v

\* Windows are forgotten, once.
LEMMA PacedForgotten ==
  ASSUME NEW w \in Seq(Nat), NEW c \in Windows, NEW a \in Nat, NEW n \in Nat, InTime(w, n), Spread(w, 0),
         Paced(w, c, a, n, 0)
  PROVE  Paced(w, [count |-> 0, resetAt |-> n], 0, n, 1) /\ Spread(w, 1)
  <1> DEFINE m == Len(w)
             p == PerDevice
  <1>0. m \in Nat /\ c.count \in Nat /\ c.resetAt \in Nat /\ Gap(0) = p /\ Gap(1) = 2 * p
    BY DEF Windows, Gap
  <1>1. \A i \in 1..m : w[i] \in Nat /\ w[i] <= n
    BY <1>0 DEF InTime
  <1>2. PICK b \in 0..m : /\ Counted(m - b, a, c.count) /\ c.resetAt <= n + Window
                          /\ c.count = 0 => m = 0
                          /\ c.count # 0 => Earlier(w, b, c.resetAt, 0)
    BY DEF Paced
  <1>3. ASSUME NEW i \in 1..m, i <= m - 2 * p PROVE w[i] + Window <= n
    <2>1. c.count # 0
      BY <1>0, <1>2
    <2>2. m - b <= p
      BY <1>2 DEF Counted
    <2>3. i \in 1..b /\ i <= b - p
      BY <1>0, <1>3, <2>2
    <2>4. w[i] + 2 * Window <= c.resetAt
      BY <1>0, <1>2, <2>1, <2>3 DEF Earlier
    <2>5. w[i] \in Nat /\ c.resetAt <= n + Window
      BY <1>1, <1>2
    <2> DEFINE x == w[i]
               e == c.resetAt
    <2>6. x \in Nat /\ e \in Nat /\ x + 2 * Window <= e + 0 /\ e <= n + Window
      BY <1>0, <2>4, <2>5
    <2> HIDE DEF x, e
    <2>7. x + Window <= n + 0
      BY <2>6, WindowsApart
    <2> QED
      BY <2>6, <2>7 DEF x
  <1>4. ASSUME NEW i \in 1..m, NEW j \in 1..m, j = i + 2 * p + p PROVE w[j] >= w[i] + Window
    <2> DEFINE h == i + p + p
    <2>1. h \in 1..m /\ h <= j
      BY <1>0, <1>4
    <2>2. w[h] >= w[i] + Window
      BY <1>0, <2>1 DEF Spread
    <2>3. w[j] >= w[h]
      BY <2>1 DEF InTime
    <2>4. w[h] \in Nat /\ w[i] \in Nat /\ w[j] \in Nat
      BY <1>1, <2>1
    <2> HIDE DEF h
    <2> DEFINE early == w[i] + Window
               mid == w[h]
               late == w[j]
    <2>5. late >= mid /\ mid >= early
      BY <2>2, <2>3
    <2>7. early \in Int /\ mid \in Int /\ late \in Int
      BY SMTT(30), <2>4
    <2> HIDE DEF early, mid, late
    <2>6. late >= early
      BY <2>5, <2>7, Transitive
    <2> QED
      BY <2>6 DEF late, early
  <1>5. Spread(w, 1)
    BY <1>0, <1>4 DEF Spread
  <1>6. Counted(m - m, 0, 0)
    BY <1>0 DEF Counted
  <1>9. m \in 0..m
    BY <1>0
  <1> HIDE DEF m
  <1>7. \E x \in 0..m : Counted(m - x, 0, 0)
    BY <1>6, <1>9
  <1>8. n <= n + Window
    OBVIOUS
  <1> QED
    BY <1>3, <1>5, <1>7, <1>8 DEF Paced, m

\* Now with Redis, where answers are on their way for up to Latency, and are of the
\* window there is, or of the one before.  The first b changes are older than the
\* window but for that latency, and the first g of them older than the one before.
Aged(w, b, g, e) ==
  /\ \A i \in 1..b : w[i] + Window <= e + Latency
  /\ \A i \in 1..g : w[i] + 2 * Window <= e + Latency

Lesser(x, y) == IF x <= y THEN x ELSE y

\* a: how many answers on their way may be let through; f: how many of these are of
\* the window there is.
Shared(w, c, a, f, n) ==
  /\ c.resetAt <= n + Window
  /\ \E b, g \in 0..Len(w) :
       /\ Aged(w, b, g, c.resetAt)
       /\ Len(w) - b + f <= Lesser(PerDevice, c.count)
       /\ Len(w) - g + a <= PerDevice + Lesser(PerDevice, c.count)

SharedSpread(w) == \A i, j \in 1..Len(w) : j = i + 2 * PerDevice => w[j] + Latency >= w[i] + Window

\* Steps that hit a window and let nothing through.
LEMMA SharedAnew ==
  ASSUME NEW w \in Seq(Nat), NEW c \in Windows, NEW a \in Nat, NEW n \in Nat, InTime(w, n), Shared(w, c, a, a, n),
         c.resetAt <= n, NEW x \in 0..1, x <= PerDevice
  PROVE  Shared(w, [count |-> 1, resetAt |-> n + Window], a + x, x, n)
  <1> DEFINE m == Len(w)
             e == n + Window
  <1>1. m \in Nat /\ e \in Nat /\ c.resetAt \in Nat /\ c.count \in Nat
    BY DEF Windows
  <1>2. \A i \in 1..m : w[i] \in Nat /\ w[i] <= n
    BY <1>1 DEF InTime
  <1>3. PICK b \in 0..m : /\ \A i \in 1..b : w[i] + Window <= c.resetAt + Latency
                          /\ m - b + a <= Lesser(PerDevice, c.count)
    BY DEF Shared, Aged
  <1>4. Aged(w, m, b, e)
    <2>1. \A i \in 1..m : w[i] + Window <= e + Latency
      BY <1>1, <1>2
    <2>2. ASSUME NEW i \in 1..b PROVE w[i] + 2 * Window <= e + Latency
      <3>6. i \in 1..m
        BY <1>1
      <3>1. w[i] \in Nat /\ w[i] + Window <= c.resetAt + Latency
        BY <1>2, <1>3, <3>6
      <3>2. e = n + Window /\ c.resetAt <= n /\ Window \in Nat /\ Latency \in Nat
        OBVIOUS
      <3> DEFINE then == w[i]
                 t == c.resetAt
      <3>3. then \in Nat /\ then + Window <= t + Latency /\ t \in Nat /\ t <= n
        BY <1>1, <3>1
      <3>5. e \in Nat /\ e = n + Window
        BY <1>1
      <3> HIDE DEF then, t, e
      <3>4. then + 2 * Window <= e + Latency
        BY <3>2, <3>3, <3>5, WindowsApart
      <3> QED
        BY <3>4 DEF then
    <2> QED
      BY <2>1, <2>2 DEF Aged
  <1>5. m - m + x <= Lesser(PerDevice, 1) /\ m - b + (a + x) <= PerDevice + Lesser(PerDevice, 1)
    <2>1. Lesser(PerDevice, 1) \in Nat /\ x <= Lesser(PerDevice, 1) /\ Lesser(PerDevice, c.count) <= PerDevice
          /\ Lesser(PerDevice, c.count) \in Nat
      BY <1>1 DEF Lesser
    <2> QED
      BY <1>1, <1>3, <2>1
  <1>6. m \in 0..m /\ e <= n + Window
    BY <1>1
  <1> DEFINE c9 == [count |-> 1, resetAt |-> e]
  <1>7. c9.count = 1 /\ c9.resetAt = e
    OBVIOUS
  <1> HIDE DEF m, e, c9
  <1>8. Shared(w, c9, a + x, x, n)
    BY <1>3, <1>4, <1>5, <1>6, <1>7 DEF Shared, m
  <1> QED
    BY <1>8 DEF c9, e

LEMMA SharedAgain ==
  ASSUME NEW w \in Seq(Nat), NEW c \in Windows, NEW a \in Nat, NEW f \in Nat, NEW n \in Nat, Shared(w, c, a, f, n),
         NEW x \in 0..1, x = 1 => c.count + 1 <= PerDevice
  PROVE  Shared(w, [count |-> c.count + 1, resetAt |-> c.resetAt], a + x, f + x, n)
  <1> DEFINE m == Len(w)
             q == c.count
             e == c.resetAt
  <1>1. m \in Nat /\ e \in Nat /\ q \in Nat
    BY DEF Windows
  <1>2. PICK b \in 0..m, g \in 0..m : /\ Aged(w, b, g, e)
                                      /\ m - b + f <= Lesser(PerDevice, q)
                                      /\ m - g + a <= PerDevice + Lesser(PerDevice, q)
    BY DEF Shared
  <1>3. Lesser(PerDevice, q + 1) >= Lesser(PerDevice, q) + x
    BY <1>1 DEF Lesser
  <1>4. Lesser(PerDevice, q) \in Nat /\ Lesser(PerDevice, q + 1) \in Nat
    BY <1>1 DEF Lesser
  <1>5. m - b + (f + x) <= Lesser(PerDevice, q + 1) /\ m - g + (a + x) <= PerDevice + Lesser(PerDevice, q + 1)
    <2> DEFINE old == Lesser(PerDevice, q)
               new == Lesser(PerDevice, q + 1)
    <2>1. new >= old + x /\ old \in Nat /\ new \in Nat /\ x \in Nat
      BY <1>3, <1>4
    <2>2. m - b \in Int /\ m - b + f <= old
      BY <1>1, <1>2
    <2>3. m - g \in Int /\ m - g + a <= PerDevice + old
      BY <1>1, <1>2
    <2> HIDE DEF old, new, m
    <2>4. m - b + (f + x) <= new
      BY <2>1, <2>2, CountsGrow
    <2>5. PerDevice + new >= PerDevice + old + x /\ PerDevice + new \in Int /\ PerDevice + old \in Int
      BY <2>1
    <2>6. m - g + (a + x) <= PerDevice + new
      BY <2>1, <2>3, <2>5, CountsGrow
    <2> QED
      BY <2>4, <2>6 DEF new
  <1>6. e <= n + Window
    BY DEF Shared
  <1> DEFINE c9 == [count |-> q + 1, resetAt |-> e]
  <1>7. c9.count = q + 1 /\ c9.resetAt = e
    OBVIOUS
  <1> HIDE DEF m, e, q, c9
  <1>8. Shared(w, c9, a + x, f + x, n)
    BY <1>2, <1>5, <1>6, <1>7 DEF Shared, m
  <1> QED
    BY <1>8 DEF c9, q, e

\* An answer is read, or lost, later than it was sent, and no change comes of it.
LEMMA SharedFewer ==
  ASSUME NEW w \in Seq(Nat), NEW c \in Windows, NEW a \in Nat, NEW f \in Nat, NEW n \in Nat, Shared(w, c, a, f, n),
         NEW x \in Nat, NEW y \in Nat, x <= a, y <= f, NEW later \in Nat, n <= later
  PROVE  Shared(w, c, x, y, later)
  <1> DEFINE m == Len(w)
             p == Lesser(PerDevice, c.count)
  <1>1. m \in Nat /\ c.count \in Nat /\ c.resetAt \in Nat /\ p \in Nat
    BY DEF Windows, Lesser
  <1>2. PICK b \in 0..m, g \in 0..m : Aged(w, b, g, c.resetAt) /\ m - b + f <= p /\ m - g + a <= PerDevice + p
    BY DEF Shared
  <1>3. m - b + y <= p /\ m - g + x <= PerDevice + p
    BY <1>1, <1>2
  <1>4. c.resetAt <= later + Window
    BY <1>1 DEF Shared
  <1> HIDE DEF m, p
  <1> QED
    BY <1>2, <1>3, <1>4 DEF Shared, m, p

\* A change is let through by an answer of the window there is, z = 1, or of the one
\* before, which is as old as it may be: h is when the hit was made.
LEMMA SharedWrite ==
  ASSUME NEW w \in Seq(Nat), NEW c \in Windows, NEW a \in Nat, NEW f \in Nat, NEW n \in Nat, NEW h \in Nat,
         InTime(w, n), SharedSpread(w), NEW z \in 0..1, Shared(w, c, a + 1, f + z, n),
         n <= h + Latency, z = 0 => h + Window < c.resetAt
  PROVE  Shared(Append(w, n), c, a, f, n) /\ SharedSpread(Append(w, n))
  <1> DEFINE v == Append(w, n)
             m == Len(w)
             e == c.resetAt
             p == Lesser(PerDevice, c.count)
  <1>0. m \in Nat /\ e \in Nat /\ c.count \in Nat /\ p \in Nat /\ p <= PerDevice
    BY DEF Windows, Lesser
  <1>1. Len(v) = m + 1 /\ v[m + 1] = n /\ (\A i \in 1..m : v[i] = w[i])
    OBVIOUS
  <1>2. \A i \in 1..m : w[i] \in Nat /\ w[i] <= n
    BY <1>0 DEF InTime
  <1>3. PICK b \in 0..m, g \in 0..m : Aged(w, b, g, e) /\ m - b + (f + z) <= p /\ m - g + (a + 1) <= PerDevice + p
    BY DEF Shared
  <1>4. e <= n + Window
    BY DEF Shared
  <1>5. \A i, j \in 1..m : j = i + 2 * PerDevice => w[j] + Latency >= w[i] + Window
    BY DEF SharedSpread
  <1> HIDE DEF v, m, e, p
  <1>6. \A i \in 1..g : v[i] = w[i] /\ w[i] + 2 * Window <= e + Latency
    BY <1>0, <1>1, <1>3 DEF Aged
  <1>7. SharedSpread(v)
    <2> SUFFICES ASSUME NEW i \in 1..(m + 1), NEW j \in 1..(m + 1), j = i + 2 * PerDevice
                 PROVE  v[j] + Latency >= v[i] + Window
      BY <1>1 DEF SharedSpread
    <2>1. CASE j \in 1..m
      <3>1. i \in 1..m
        BY <1>0, <2>1
      <3> QED
        BY <1>1, <1>5, <2>1, <3>1
    <2>2. CASE j = m + 1
      <3>1. i \in 1..g /\ i \in 1..m
        BY <1>0, <1>3, <2>2
      <3>2. w[i] + 2 * Window <= e + Latency /\ w[i] \in Nat /\ v[i] = w[i] /\ v[j] = n
        BY <1>1, <1>2, <1>6, <2>2, <3>1
      <3>3. w[i] + Window <= n + Latency
        BY <1>0, <1>4, <3>2, WindowsApart
      <3> QED
        BY <3>2, <3>3
    <2> QED
      BY <1>0, <2>1, <2>2
  <1>8. g \in 0..(m + 1) /\ (m + 1) - g + a <= PerDevice + p
    BY <1>0, <1>3
  <1>9. \E y \in 0..(m + 1) : Aged(v, y, g, e) /\ (m + 1) - y + f <= p
    <2>1. CASE z = 1
      <3>1. \A i \in 1..b : v[i] = w[i] /\ w[i] + Window <= e + Latency
        BY <1>0, <1>1, <1>3 DEF Aged
      <3>2. Aged(v, b, g, e)
        BY <1>6, <3>1 DEF Aged
      <3>3. b \in 0..(m + 1) /\ (m + 1) - b + f <= p
        BY <1>0, <1>3, <2>1
      <3> QED
        BY <3>2, <3>3
    <2>2. CASE z = 0
      <3>1. n + Window <= e + Latency
        BY <1>0, <2>2 DEF e
      <3>2. ASSUME NEW i \in 1..(m + 1) PROVE v[i] + Window <= e + Latency
        <4>1. v[i] \in Nat /\ v[i] <= n
          <5>1. i \in 1..m \/ i = m + 1
            BY <1>0
          <5> QED
            BY <1>1, <1>2, <5>1
        <4> QED
          BY <1>0, <3>1, <4>1
      <3>3. Aged(v, m + 1, g, e)
        BY <1>6, <3>2 DEF Aged
      <3>4. m + 1 \in 0..(m + 1) /\ (m + 1) - (m + 1) + f <= p
        BY <1>0, <1>3, <2>2
      <3> QED
        BY <3>3, <3>4
    <2> QED
      BY <2>1, <2>2
  <1>10. Shared(v, c, a, f, n)
    BY <1>1, <1>4, <1>8, <1>9 DEF Shared, e, p
  <1> QED
    BY <1>7, <1>10 DEF v

\* The requests that have hit the window of d and wait for the answer: s and q are
\* the steps of requests and what they hold.
Awaiting(s, q, d) == {r \in Requests : s[r] = "readDevice" /\ q[r].device = d}

\* Those that Redis has let through, and those of them whose hit is in the window
\* that ends at e.
Passed(s, q, d) == {r \in Awaiting(s, q, d) : q[r].count <= PerDevice}
Current(s, q, d, e) == {r \in Passed(s, q, d) : q[r].hitAt + Window >= e}

Pending(d) == Awaiting(wpc, wreq, d)

LTypes ==
  /\ kind \in {"memory", "redis"} /\ now \in Nat /\ forgotten \in 0..1
  /\ window \in [Limits!Buckets -> Windows] /\ writes \in [Devices -> Seq(Nat)]
  /\ wpc \in [Requests -> Limits!Steps]
  /\ wreq \in [Requests -> [grant : Grants \cup {None}, device : Devices \cup {None}, refused : BOOLEAN,
                            count : Nat, hitAt : Nat]]
  /\ \A r \in Requests : wpc[r] # "idle" => wreq[r].grant \in Grants /\ wreq[r].device \in Devices

AllInTime == \A d \in Devices : InTime(writes[d], now)

AllPaced == \A d \in Devices : Paced(writes[d], window[d], Cardinality(Pending(d)), now, forgotten)

AllSpread == \A d \in Devices : Spread(writes[d], forgotten)

\* While an answer is awaited, no time passes, and the window is not over.
StillOpen == \A r \in Requests : wpc[r] = "readDevice" => window[wreq[r].device].resetAt > now

OfMemory == AllPaced /\ AllSpread /\ StillOpen

\* An answer of Redis is on its way no longer than Latency, and is of a window that
\* the hit did not end.
OnTheirWay ==
  \A r \in Requests : wpc[r] = "readDevice" =>
    wreq[r].hitAt <= now /\ now <= wreq[r].hitAt + Latency /\ wreq[r].hitAt < window[wreq[r].device].resetAt

SharedPace(d) ==
  /\ SharedSpread(writes[d])
  /\ Shared(writes[d], window[d], Cardinality(Passed(wpc, wreq, d)),
            Cardinality(Current(wpc, wreq, d, window[d].resetAt)), now)

OfRedis == forgotten = 0 /\ OnTheirWay /\ (Latency <= Window => \A d \in Devices : SharedPace(d))

LInv == LTypes /\ AllInTime /\ (kind = "memory" => OfMemory) /\ (kind = "redis" => OfRedis)

\* Requests are finitely many, and so is any set of them.
LEMMA CountNat ==
  ASSUME NEW A, A \subseteq Requests PROVE IsFiniteSet(A) /\ Cardinality(A) \in Nat
  <1>1. IsFiniteSet(A)
    BY FS_Subset
  <1> QED
    BY <1>1, FS_CardinalityType

LEMMA Subsets ==
  ASSUME NEW s, NEW q, NEW d, NEW e
  PROVE  Awaiting(s, q, d) \subseteq Requests /\ Passed(s, q, d) \subseteq Requests /\ Current(s, q, d, e) \subseteq Requests
  BY DEF Awaiting, Passed, Current

\* Two sets of requests that differ in r at most.
LEMMA OneMore ==
  ASSUME NEW A, NEW B, A \subseteq Requests, B \subseteq Requests, NEW r \in Requests, r \notin A,
         \A o \in Requests \ {r} : o \in A <=> o \in B
  PROVE  Cardinality(B) = Cardinality(A) + (IF r \in B THEN 1 ELSE 0)
  <1>1. IsFiniteSet(A) /\ Cardinality(A) \in Nat
    BY CountNat
  <1>2. CASE r \in B
    <2>1. B = A \cup {r}
      BY <1>2
    <2>2. Cardinality(A \cup {r}) = Cardinality(A) + 1
      BY <1>1, FS_AddElement
    <2> QED
      BY <1>2, <2>1, <2>2
  <1>3. CASE r \notin B
    <2>1. B = A
      BY <1>3
    <2> QED
      BY <1>1, <1>3, <2>1
  <1> QED
    BY <1>2, <1>3

\* A hit on the window of a key, and what it does to that of a device.
LEMMA HitPaced ==
  ASSUME LInv, kind = "memory", NEW key \in Limits!Buckets, NEW d \in Devices,
         NEW c, c = IF key = d THEN Limits!Hit(d) ELSE window[d], NEW x,
         x = Cardinality(Pending(d)) \/ (x = Cardinality(Pending(d)) + 1 /\ key = d)
  PROVE  Paced(writes[d], c, x, now, forgotten)
  <1> DEFINE w == writes[d]
             a == Cardinality(Pending(d))
             o == window[d]
  <1>1. d \in Limits!Buckets /\ o \in Windows /\ w \in Seq(Nat) /\ now \in Nat /\ forgotten \in 0..1 /\ a \in Nat
    BY CountNat, Subsets DEF LInv, LTypes, Limits!Buckets, Pending
  <1>2. Paced(w, o, a, now, forgotten) /\ InTime(w, now)
    BY DEF LInv, OfMemory, AllPaced, AllInTime
  <1>3. CASE key # d
    BY <1>2, <1>3
  <1>4. CASE key = d /\ o.resetAt <= now
    <2>1. Pending(d) = {}
      BY <1>1, <1>4 DEF LInv, OfMemory, StillOpen, Pending, Awaiting, Windows, LTypes
    <2>2. a = 0
      BY <2>1, FS_EmptySet
    <2>3. c = [count |-> 1, resetAt |-> now + Window]
      BY <1>4 DEF Limits!Hit
    <2>4. x \in 0..1
      BY <1>4, <2>2
    <2> HIDE DEF w, a, o
    <2> QED
      BY <1>1, <1>2, <1>4, <2>3, <2>4, PacedAnew DEF w
  <1>5. CASE key = d /\ ~(o.resetAt <= now)
    <2>1. c = [o EXCEPT !.count = @ + 1]
      BY <1>5 DEF Limits!Hit
    <2>2. o.count \in Nat /\ o.resetAt \in Nat /\ o.resetAt > now
      BY <1>1, <1>5 DEF Windows
    <2>4. c = [count |-> o.count + 1, resetAt |-> o.resetAt]
      BY <1>1, <2>1 DEF Windows
    <2>3. x \in {a, a + 1}
      OBVIOUS
    <2> HIDE DEF w, a, o
    <2>5. Paced(w, [count |-> o.count + 1, resetAt |-> o.resetAt], x, now, forgotten)
      BY <1>1, <1>2, <2>2, <2>3, PacedAgain
    <2> QED
      BY <2>4, <2>5 DEF w
  <1> QED
    BY <1>3, <1>4, <1>5

\* A hit is not let through.
LEMMA PacedFewer ==
  ASSUME NEW w \in Seq(Nat), NEW c \in Windows, NEW a \in Nat, NEW x \in Nat, NEW n \in Nat, NEW l \in 0..1,
         Paced(w, c, a, n, l), x <= a
  PROVE  Paced(w, c, x, n, l)
  <1>1. c.count \in Nat /\ Len(w) \in Nat
    BY DEF Windows
  <1>2. \A b \in 0..Len(w) : Counted(Len(w) - b, a, c.count) => Counted(Len(w) - b, x, c.count)
    BY <1>1 DEF Counted
  <1> QED
    BY <1>2 DEF Paced

\* A request that awaits no answer takes a step, and hits a window or none.
HitsOrNot(r, key) ==
  /\ wpc[r] # "readDevice" /\ UNCHANGED <<kind, now, writes, forgotten>>
  /\ window' \in {window, [window EXCEPT ![key] = Limits!Hit(key)]}
  /\ \A o \in Requests \ {r} : wpc'[o] = wpc[o] /\ wreq'[o] = wreq[o]
  /\ wpc'[r] = "readDevice" =>
       /\ window' = [window EXCEPT ![key] = Limits!Hit(key)]
       /\ wreq'[r].device = key /\ wreq'[r].count = Limits!Hit(key).count /\ wreq'[r].hitAt = now

LEMMA MemoryHit ==
  ASSUME LInv, LTypes', kind = "memory", NEW r \in Requests, NEW key \in Limits!Buckets, HitsOrNot(r, key)
  PROVE  OfMemory'
  <1> USE DEF HitsOrNot
  <1>0. window \in [Limits!Buckets -> Windows] /\ now \in Nat
    BY DEF LInv, LTypes
  <1>1. AllPaced'
    <2> SUFFICES ASSUME NEW d \in Devices
                 PROVE  Paced(writes'[d], window'[d], Cardinality(Pending(d)'), now', forgotten')
      BY DEF AllPaced
    <2>1. d \in Limits!Buckets
      BY DEF Limits!Buckets
    <2>2. PICK s2, q2 : s2 = wpc' /\ q2 = wreq'
      OBVIOUS
    <2>3. Pending(d)' = Awaiting(s2, q2, d)
      BY <2>2 DEF Pending, Awaiting
    <2>4. Cardinality(Awaiting(s2, q2, d)) =
            Cardinality(Awaiting(wpc, wreq, d)) + (IF r \in Awaiting(s2, q2, d) THEN 1 ELSE 0)
      <3>1. r \notin Awaiting(wpc, wreq, d) /\ \A o \in Requests \ {r} : o \in Awaiting(wpc, wreq, d) <=> o \in Awaiting(s2, q2, d)
        BY <2>2 DEF Awaiting
      <3> QED
        BY <3>1, OneMore, Subsets
    <2> DEFINE x == Cardinality(Awaiting(s2, q2, d))
               c == window'[d]
               a == Cardinality(Pending(d))
    <2>5. a \in Nat /\ (x = a \/ (x = a + 1 /\ r \in Awaiting(s2, q2, d)))
      <3>1. Pending(d) \subseteq Requests
        BY DEF Pending, Awaiting
      <3>2. a \in Nat
        BY <3>1, CountNat
      <3>3. x = a + (IF r \in Awaiting(s2, q2, d) THEN 1 ELSE 0)
        BY <2>4 DEF Pending
      <3> HIDE DEF x, a
      <3> QED
        BY <3>2, <3>3
    <2>6. r \in Awaiting(s2, q2, d) =>
            key = d /\ window'[d] = Limits!Hit(d)
      BY <1>0, <2>1, <2>2 DEF Awaiting
    <2>7. \/ window'[d] = IF key = d THEN Limits!Hit(d) ELSE window[d]
          \/ window'[d] = window[d]
      BY <1>0, <2>1
    <2>8. CASE window'[d] = IF key = d THEN Limits!Hit(d) ELSE window[d]
      <3>1. PICK after : after = window'[d]
        OBVIOUS
      <3>2. x = a \/ (x = a + 1 /\ key = d)
        BY <2>5, <2>6
      <3> HIDE DEF x, a
      <3>3. Paced(writes[d], after, x, now, forgotten)
        BY <2>8, <3>1, <3>2, HitPaced DEF a
      <3> QED
        BY <2>3, <3>1, <3>3 DEF x
    <2>9. CASE window'[d] = window[d] /\ ~(window'[d] = IF key = d THEN Limits!Hit(d) ELSE window[d])
      <3>1. x = a
        BY <2>5, <2>6, <2>9
      <3>2. Paced(writes[d], window[d], a, now, forgotten)
        BY DEF LInv, OfMemory, AllPaced
      <3> QED
        BY <2>3, <2>9, <3>1, <3>2
    <2> QED
      BY <2>7, <2>8, <2>9
  <1>2. AllSpread'
    BY DEF LInv, OfMemory, AllSpread
  <1>3. StillOpen'
    <2> SUFFICES ASSUME NEW o \in Requests, wpc'[o] = "readDevice" PROVE window'[wreq'[o].device].resetAt > now
      BY DEF StillOpen
    <2>1. \A k \in Limits!Buckets : Limits!Hit(k).resetAt > now
      BY <1>0 DEF Limits!Hit, Windows
    <2>2. CASE o = r
      BY <1>0, <2>1, <2>2
    <2>3. CASE o # r
      <3>1. wpc[o] = "readDevice" /\ wreq'[o] = wreq[o] /\ wreq[o].device \in Devices
        BY <2>3 DEF LInv, LTypes
      <3>2. window[wreq[o].device].resetAt > now /\ wreq[o].device \in Limits!Buckets
        BY <3>1 DEF LInv, OfMemory, StillOpen, Limits!Buckets
      <3> QED
        BY <1>0, <2>1, <3>1, <3>2
    <2> QED
      BY <2>2, <2>3
  <1> QED
    BY <1>1, <1>2, <1>3 DEF OfMemory

\* The hits of one window with Redis: an answer that is let through counts for two.
LEMMA SharedHit ==
  ASSUME LInv, LTypes', kind = "redis", NEW r \in Requests, NEW key \in Limits!Buckets, HitsOrNot(r, key)
  PROVE  OfRedis'
  <1> USE DEF HitsOrNot
  <1>0. /\ window \in [Limits!Buckets -> Windows] /\ now \in Nat /\ forgotten = 0
        /\ \A o \in Requests : wpc[o] = "readDevice" => wreq[o].device \in Devices
        /\ \A o \in Requests : wreq[o].hitAt \in Nat
    BY DEF LInv, LTypes, OfRedis
  <1>1. \A k \in Limits!Buckets : Limits!Hit(k).resetAt > now /\ Limits!Hit(k).resetAt >= window[k].resetAt /\ Limits!Hit(k) \in Windows
    <2> SUFFICES ASSUME NEW k \in Limits!Buckets
                 PROVE  Limits!Hit(k).resetAt > now /\ Limits!Hit(k).resetAt >= window[k].resetAt /\ Limits!Hit(k) \in Windows
      OBVIOUS
    <2>1. window[k] \in Windows /\ window[k].resetAt \in Nat /\ window[k].count \in Nat
      BY <1>0 DEF Windows
    <2>2. CASE window[k].resetAt <= now
      BY <1>0, <2>1, <2>2 DEF Limits!Hit, Windows
    <2>3. CASE ~(window[k].resetAt <= now)
      BY <1>0, <2>1, <2>3 DEF Limits!Hit, Windows
    <2> QED
      BY <2>2, <2>3
  <1>2. \A k \in Limits!Buckets : window'[k] = window[k] \/ (k = key /\ window'[k] = Limits!Hit(k))
    BY <1>0
  <1>3. OnTheirWay'
    <2> SUFFICES ASSUME NEW o \in Requests, wpc'[o] = "readDevice"
                 PROVE  wreq'[o].hitAt <= now /\ now <= wreq'[o].hitAt + Latency
                        /\ wreq'[o].hitAt < window'[wreq'[o].device].resetAt
      BY DEF OnTheirWay
    <2>1. CASE o = r
      BY <1>0, <1>1, <2>1
    <2>2. CASE o # r
      <3> DEFINE k == wreq[o].device
      <3>1. wpc[o] = "readDevice" /\ wreq'[o] = wreq[o] /\ k \in Limits!Buckets
        BY <1>0, <2>2 DEF Limits!Buckets
      <3>2. wreq[o].hitAt <= now /\ now <= wreq[o].hitAt + Latency /\ wreq[o].hitAt < window[k].resetAt
        BY <3>1 DEF LInv, OfRedis, OnTheirWay
      <3>3. window'[k].resetAt >= window[k].resetAt /\ window[k].resetAt \in Nat /\ window'[k].resetAt \in Nat
        BY <1>0, <1>1, <1>2, <3>1 DEF Windows
      <3> HIDE DEF k
      <3>4. wreq[o].hitAt < window'[k].resetAt
        BY <1>0, <3>2, <3>3
      <3> QED
        BY <3>1, <3>2, <3>4 DEF k
    <2> QED
      BY <2>1, <2>2
  <1>4. ASSUME Latency <= Window, NEW d \in Devices PROVE SharedPace(d)'
    <2> DEFINE w == writes[d]
               o == window[d]
               a == Cardinality(Passed(wpc, wreq, d))
               f == Cardinality(Current(wpc, wreq, d, o.resetAt))
    <2>1. PICK s2, q2, o2 : s2 = wpc' /\ q2 = wreq' /\ o2 = window'[d]
      OBVIOUS
    <2> DEFINE x == IF r \in Passed(s2, q2, d) THEN 1 ELSE 0
               a2 == Cardinality(Passed(s2, q2, d))
               f2 == Cardinality(Current(s2, q2, d, o2.resetAt))
    <2>2. /\ d \in Limits!Buckets /\ o \in Windows /\ o.resetAt \in Nat /\ o.count \in Nat /\ w \in Seq(Nat)
          /\ a \in Nat /\ f \in Nat /\ x \in 0..1
      <3>1. a \in Nat /\ f \in Nat
        BY CountNat, Subsets
      <3>2. d \in Limits!Buckets /\ o \in Windows /\ w \in Seq(Nat)
        BY <1>0 DEF LInv, LTypes, Limits!Buckets
      <3>3. x \in 0..1
        OBVIOUS
      <3> QED
        BY <3>1, <3>2, <3>3 DEF Windows
    <2>3. Shared(w, o, a, f, now) /\ SharedSpread(w) /\ InTime(w, now)
      BY <1>4 DEF LInv, OfRedis, SharedPace, AllInTime
    <2>4. o.resetAt <= now + Window
      BY <2>3 DEF Shared
    <2>5. /\ r \notin Awaiting(wpc, wreq, d)
          /\ \A y \in Requests \ {r} : /\ y \in Awaiting(wpc, wreq, d) <=> y \in Awaiting(s2, q2, d)
                                       /\ wreq[y] = q2[y]
      BY <2>1 DEF Awaiting
    <2>6. a2 = a + x
      <3>1. r \notin Passed(wpc, wreq, d) /\ \A y \in Requests \ {r} : y \in Passed(wpc, wreq, d) <=> y \in Passed(s2, q2, d)
        BY <2>5 DEF Passed
      <3> QED
        BY <3>1, OneMore, Subsets
    <2>7. x = 1 => /\ key = d /\ o2 = Limits!Hit(d) /\ q2[r].hitAt = now
                   /\ Limits!Hit(d).count <= PerDevice
      BY <1>0, <2>1, <2>2 DEF Passed, Awaiting
    <2>8. CASE o2 = o
      <3>1. \A y \in Requests \ {r} : y \in Current(wpc, wreq, d, o.resetAt) <=> y \in Current(s2, q2, d, o2.resetAt)
        BY <2>5, <2>8 DEF Current, Passed
      <3>2. x = 0
        <4>1. x = 1 => o2.count = o.count + 1 \/ o2.resetAt # o.resetAt
          <5>1. Limits!Hit(d).resetAt > now
            BY <1>1, <2>2
          <5>2. window[d].resetAt > now => Limits!Hit(d).count = window[d].count + 1
            <6>1. window[d] \in Windows /\ window[d].resetAt \in Nat
              BY <2>2
            <6>2. \A y \in Windows : [y EXCEPT !.count = y.count + 1].count = y.count + 1
              BY DEF Windows
            <6>3. window[d].resetAt > now => Limits!Hit(d) = [window[d] EXCEPT !.count = window[d].count + 1]
              BY <1>0, <6>1 DEF Limits!Hit
            <6> QED
              BY <6>1, <6>2, <6>3
          <5> QED
            BY <1>0, <2>2, <2>7, <5>1, <5>2
        <4> QED
          BY <2>2, <2>8, <4>1
      <3>3. r \notin Current(wpc, wreq, d, o.resetAt) /\ r \notin Current(s2, q2, d, o2.resetAt)
        BY <2>5, <3>2 DEF Current, Passed
      <3>4. f2 = f
        BY <3>1, <3>3, Subsets, OneMore
      <3>5. a2 = a
        BY <2>2, <2>6, <3>2
      <3> HIDE DEF w, o, a, f, a2, f2, x
      <3> QED
        BY <2>1, <2>3, <2>8, <3>4, <3>5 DEF SharedPace, w, o, a2, f2
    <2>9. CASE o2 # o /\ o.resetAt <= now
      <3>1. o2 = [count |-> 1, resetAt |-> now + Window] /\ key = d
        BY <1>2, <2>1, <2>2, <2>9 DEF Limits!Hit
      <3>2. ASSUME NEW y \in Awaiting(wpc, wreq, d) PROVE wreq[y].hitAt + Window >= o.resetAt /\ wreq[y].hitAt < now
        <4>1. now <= wreq[y].hitAt + Latency /\ wreq[y].hitAt < o.resetAt /\ wreq[y].hitAt \in Nat
          BY <1>0, <3>2 DEF Awaiting, LInv, OfRedis, OnTheirWay
        <4> QED
          BY <1>0, <1>4, <2>2, <2>9, <4>1
      <3>3. Current(wpc, wreq, d, o.resetAt) = Passed(wpc, wreq, d)
        BY <3>2 DEF Current, Passed
      <3>4. f2 = x
        <4>1. o2.resetAt = now + Window
          BY <3>1
        <4>2. \A y \in Requests \ {r} : y \notin Current(s2, q2, d, o2.resetAt)
          <5> SUFFICES ASSUME NEW y \in Requests \ {r}, y \in Passed(s2, q2, d) PROVE ~(q2[y].hitAt + Window >= now + Window)
            BY <4>1 DEF Current
          <5>1. y \in Awaiting(wpc, wreq, d) /\ q2[y] = wreq[y]
            BY <2>5 DEF Passed
          <5>2. wreq[y].hitAt \in Nat
            BY <1>0
          <5> QED
            BY <1>0, <3>2, <5>1, <5>2
        <4>3. r \in Current(s2, q2, d, o2.resetAt) <=> r \in Passed(s2, q2, d)
          BY <1>0, <2>7, <4>1 DEF Current
        <4>4. Cardinality(Current(s2, q2, d, o2.resetAt)) = Cardinality({}) + (IF r \in Current(s2, q2, d, o2.resetAt) THEN 1 ELSE 0)
          BY <4>2, Subsets, OneMore
        <4> QED
          BY <4>3, <4>4, FS_EmptySet
      <3>5. x <= PerDevice
        BY <2>2, <2>7, <3>1
      <3>6. f = a
        BY <3>3
      <3> HIDE DEF w, o, a, f, a2, f2, x
      <3>7. Shared(w, [count |-> 1, resetAt |-> now + Window], a + x, x, now)
        BY <1>0, <2>2, <2>3, <2>9, <3>5, <3>6, SharedAnew
      <3> QED
        BY <2>1, <2>3, <2>6, <3>1, <3>4, <3>7 DEF SharedPace, w, a2, f2
    <2>10. CASE o2 # o /\ ~(o.resetAt <= now)
      <3>1. o2 = [o EXCEPT !.count = @ + 1] /\ key = d
        BY <1>2, <2>1, <2>2, <2>10 DEF Limits!Hit
      <3>2. o2 = [count |-> o.count + 1, resetAt |-> o.resetAt]
        BY <2>2, <3>1 DEF Windows
      <3>3. /\ r \notin Current(wpc, wreq, d, o.resetAt)
            /\ \A y \in Requests \ {r} : y \in Current(wpc, wreq, d, o.resetAt) <=> y \in Current(s2, q2, d, o2.resetAt)
        BY <2>5, <3>2 DEF Current, Passed
      <3>4. r \in Current(s2, q2, d, o2.resetAt) <=> r \in Passed(s2, q2, d)
        BY <2>4, <2>7, <3>2 DEF Current
      <3>5. f2 = f + x
        BY <3>3, <3>4, Subsets, OneMore
      <3>6. x = 1 => o.count + 1 <= PerDevice
        BY <1>2, <2>1, <2>2, <2>7, <3>2
      <3> HIDE DEF w, o, a, f, a2, f2, x
      <3>7. Shared(w, [count |-> o.count + 1, resetAt |-> o.resetAt], a + x, f + x, now)
        BY <1>0, <2>2, <2>3, <3>6, SharedAgain
      <3> QED
        BY <2>1, <2>3, <2>6, <3>2, <3>5, <3>7 DEF SharedPace, w, a2, f2
    <2> QED
      BY <2>8, <2>9, <2>10
  <1> QED
    BY <1>0, <1>3, <1>4 DEF OfRedis

\* Wherever windows are kept.
LEMMA HitStep ==
  ASSUME LInv, LTypes', NEW r \in Requests, NEW key \in Limits!Buckets, HitsOrNot(r, key)
  PROVE  LInv'
  <1>1. AllInTime'
    BY DEF HitsOrNot, LInv, AllInTime
  <1>2. kind' = kind /\ kind \in {"memory", "redis"}
    BY DEF HitsOrNot, LInv, LTypes
  <1> QED
    BY <1>1, <1>2, MemoryHit, SharedHit DEF LInv

\* A request reads what its hit on the window of its device answered: in memory,
LEMMA MemoryRead ==
  ASSUME LInv, LTypes', kind = "memory", NEW r \in Requests, Limits!ReadDevice(r)
  PROVE  OfMemory' /\ AllInTime'
  <1> DEFINE d0 == wreq[r].device
  <1>0. /\ window \in [Limits!Buckets -> Windows] /\ now \in Nat /\ forgotten \in 0..1 /\ writes \in [Devices -> Seq(Nat)]
        /\ wpc[r] = "readDevice" /\ d0 \in Devices /\ d0 \in Limits!Buckets /\ kind \in {"memory", "redis"}
    BY DEF LInv, LTypes, Limits!ReadDevice, Limits!Buckets
  <1>1. /\ UNCHANGED <<kind, now, window, forgotten>> /\ wpc'[r] = "idle"
        /\ \A o \in Requests \ {r} : wpc'[o] = wpc[o] /\ wreq'[o] = wreq[o]
    BY DEF Limits!ReadDevice, Limits!Finish, Limits!Goto, LInv, LTypes
  <1>2. \/ writes' = writes
        \/ writes' = [writes EXCEPT ![d0] = Append(@, now)] /\ Limits!Total(r, d0) <= PerDevice
    <2>1. Limits!Total(r, d0) \in Nat
      BY <1>0 DEF Limits!Total, Windows, LInv, LTypes
    <2> QED
      BY <2>1 DEF Limits!ReadDevice
  <1>3. StillOpen'
    BY <1>1 DEF LInv, OfMemory, StillOpen
  <1>4. ASSUME NEW d \in Devices
        PROVE  /\ Paced(writes'[d], window'[d], Cardinality(Pending(d)'), now', forgotten')
               /\ InTime(writes'[d], now') /\ Spread(writes'[d], forgotten')
    <2>2. PICK s2, q2 : s2 = wpc' /\ q2 = wreq'
      OBVIOUS
    <2>3. Pending(d)' = Awaiting(s2, q2, d)
      BY <1>1, <2>2 DEF Pending, Awaiting
    <2> DEFINE x == Cardinality(Awaiting(s2, q2, d))
               a == Cardinality(Pending(d))
               w == writes[d]
               o == window[d]
    <2>4. a = x + (IF r \in Pending(d) THEN 1 ELSE 0)
      <3>1. r \notin Awaiting(s2, q2, d) /\ \A y \in Requests \ {r} : y \in Awaiting(s2, q2, d) <=> y \in Awaiting(wpc, wreq, d)
        BY <1>1, <2>2 DEF Awaiting
      <3> QED
        BY <3>1, OneMore, Subsets DEF Pending
    <2>5. x \in Nat /\ a \in Nat
      BY CountNat, Subsets DEF Pending
    <2>6. Paced(w, o, a, now, forgotten) /\ InTime(w, now) /\ Spread(w, forgotten)
      BY DEF LInv, OfMemory, AllPaced, AllInTime, AllSpread
    <2>7. w \in Seq(Nat) /\ o \in Windows
      BY <1>0 DEF Limits!Buckets
    <2>8. CASE writes'[d] = writes[d]
      <3>1. Paced(w, o, x, now, forgotten)
        <4>1. x <= a
          BY <2>4, <2>5
        <4> HIDE DEF x, a, w, o
        <4> QED
          BY <1>0, <2>5, <2>6, <2>7, <4>1, PacedFewer
      <3> QED
        BY <1>1, <2>3, <2>6, <2>8, <3>1
    <2>9. CASE d = d0 /\ writes'[d] = Append(w, now) /\ Limits!Total(r, d0) <= PerDevice
      <3>1. r \in Pending(d)
        BY <1>0, <2>9 DEF Pending, Awaiting
      <3>2. a = x + 1
        BY <2>4, <3>1
      <3>3. o.count <= PerDevice
        BY <1>0, <2>9 DEF Limits!Total
      <3>4. o.resetAt > now
        BY <1>0, <2>9 DEF LInv, OfMemory, StillOpen
      <3> HIDE DEF x, a, w, o
      <3>5. Paced(w, o, x + 1, now, forgotten)
        BY <2>6, <3>2
      <3>6. Paced(Append(w, now), o, x, now, forgotten) /\ InTime(Append(w, now), now) /\ Spread(Append(w, now), forgotten)
        BY <1>0, <2>5, <2>6, <2>7, <3>3, <3>4, <3>5, PacedWrite
      <3> QED
        BY <1>1, <2>3, <2>9, <3>6 DEF x, o
    <2> QED
      BY <1>0, <1>2, <2>8, <2>9
  <1> QED
    BY <1>3, <1>4 DEF OfMemory, AllPaced, AllInTime, AllSpread

\* and with Redis, where it may be lost as well.
LEMMA SharedRead ==
  ASSUME LInv, LTypes', kind = "redis", NEW r \in Requests, wpc[r] = "readDevice",
         UNCHANGED <<now, window, forgotten>>, wpc'[r] = "idle",
         \A o \in Requests \ {r} : wpc'[o] = wpc[o] /\ wreq'[o] = wreq[o],
         \/ writes' = writes
         \/ writes' = [writes EXCEPT ![wreq[r].device] = Append(@, now)] /\ wreq[r].count <= PerDevice
  PROVE  OfRedis' /\ AllInTime'
  <1>0. /\ window \in [Limits!Buckets -> Windows] /\ now \in Nat /\ forgotten = 0 /\ writes \in [Devices -> Seq(Nat)]
        /\ \A o \in Requests : wreq[o].hitAt \in Nat
    BY DEF LInv, LTypes, OfRedis
  <1>1. OnTheirWay'
    BY DEF LInv, OfRedis, OnTheirWay
  <1>2. ASSUME NEW d \in Devices
        PROVE  InTime(writes'[d], now) /\ (Latency <= Window => SharedPace(d)')
    <2> DEFINE w == writes[d]
               o == window[d]
               a == Cardinality(Passed(wpc, wreq, d))
               f == Cardinality(Current(wpc, wreq, d, o.resetAt))
    <2>1. PICK s2, q2 : s2 = wpc' /\ q2 = wreq'
      OBVIOUS
    <2> DEFINE x == Cardinality(Passed(s2, q2, d))
               y == Cardinality(Current(s2, q2, d, o.resetAt))
    <2>2. /\ o \in Windows /\ o.resetAt \in Nat /\ w \in Seq(Nat) /\ a \in Nat /\ f \in Nat /\ x \in Nat /\ y \in Nat
      BY <1>0, CountNat, Subsets DEF Limits!Buckets, Windows
    <2>3. InTime(w, now) /\ (Latency <= Window => Shared(w, o, a, f, now) /\ SharedSpread(w))
      BY DEF LInv, OfRedis, SharedPace, AllInTime
    <2>4. /\ r \notin Passed(s2, q2, d) /\ r \notin Current(s2, q2, d, o.resetAt)
          /\ \A z \in Requests \ {r} : /\ z \in Passed(s2, q2, d) <=> z \in Passed(wpc, wreq, d)
                                       /\ z \in Current(s2, q2, d, o.resetAt) <=> z \in Current(wpc, wreq, d, o.resetAt)
      BY <2>1 DEF Current, Passed, Awaiting
    <2>5. a = x + (IF r \in Passed(wpc, wreq, d) THEN 1 ELSE 0)
      <3> DEFINE before == Passed(wpc, wreq, d)
                 after == Passed(s2, q2, d)
      <3>1. /\ r \notin after /\ \A z \in Requests \ {r} : z \in after <=> z \in before
            /\ before \subseteq Requests /\ after \subseteq Requests
        BY <2>4, Subsets
      <3> HIDE DEF before, after
      <3>2. Cardinality(before) = Cardinality(after) + (IF r \in before THEN 1 ELSE 0)
        BY <3>1, OneMore
      <3> QED
        BY <3>2 DEF before, after
    <2>6. f = y + (IF r \in Current(wpc, wreq, d, o.resetAt) THEN 1 ELSE 0)
      <3> DEFINE t == o.resetAt
                 before == Current(wpc, wreq, d, t)
                 after == Current(s2, q2, d, t)
      <3>1. /\ r \notin after /\ \A z \in Requests \ {r} : z \in after <=> z \in before
            /\ before \subseteq Requests /\ after \subseteq Requests
        BY <2>4, Subsets
      <3> HIDE DEF before, after
      <3>2. Cardinality(before) = Cardinality(after) + (IF r \in before THEN 1 ELSE 0)
        BY <3>1, OneMore
      <3> QED
        BY <3>2 DEF before, after
    <2>7. CASE writes'[d] = w
      <3>1. x <= a /\ y <= f
        BY <2>2, <2>5, <2>6
      <3> HIDE DEF w, o, a, f, x, y
      <3>2. Latency <= Window => Shared(w, o, x, y, now)
        BY <1>0, <2>2, <2>3, <3>1, SharedFewer
      <3> QED
        BY <2>1, <2>3, <2>7, <3>2 DEF SharedPace, w, o, x, y
    <2>8. CASE d = wreq[r].device /\ writes'[d] = Append(w, now) /\ wreq[r].count <= PerDevice
      <3> DEFINE h == wreq[r].hitAt
                 z == IF r \in Current(wpc, wreq, d, o.resetAt) THEN 1 ELSE 0
      <3>1. r \in Passed(wpc, wreq, d)
        BY <2>8 DEF Passed, Awaiting
      <3>2. a = x + 1 /\ f = y + z /\ z \in 0..1
        BY <2>5, <2>6, <3>1
      <3>3. h \in Nat /\ now <= h + Latency
        BY <1>0 DEF LInv, OfRedis, OnTheirWay
      <3>4. z = 0 => h + Window < o.resetAt
        BY <2>2, <3>1, <3>3 DEF Current
      <3>5. InTime(Append(w, now), now)
        BY <1>0, <2>2, <2>3, InTimeNow
      <3> HIDE DEF w, o, a, f, x, y, h, z
      <3>6. Latency <= Window => Shared(w, o, x + 1, y + z, now)
        BY <2>3, <3>2
      <3>7. Latency <= Window => Shared(Append(w, now), o, x, y, now) /\ SharedSpread(Append(w, now))
        BY <1>0, <2>2, <2>3, <3>2, <3>3, <3>4, <3>6, SharedWrite
      <3> QED
        BY <2>1, <2>8, <3>5, <3>7 DEF SharedPace, o, x, y
    <2> QED
      BY <1>0, <2>7, <2>8
  <1> QED
    BY <1>0, <1>1, <1>2 DEF OfRedis, AllInTime

\* Wherever windows are kept.
LEMMA ReadStep ==
  ASSUME LInv, LTypes', NEW r \in Requests, Limits!ReadDevice(r)
  PROVE  LInv'
  <1>1. kind' = kind /\ kind \in {"memory", "redis"}
    BY DEF Limits!ReadDevice, LInv, LTypes
  <1>2. CASE kind = "redis"
    <2>1. /\ wpc[r] = "readDevice" /\ UNCHANGED <<now, window, forgotten>> /\ wpc'[r] = "idle"
          /\ \A o \in Requests \ {r} : wpc'[o] = wpc[o] /\ wreq'[o] = wreq[o]
      BY DEF Limits!ReadDevice, Limits!Finish, Limits!Goto, LInv, LTypes
    <2>2. wreq[r].count \in Nat
      BY DEF LInv, LTypes
    <2>3. \/ writes' = writes
          \/ writes' = [writes EXCEPT ![wreq[r].device] = Append(@, now)] /\ wreq[r].count <= PerDevice
      BY <1>2, <2>2 DEF Limits!ReadDevice, Limits!Total
    <2>4. OfRedis' /\ AllInTime'
      BY <1>2, <2>1, <2>3, SharedRead
    <2> QED
      BY <1>1, <1>2, <2>4 DEF LInv
  <1>3. CASE kind = "memory"
    BY <1>1, <1>3, MemoryRead DEF LInv
  <1> QED
    BY <1>1, <1>2, <1>3

\* An answer of Redis does not come in time.
LEMMA LostStep ==
  ASSUME LInv, LTypes', NEW r \in Requests, wpc[r] = "readDevice", Limits!StoreFails(r)
  PROVE  LInv'
  <1>1. /\ kind = "redis" /\ UNCHANGED <<kind, now, window, forgotten, writes>> /\ wpc'[r] = "idle"
        /\ \A o \in Requests \ {r} : wpc'[o] = wpc[o] /\ wreq'[o] = wreq[o]
    BY DEF Limits!StoreFails, Limits!Finish, Limits!Goto, LInv, LTypes
  <1>2. OfRedis' /\ AllInTime'
    BY <1>1, SharedRead
  <1> QED
    BY <1>1, <1>2 DEF LInv

\* The types, by action.
LEMMA LTypesStep == ASSUME LInv, [Limits!Next]_(Limits!vars) PROVE LTypes'
  <1> DEFINE Reqs == [grant : Grants \cup {None}, device : Devices \cup {None}, refused : BOOLEAN, count : Nat,
                      hitAt : Nat]
  <1>0. /\ kind \in {"memory", "redis"} /\ now \in Nat /\ forgotten \in 0..1
        /\ window \in [Limits!Buckets -> Windows] /\ writes \in [Devices -> Seq(Nat)]
        /\ wpc \in [Requests -> Limits!Steps] /\ wreq \in [Requests -> Reqs]
        /\ \A r \in Requests : wpc[r] # "idle" => wreq[r].grant \in Grants /\ wreq[r].device \in Devices
    BY DEF LInv, LTypes
  <1>1. ASSUME NEW k \in Limits!Buckets PROVE Limits!Hit(k) \in Windows
    <2>1. window[k] \in Windows
      BY <1>0
    <2>2. [window[k] EXCEPT !.count = @ + 1] \in Windows
      BY <2>1 DEF Windows
    <2>3. [count |-> 1, resetAt |-> now + Window] \in Windows
      BY <1>0 DEF Windows
    <2> QED
      BY <2>2, <2>3 DEF Limits!Hit
  <1>2. Limits!NoReq \in Reqs
    BY DEF Limits!NoReq
  <1>3. ASSUME NEW r \in Requests, wpc[r] # "idle", NEW key \in {wreq[r].grant, wreq[r].device}, NEW next \in Limits!Steps,
               Limits!HitKey(r, key, next)
        PROVE  LTypes'
    <2>1. key \in Limits!Buckets /\ Limits!Hit(key) \in Windows /\ Limits!Hit(key).count \in Nat
      BY <1>0, <1>1, <1>3 DEF Limits!Buckets, Windows
    <2>2. window' \in [Limits!Buckets -> Windows] /\ wpc' \in [Requests -> Limits!Steps]
      BY <1>0, <1>3, <2>1 DEF Limits!HitKey, Limits!Goto
    <2>3. wreq' = [wreq EXCEPT ![r].count = Limits!Hit(key).count, ![r].hitAt = now]
      BY <1>3 DEF Limits!HitKey
    <2>4. wreq' \in [Requests -> Reqs]
      <3>1. wreq[r] \in Reqs
        BY <1>0
      <3>2. [wreq[r] EXCEPT !.count = Limits!Hit(key).count, !.hitAt = now] \in Reqs
        BY <1>0, <2>1, <3>1
      <3>3. wreq' = [wreq EXCEPT ![r] = [wreq[r] EXCEPT !.count = Limits!Hit(key).count, !.hitAt = now]]
        BY <1>0, <2>3
      <3> QED
        BY <1>0, <3>2, <3>3
    <2>5. \A o \in Requests : wreq'[o].grant = wreq[o].grant /\ wreq'[o].device = wreq[o].device
      BY <1>0, <2>3
    <2>6. \A o \in Requests : wpc'[o] # "idle" => wpc[o] # "idle"
      BY <1>0, <1>3 DEF Limits!HitKey, Limits!Goto
    <2> QED
      BY <1>0, <1>3, <2>2, <2>4, <2>5, <2>6 DEF LTypes, Limits!HitKey
  <1>4. ASSUME NEW r \in Requests, Limits!Finish(r), UNCHANGED <<kind, now, forgotten>>,
               window' \in [Limits!Buckets -> Windows], writes' \in [Devices -> Seq(Nat)]
        PROVE  LTypes'
    <2>1. wpc' = [wpc EXCEPT ![r] = "idle"] /\ wreq' = [wreq EXCEPT ![r] = Limits!NoReq]
      BY <1>4 DEF Limits!Finish, Limits!Goto
    <2>2. wreq' \in [Requests -> Reqs] /\ wpc' \in [Requests -> Limits!Steps]
      BY <1>0, <1>2, <2>1 DEF Limits!Steps
    <2>3. \A o \in Requests : wpc'[o] # "idle" => wpc[o] # "idle" /\ wreq'[o] = wreq[o]
      BY <1>0, <2>1
    <2> QED
      BY <1>0, <1>4, <2>2, <2>3 DEF LTypes
  <1>5. ASSUME NEW r \in Requests, NEW g \in Grants, NEW d \in Devices, Limits!Spend(r, g, d) PROVE LTypes'
    <2> DEFINE new == [Limits!NoReq EXCEPT !.grant = g, !.device = d]
    <2>1. /\ wreq' = [wreq EXCEPT ![r] = new]
          /\ wpc' = [wpc EXCEPT ![r] = "hitGrant"] /\ UNCHANGED <<kind, now, window, writes, forgotten>>
      BY <1>5 DEF Limits!Spend, Limits!Goto
    <2>2. new \in Reqs /\ new.grant = g /\ new.device = d
      BY DEF Limits!NoReq
    <2> HIDE DEF new
    <2>3. wreq' \in [Requests -> Reqs] /\ wpc' \in [Requests -> Limits!Steps]
      BY <1>0, <2>1, <2>2 DEF Limits!Steps
    <2>4. \A o \in Requests : wpc'[o] # "idle" => wreq'[o].grant \in Grants /\ wreq'[o].device \in Devices
      BY <1>0, <2>1, <2>2
    <2> QED
      BY <1>0, <2>1, <2>3, <2>4 DEF LTypes
  <1>6. ASSUME NEW r \in Requests, Limits!ReadGrant(r) PROVE LTypes'
    <2>1. /\ wreq' = [wreq EXCEPT ![r].refused = Limits!Total(r, wreq[r].grant) > PerGrant]
          /\ wpc' = [wpc EXCEPT ![r] = "hitDevice"] /\ UNCHANGED <<kind, now, window, writes, forgotten>> /\ wpc[r] # "idle"
      BY <1>6 DEF Limits!ReadGrant, Limits!Goto
    <2>2. (Limits!Total(r, wreq[r].grant) > PerGrant) \in BOOLEAN
      <3>1. Limits!Total(r, wreq[r].grant) \in Nat
        BY <1>0, <2>1 DEF Limits!Total, Windows, Limits!Buckets
      <3> QED
        BY <3>1
    <2>3. wreq' \in [Requests -> Reqs] /\ wpc' \in [Requests -> Limits!Steps]
      <3> DEFINE over == Limits!Total(r, wreq[r].grant) > PerGrant
      <3>1. over \in BOOLEAN /\ wreq' = [wreq EXCEPT ![r] = [wreq[r] EXCEPT !.refused = over]]
        BY <1>0, <2>1, <2>2
      <3> HIDE DEF over
      <3>2. [wreq[r] EXCEPT !.refused = over] \in Reqs
        BY <1>0, <3>1
      <3>3. wreq' \in [Requests -> Reqs]
        BY <1>0, <3>1, <3>2
      <3> QED
        BY <1>0, <2>1, <3>3 DEF Limits!Steps
    <2>4. \A o \in Requests : /\ wreq'[o].grant = wreq[o].grant /\ wreq'[o].device = wreq[o].device
                              /\ wpc'[o] # "idle" => wpc[o] # "idle"
      BY <1>0, <2>1
    <2> QED
      BY <1>0, <2>1, <2>3, <2>4 DEF LTypes
  <1>7. ASSUME NEW r \in Requests, Limits!ReadDevice(r) PROVE LTypes'
    <2>1. writes' = writes \/ writes' = [writes EXCEPT ![wreq[r].device] = Append(@, now)]
      BY <1>7 DEF Limits!ReadDevice
    <2>2. wreq[r].device \in Devices => Append(writes[wreq[r].device], now) \in Seq(Nat)
      BY <1>0
    <2>3. writes' \in [Devices -> Seq(Nat)]
      BY <1>0, <1>7, <2>1, <2>2 DEF Limits!ReadDevice
    <2> QED
      BY <1>0, <1>4, <1>7, <2>3 DEF Limits!ReadDevice
  <1>8. ASSUME NEW r \in Requests, Limits!StoreFails(r) PROVE LTypes'
    <2> DEFINE k == IF wpc[r] = "hitGrant" THEN wreq[r].grant ELSE wreq[r].device
    <2>1. wpc[r] # "idle" /\ window' \in {window, [window EXCEPT ![k] = Limits!Hit(k)]}
      BY <1>8 DEF Limits!StoreFails
    <2>2. k \in Limits!Buckets /\ Limits!Hit(k) \in Windows
      BY <1>0, <1>1, <2>1 DEF Limits!Buckets
    <2>3. window' \in [Limits!Buckets -> Windows]
      BY <1>0, <2>1, <2>2
    <2> QED
      BY <1>0, <1>4, <1>8, <2>3 DEF Limits!StoreFails
  <1>9. CASE Limits!Restart
    <2>1. [k \in Limits!Buckets |-> [count |-> 0, resetAt |-> now]] \in [Limits!Buckets -> Windows]
      BY <1>0 DEF Windows
    <2> QED
      BY <1>0, <1>2, <1>9, <2>1 DEF Limits!Restart, LTypes, Limits!Steps
  <1>10. CASE Limits!Tick
    BY <1>0, <1>10 DEF Limits!Tick, LTypes
  <1>11. CASE UNCHANGED Limits!vars
    BY <1>0, <1>11 DEF Limits!vars, LTypes
  <1>12. ASSUME NEW r \in Requests, Limits!HitGrant(r) \/ Limits!HitDevice(r) PROVE LTypes'
    <2>1. PICK key \in {wreq[r].grant, wreq[r].device}, next \in Limits!Steps : Limits!HitKey(r, key, next) /\ wpc[r] # "idle"
      BY <1>12 DEF Limits!HitGrant, Limits!HitDevice, Limits!Steps
    <2> QED
      BY <1>3, <2>1
  <1> QED
    BY <1>5, <1>6, <1>7, <1>8, <1>9, <1>10, <1>11, <1>12 DEF Limits!Next

\* The invariant is kept, by action.
LEMMA LStep == ASSUME LInv, [Limits!Next]_(Limits!vars) PROVE LInv'
  <1>0. LTypes' /\ LTypes
    BY LTypesStep DEF LInv
  <1>1. ASSUME NEW r \in Requests, NEW g \in Grants, NEW d \in Devices, Limits!Spend(r, g, d) PROVE LInv'
    <2>1. /\ wpc[r] # "readDevice" /\ d \in Limits!Buckets /\ UNCHANGED <<kind, now, window, writes, forgotten>>
          /\ wpc'[r] # "readDevice" /\ \A o \in Requests \ {r} : wpc'[o] = wpc[o] /\ wreq'[o] = wreq[o]
      BY <1>0, <1>1 DEF Limits!Spend, Limits!Goto, LTypes, Limits!Buckets
    <2> QED
      BY <1>0, <2>1, HitStep DEF HitsOrNot
  <1>2. ASSUME NEW r \in Requests, Limits!HitGrant(r) PROVE LInv'
    <2> DEFINE key == wreq[r].grant
    <2>1. /\ wpc[r] # "readDevice" /\ UNCHANGED <<kind, now, writes, forgotten>> /\ wpc'[r] # "readDevice"
          /\ window' = [window EXCEPT ![key] = Limits!Hit(key)]
          /\ \A o \in Requests \ {r} : wpc'[o] = wpc[o] /\ wreq'[o] = wreq[o]
      BY <1>0, <1>2 DEF Limits!HitGrant, Limits!HitKey, Limits!Goto, LTypes
    <2>2. key \in Limits!Buckets
      BY <1>0, <1>2 DEF Limits!HitGrant, LTypes, Limits!Buckets
    <2> QED
      BY <1>0, <2>1, <2>2, HitStep DEF HitsOrNot
  <1>3. ASSUME NEW r \in Requests, Limits!HitDevice(r) PROVE LInv'
    <2> DEFINE key == wreq[r].device
    <2>1. /\ wpc[r] # "readDevice" /\ UNCHANGED <<kind, now, writes, forgotten>>
          /\ window' = [window EXCEPT ![key] = Limits!Hit(key)] /\ wreq' = [wreq EXCEPT ![r].count = Limits!Hit(key).count, ![r].hitAt = now]
          /\ \A o \in Requests \ {r} : wpc'[o] = wpc[o] /\ wreq'[o] = wreq[o]
      BY <1>0, <1>3 DEF Limits!HitDevice, Limits!HitKey, Limits!Goto, LTypes
    <2>2. key \in Limits!Buckets /\ wreq'[r].device = key /\ wreq'[r].count = Limits!Hit(key).count /\ wreq'[r].hitAt = now
      BY <1>0, <1>3, <2>1 DEF Limits!HitDevice, LTypes, Limits!Buckets
    <2> QED
      BY <1>0, <2>1, <2>2, HitStep DEF HitsOrNot
  <1>4. ASSUME NEW r \in Requests, Limits!ReadGrant(r) PROVE LInv'
    <2>1. /\ wpc[r] # "readDevice" /\ UNCHANGED <<kind, now, window, writes, forgotten>>
          /\ wpc'[r] # "readDevice" /\ \A o \in Requests \ {r} : wpc'[o] = wpc[o] /\ wreq'[o] = wreq[o]
      BY <1>0, <1>4 DEF Limits!ReadGrant, Limits!Goto, LTypes
    <2>2. wreq[r].grant \in Limits!Buckets
      BY <1>0, <1>4 DEF Limits!ReadGrant, LTypes, Limits!Buckets
    <2> QED
      BY <1>0, <2>1, <2>2, HitStep DEF HitsOrNot
  <1>5. ASSUME NEW r \in Requests, wpc[r] # "readDevice", Limits!StoreFails(r) PROVE LInv'
    <2> DEFINE k == IF wpc[r] = "hitGrant" THEN wreq[r].grant ELSE wreq[r].device
    <2>1. /\ wpc[r] # "readDevice" /\ UNCHANGED <<kind, now, writes, forgotten>> /\ wpc'[r] # "readDevice"
          /\ window' \in {window, [window EXCEPT ![k] = Limits!Hit(k)]} /\ wpc[r] # "idle"
          /\ \A o \in Requests \ {r} : wpc'[o] = wpc[o] /\ wreq'[o] = wreq[o]
      BY <1>0, <1>5 DEF Limits!StoreFails, Limits!Finish, Limits!Goto, LTypes
    <2>2. k \in Limits!Buckets
      BY <1>0, <2>1 DEF LTypes, Limits!Buckets
    <2> HIDE DEF k
    <2> QED
      BY <1>0, <2>1, <2>2, HitStep DEF HitsOrNot
  <1>6. CASE Limits!Restart
    <2>1. /\ UNCHANGED <<kind, now, writes>> /\ kind = "memory" /\ forgotten = 0 /\ forgotten' = 1
          /\ window' = [k \in Limits!Buckets |-> [count |-> 0, resetAt |-> now]] /\ \A r \in Requests : wpc'[r] = "idle"
      BY <1>6 DEF Limits!Restart
    <2>2. ASSUME NEW d \in Devices
          PROVE  /\ Paced(writes'[d], window'[d], Cardinality(Pending(d)'), now', forgotten')
                 /\ InTime(writes'[d], now') /\ Spread(writes'[d], forgotten')
      <3>1. Pending(d)' = {}
        BY <2>1 DEF Pending, Awaiting
      <3>2. Cardinality(Pending(d)') = 0
        BY <3>1, FS_EmptySet
      <3>3. window'[d] = [count |-> 0, resetAt |-> now]
        BY <2>1 DEF Limits!Buckets
      <3>4. /\ writes[d] \in Seq(Nat) /\ window[d] \in Windows /\ Cardinality(Pending(d)) \in Nat /\ now \in Nat
            /\ InTime(writes[d], now) /\ Spread(writes[d], 0)
            /\ Paced(writes[d], window[d], Cardinality(Pending(d)), now, 0)
        BY <1>0, <2>1, CountNat, Subsets DEF LInv, LTypes, OfMemory, AllPaced, AllInTime, AllSpread, Limits!Buckets, Pending
      <3>5. Paced(writes[d], [count |-> 0, resetAt |-> now], 0, now, 1) /\ Spread(writes[d], 1)
        BY <3>4, PacedForgotten
      <3> QED
        BY <2>1, <3>2, <3>3, <3>4, <3>5
    <2>3. StillOpen'
      BY <2>1 DEF StillOpen
    <2> QED
      BY <1>0, <2>1, <2>2, <2>3 DEF LInv, OfMemory, AllPaced, AllInTime, AllSpread
  <1>7. CASE Limits!Tick
    <2>1. /\ UNCHANGED <<kind, window, wpc, wreq, writes, forgotten>> /\ now' = now + 1
          /\ \A r \in Requests : wpc[r] = "readDevice" => kind = "redis" /\ now < wreq[r].hitAt + Latency
      BY <1>0, <1>7 DEF Limits!Tick, LInv, LTypes
    <2>2. AllInTime'
      BY <1>0, <2>1 DEF LInv, LTypes, AllInTime, InTime
    <2>3. ASSUME kind = "memory" PROVE OfMemory'
      <3>1. ASSUME NEW d \in Devices
            PROVE  Paced(writes'[d], window'[d], Cardinality(Pending(d)'), now', forgotten') /\ Spread(writes'[d], forgotten')
        <4>1. Pending(d)' = Pending(d)
          BY <2>1 DEF Pending, Awaiting
        <4>2. /\ writes[d] \in Seq(Nat) /\ window[d] \in Windows /\ now \in Nat /\ Spread(writes[d], forgotten)
              /\ Paced(writes[d], window[d], Cardinality(Pending(d)), now, forgotten)
          BY <1>0, <2>3 DEF LInv, LTypes, OfMemory, AllPaced, AllSpread, Limits!Buckets
        <4>3. Paced(writes[d], window[d], Cardinality(Pending(d)), now + 1, forgotten)
          <5> DEFINE w == writes[d]
                     c == window[d]
                     a == Cardinality(Pending(d))
          <5>1. c.resetAt \in Nat /\ now \in Nat
            BY <4>2 DEF Windows
          <5>2. c.resetAt <= (now + 1) + Window /\ (c.resetAt <= now => c.resetAt <= now + 1)
            BY <4>2, <5>1 DEF Paced
          <5> HIDE DEF w, c, a
          <5>3. Paced(w, c, a, now, forgotten)
            BY <4>2 DEF w, c, a
          <5>4. Paced(w, c, a, now + 1, forgotten)
            BY <5>2, <5>3 DEF Paced
          <5> QED
            BY <5>4 DEF w, c, a
        <4> QED
          BY <2>1, <4>1, <4>2, <4>3
      <3>2. StillOpen'
        BY <2>1, <2>3 DEF StillOpen
      <3> QED
        BY <3>1, <3>2 DEF OfMemory, AllPaced, AllSpread
    <2>4. ASSUME kind = "redis" PROVE OfRedis'
      <3>1. ASSUME NEW r \in Requests, wpc'[r] = "readDevice"
            PROVE  wreq'[r].hitAt <= now' /\ now' <= wreq'[r].hitAt + Latency /\ wreq'[r].hitAt < window'[wreq'[r].device].resetAt
        <4>1. /\ wpc[r] = "readDevice" /\ wreq[r].hitAt \in Nat /\ now \in Nat /\ wreq[r].hitAt <= now
              /\ wreq[r].hitAt < window[wreq[r].device].resetAt
          BY <1>0, <2>1, <2>4, <3>1 DEF LInv, LTypes, OfRedis, OnTheirWay
        <4> QED
          BY <2>1, <4>1
      <3>2. ASSUME Latency <= Window, NEW d \in Devices PROVE SharedPace(d)'
        <4> DEFINE a == Cardinality(Passed(wpc, wreq, d))
                   f == Cardinality(Current(wpc, wreq, d, window[d].resetAt))
        <4>1. /\ writes[d] \in Seq(Nat) /\ window[d] \in Windows /\ now \in Nat /\ a \in Nat /\ f \in Nat
              /\ SharedSpread(writes[d]) /\ Shared(writes[d], window[d], a, f, now)
          BY <1>0, <2>4, <3>2, CountNat, Subsets DEF LInv, LTypes, OfRedis, SharedPace, Limits!Buckets
        <4>2. /\ Passed(wpc, wreq, d)' = Passed(wpc, wreq, d)
              /\ Current(wpc, wreq, d, window[d].resetAt)' = Current(wpc, wreq, d, window[d].resetAt)
          BY <2>1
        <4> HIDE DEF a, f
        <4>3. Shared(writes[d], window[d], a, f, now + 1)
          <5>1. now + 1 \in Nat /\ now <= now + 1 /\ a <= a /\ f <= f
            BY <4>1
          <5> QED
            BY <4>1, <5>1, SharedFewer
        <4> QED
          BY <2>1, <4>1, <4>2, <4>3 DEF SharedPace, a, f
      <3> QED
        BY <2>1, <2>4, <3>1, <3>2 DEF LInv, OfRedis, OnTheirWay
    <2> QED
      BY <1>0, <2>1, <2>2, <2>3, <2>4 DEF LInv
  <1>8. CASE UNCHANGED Limits!vars
    <2>1. /\ UNCHANGED <<kind, now, window, wpc, wreq, writes, forgotten>>
      BY <1>8 DEF Limits!vars
    <2>2. \A d \in Devices : Pending(d)' = Pending(d) /\ (SharedPace(d)' <=> SharedPace(d))
      BY <2>1 DEF Pending, SharedPace
    <2>3. (OfMemory' <=> OfMemory) /\ (OfRedis' <=> OfRedis)
      BY <2>1, <2>2 DEF OfMemory, AllPaced, AllSpread, StillOpen, OfRedis, OnTheirWay
    <2> QED
      BY <1>0, <2>1, <2>3 DEF LInv, AllInTime
  <1>9. ASSUME NEW r \in Requests, Limits!StoreFails(r) PROVE LInv'
    BY <1>0, <1>5, <1>9, LostStep
  <1> QED
    BY <1>0, <1>1, <1>2, <1>3, <1>4, <1>6, <1>7, <1>8, <1>9, ReadStep DEF Limits!Next

\* It holds at the start.
LEMMA LInit == Limits!Init => LInv
  <1> SUFFICES ASSUME Limits!Init PROVE LInv
    OBVIOUS
  <1>1. LTypes
    BY DEF Limits!Init, LTypes, Windows, Limits!Steps, Limits!NoReq
  <1>2. \A s, q, d, e : s = wpc => Awaiting(s, q, d) = {} /\ Passed(s, q, d) = {} /\ Current(s, q, d, e) = {}
    BY DEF Limits!Init, Awaiting, Passed, Current
  <1>3. ASSUME NEW d \in Devices
        PROVE  /\ Paced(writes[d], window[d], Cardinality(Pending(d)), now, forgotten)
               /\ InTime(writes[d], now) /\ Spread(writes[d], forgotten) /\ SharedPace(d)
    <2>1. /\ Cardinality(Pending(d)) = 0 /\ Cardinality(Passed(wpc, wreq, d)) = 0
          /\ Cardinality(Current(wpc, wreq, d, window[d].resetAt)) = 0
      BY <1>2, FS_EmptySet DEF Pending
    <2>2. writes[d] = <<>> /\ Len(writes[d]) = 0 /\ window[d] = [count |-> 0, resetAt |-> 0] /\ now = 0 /\ forgotten = 0
      BY DEF Limits!Init, Limits!Buckets
    <2>3. InTime(writes[d], now) /\ Spread(writes[d], forgotten) /\ SharedSpread(writes[d])
      BY <2>2 DEF InTime, Spread, SharedSpread
    <2>4. Counted(0 - 0, 0, 0)
      BY DEF Counted
    <2>5. Paced(writes[d], window[d], 0, now, forgotten)
      BY <2>2, <2>4 DEF Paced
    <2>6. Shared(writes[d], window[d], 0, 0, now)
      <3>1. Aged(writes[d], 0, 0, 0)
        BY DEF Aged
      <3>2. Lesser(PerDevice, 0) = 0
        BY DEF Lesser
      <3> QED
        BY <2>2, <3>1, <3>2 DEF Shared
    <2> QED
      BY <2>1, <2>3, <2>5, <2>6 DEF SharedPace
  <1>4. StillOpen /\ OnTheirWay /\ forgotten = 0
    BY DEF Limits!Init, StillOpen, OnTheirWay
  <1> QED
    BY <1>1, <1>3, <1>4 DEF LInv, AllInTime, OfMemory, AllPaced, AllSpread, OfRedis

\* In no stretch of time as long as a window is a device changed more often than
\* twice the limit, and a limit more where a process forgot its windows in
\* between: however many grants spend, whatever requests overlap, and though in
\* memory a hit is answered with the hits after it (WriteBudgets, BucketStore).
\* With Redis that stretch is shorter by as long as an answer may take.
THEOREM ChangesAreSpread == Limits!Spec => []AtMostTwice
  <1>1. ASSUME LInv PROVE AtMostTwice
    <2> SUFFICES ASSUME NEW d \in Devices, NEW i \in 1..Len(writes[d]), NEW j \in 1..Len(writes[d]),
                        j = i + (2 + forgotten) * PerDevice
                 PROVE  writes[d][j] + Limits!Slack >= writes[d][i] + Window
      BY DEF AtMostTwice, Limits!AtMostTwice
    <2>0. /\ forgotten \in 0..1 /\ kind \in {"memory", "redis"} /\ writes[d][i] \in Nat /\ writes[d][j] \in Nat
          /\ InTime(writes[d], now)
      BY <1>1 DEF LInv, LTypes, AllInTime
    <2>1. CASE kind = "memory"
      <3>1. Spread(writes[d], forgotten) /\ Limits!Slack = 0
        BY <1>1, <2>1 DEF LInv, OfMemory, AllSpread, Limits!Slack
      <3>2. (2 + forgotten) * PerDevice = Gap(forgotten) + PerDevice
        BY <2>0 DEF Gap
      <3>3. i + (2 + forgotten) * PerDevice = i + Gap(forgotten) + PerDevice
        BY <2>0, <3>2 DEF Gap
      <3> QED
        BY <2>0, <3>1, <3>3 DEF Spread
    <2>2. CASE kind = "redis"
      <3>1. forgotten = 0 /\ Limits!Slack = Latency
        BY <1>1, <2>2 DEF LInv, OfRedis, Limits!Slack
      <3>2. j = i + 2 * PerDevice
        BY <3>1
      <3>3. CASE Latency <= Window
        <4>1. SharedSpread(writes[d])
          BY <1>1, <2>2, <3>3 DEF LInv, OfRedis, SharedPace
        <4> QED
          BY <3>1, <3>2, <4>1 DEF SharedSpread
      <3>4. CASE ~(Latency <= Window)
        <4>1. writes[d][i] <= writes[d][j]
          BY <2>0, <3>2 DEF InTime
        <4> QED
          BY <2>0, <3>1, <3>4, <4>1
      <3> QED
        BY <3>3, <3>4
    <2> QED
      BY <2>0, <2>1, <2>2
  <1> QED
    BY <1>1, LInit, LStep, PTL DEF Limits!Spec
=============================================================================
