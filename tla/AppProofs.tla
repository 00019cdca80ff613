------------------------------ MODULE AppProofs ------------------------------
(* The session and the device screens of the iOS app, for any number of     *)
(* grants, callers, devices, calls and versions.                            *)
EXTENDS MCParts, TLAPS

USE NoneIsNoValue

-----------------------------------------------------------------------------
(* MobileSession.  The app holds the newest refresh token of its grant, or  *)
(* the one task that refreshes has its answer, unless an answer or a save   *)
(* was lost.  That there is only one such task, and that it belongs to the  *)
(* session that is there when it ends, is what authorized and refreshOnce   *)
(* have to see to; the keychain has the same token as the app, or the last  *)
(* one of a session that it did not delete or not hand out.                 *)

Toks == [grant : Grants, n : Nat \ {0}]
TaskType == [step : {"none", "sent", "answered", "ok", "refused", "failed"}, sent : Toks \cup {None}, got : Toks \cup {None}]

AppTypes ==
  /\ newest \in [Grants -> Nat] /\ over \in [Grants -> {"no", "revoked", "stolen"}]
  /\ refreshToken \in Toks \cup {None} /\ kept \in Toks \cup {None}
  /\ task \in [Requests -> TaskType]
  /\ DOMAIN mpc = Requests /\ DOMAIN mcall = Requests
  /\ mpc = [c \in Requests |-> mpc[c]] /\ mcall = [c \in Requests |-> mcall[c]]
  /\ \A c \in Requests : mcall[c].attempt # "refresh"
  /\ entering \in Grants \cup {None} /\ strays \subseteq Toks /\ lost \subseteq Grants

\* A request on its way has the refresh token of the session.
AppSent ==
  \A c \in Requests : task[c].step = "sent" => refreshTask = c /\ refreshToken # None /\ task[c].sent = refreshToken

\* An answer that is to be stored is for the grant of the session, if there is one.
AppAnswered ==
  \A c \in Requests : task[c].step = "answered" =>
    /\ task[c].got \in Toks /\ task[c].sent \in Toks /\ task[c].got.grant = task[c].sent.grant
    /\ refreshToken # None => /\ refreshTask = c
                              /\ task[c].got.grant = refreshToken.grant
                              /\ task[c].sent.grant = refreshToken.grant

\* Who waits for its own task waits for the session's.
AppMakers == \A c \in Requests : mpc[c] = "refresh" /\ mcall[c].on = c /\ refreshToken # None => refreshTask = c

AppNewest ==
  refreshToken # None /\ refreshToken.grant \notin lost /\ over[refreshToken.grant] = "no" =>
    /\ \A c \in Requests : task[c].step = "answered" => task[c].got.n = newest[refreshToken.grant]
    /\ (\A c \in Requests : task[c].step # "answered") => refreshToken.n = newest[refreshToken.grant]

\* The keychain's token is the app's, or the newest, or one that is being renewed.
AppKept ==
  kept # None /\ kept.grant \notin lost =>
    \/ kept = refreshToken
    \/ /\ refreshToken = None \/ refreshToken.grant # kept.grant
       /\ \/ over[kept.grant] # "no" \/ kept.n = newest[kept.grant]
          \/ \E c \in Requests : task[c].step = "answered" /\ task[c].sent.grant = kept.grant

AppEntering ==
  entering # None => /\ refreshToken = None
                     /\ entering \notin lost /\ over[entering] = "no" => newest[entering] = 1

AppStrays == \A tok \in strays : tok.grant \in lost

AppTheft == \A g \in Grants : over[g] = "stolen" => g \in lost

AInv == AppTypes /\ AppSent /\ AppAnswered /\ AppMakers /\ AppNewest /\ AppKept /\ AppEntering /\ AppStrays /\ AppTheft

\* No task is a task that has no step to take.
LEMMA NoTaskType == App!NoTask \in TaskType /\ App!NoTask.step = "none"
  BY DEF App!NoTask, TaskType

\* A task that has ended without an answer.
LEMMA EndedTasks ==
  /\ [App!NoTask EXCEPT !.step = "failed"] \in TaskType /\ [App!NoTask EXCEPT !.step = "failed"].step = "failed"
  /\ [App!NoTask EXCEPT !.step = "refused"] \in TaskType /\ [App!NoTask EXCEPT !.step = "refused"].step = "refused"
  BY DEF App!NoTask, TaskType

\* At first there is no session.
LEMMA AppInit == ASSUME App!Init PROVE AInv
  <1>1. AppTypes
    BY NoTaskType DEF App!Init, AppTypes, App!NoCall
  <1>2. \A c \in Requests : task[c] = App!NoTask
    BY DEF App!Init
  <1>3. AppSent /\ AppAnswered
    BY <1>2, NoTaskType DEF AppSent, AppAnswered
  <1> QED
    BY <1>1, <1>3 DEF App!Init, AInv, AppMakers, AppNewest, AppKept, AppEntering, AppStrays, AppTheft

\* The end of a grant for another reason touches nothing of the app.
LEMMA AppRevoked ==
  ASSUME AInv, UNCHANGED <<newest, refreshToken, kept, refreshTask, task, mpc, mcall, strays, lost>>,
         entering' = entering \/ entering' = None,
         over' = over \/ \E g \in Grants : over' = [over EXCEPT ![g] = "revoked"]
  PROVE  AInv'
  <1>1. over' \in [Grants -> {"no", "revoked", "stolen"}]
    BY DEF AInv, AppTypes
  <1>2. \A g \in Grants : over'[g] = over[g] \/ over'[g] = "revoked"
    BY DEF AInv, AppTypes
  <1>3. AppTypes'
    BY <1>1 DEF AInv, AppTypes
  <1>4. AppNewest'
    BY <1>2 DEF AInv, AppTypes, AppNewest, Toks
  <1>5. AppEntering'
    BY <1>2 DEF AInv, AppTypes, AppEntering
  <1>6. AppTheft'
    BY <1>2 DEF AInv, AppTheft
  <1>7. AppSent' /\ AppAnswered' /\ AppMakers' /\ AppStrays'
    BY DEF AInv, AppSent, AppAnswered, AppMakers, AppStrays
  <1>8. AppKept'
    BY <1>2 DEF AInv, AppTypes, AppKept, Toks
  <1> QED
    BY <1>3, <1>4, <1>5, <1>6, <1>7, <1>8 DEF AInv

\* Steps that touch neither the pair, nor a task, nor a caller.
LEMMA AppElse ==
  ASSUME AInv,
         \/ \E g \in Grants : App!GraceEnds(g) \/ App!RevokedElsewhere(g)
         \/ App!Age \/ App!SignInFails \/ App!LogOut \/ App!Revoke \/ UNCHANGED App!vars
  PROVE  AInv'
  <1>1. UNCHANGED <<newest, refreshToken, kept, refreshTask, task, mpc, mcall, strays, lost>>
    BY DEF App!GraceEnds, App!RevokedElsewhere, App!Age, App!SignInFails, App!LogOut, App!Revoke, App!vars, App!server,
           App!session, App!history
  <1>2. entering' = entering \/ entering' = None
    BY DEF App!GraceEnds, App!RevokedElsewhere, App!Age, App!SignInFails, App!LogOut, App!Revoke, App!vars
  <1>3. over' = over \/ \E g : over' = [over EXCEPT ![g] = "revoked"]
    BY DEF App!GraceEnds, App!RevokedElsewhere, App!Age, App!SignInFails, App!LogOut, App!Revoke, App!vars, App!server
  <1>4. over' = over \/ \E g \in Grants : over' = [over EXCEPT ![g] = "revoked"]
    BY <1>3 DEF AInv, AppTypes
  <1> QED
    BY <1>1, <1>2, <1>4, AppRevoked

\* What the server makes of a refresh token (rotateRefresh): a newer one, or
\* the same, or the end of its grant, when the token is refused.
LEMMA AppPresent ==
  ASSUME AInv, NEW tok \in Toks, App!Present(tok)
  PROVE  /\ newest' \in [Grants -> Nat] /\ over' \in [Grants -> {"no", "revoked", "stolen"}]
         /\ \A g \in Grants : g # tok.grant => newest'[g] = newest[g] /\ over'[g] = over[g]
         /\ App!Fresh(tok) => over' = over /\ newest'[tok.grant] = tok.n + 1
         /\ ~App!Fresh(tok) => newest' = newest
         /\ over'[tok.grant] = over[tok.grant] \/ (App!Refused(tok) /\ over[tok.grant] = "no" /\ over'[tok.grant] = "stolen")
  <1>1. tok.grant \in Grants /\ tok.n \in Nat /\ newest[tok.grant] \in Nat
    BY DEF AInv, AppTypes, Toks
  <1>2. CASE App!Fresh(tok)
    BY <1>1, <1>2 DEF AInv, AppTypes, App!Present, App!Fresh
  <1>3. CASE ~App!Fresh(tok)
    <2>1. newest' = newest
      BY <1>3 DEF App!Present
    <2>2. over' = IF over[tok.grant] = "no" /\ App!Refused(tok) THEN [over EXCEPT ![tok.grant] = "stolen"] ELSE over
      BY <1>3 DEF App!Present
    <2>3. over' \in [Grants -> {"no", "revoked", "stolen"}]
      BY <1>1, <2>2 DEF AInv, AppTypes
    <2>4. \A g \in Grants : g # tok.grant => over'[g] = over[g]
      BY <2>2 DEF AInv, AppTypes
    <2>5. over'[tok.grant] = over[tok.grant] \/ (App!Refused(tok) /\ over[tok.grant] = "no" /\ over'[tok.grant] = "stolen")
      BY <1>1, <2>2 DEF AInv, AppTypes
    <2> QED
      BY <1>3, <2>1, <2>3, <2>4, <2>5 DEF AInv, AppTypes
  <1> QED
    BY <1>2, <1>3

\* A request whose answer nobody waits for is of a grant that counts as lost.
LEMMA AppStray == ASSUME AInv, NEW tok \in strays, App!StrayArrives(tok) PROVE AInv'
  <1>1. /\ strays' = strays \ {tok} /\ (App!Present(tok) \/ UNCHANGED <<newest, over>>)
        /\ UNCHANGED <<refreshToken, kept, refreshTask, task, mpc, mcall, entering, lost>>
    BY DEF App!StrayArrives, App!server, App!session, App!history
  <1>2. tok \in Toks /\ tok.grant \in lost
    BY DEF AInv, AppTypes, AppStrays
  <1>3. /\ newest' \in [Grants -> Nat] /\ over' \in [Grants -> {"no", "revoked", "stolen"}]
        /\ \A g \in Grants : g # tok.grant => newest'[g] = newest[g] /\ over'[g] = over[g]
    BY <1>1, <1>2, AppPresent DEF AInv, AppTypes
  <1>4. AppTypes'
    BY <1>1, <1>3 DEF AInv, AppTypes
  <1>5. AppNewest'
    <2>1. CASE refreshToken = None
      BY <1>1, <2>1 DEF AppNewest
    <2>2. CASE refreshToken # None
      <3>1. refreshToken.grant \in Grants
        BY <2>2 DEF AInv, AppTypes, Toks
      <3> QED
        BY <1>1, <1>2, <1>3, <3>1 DEF AInv, AppNewest
    <2> QED
      BY <2>1, <2>2
  <1>6. AppEntering'
    BY <1>1, <1>2, <1>3 DEF AInv, AppTypes, AppEntering
  <1>7. AppTheft'
    BY <1>1, <1>2, <1>3 DEF AInv, AppTheft
  <1>8. AppSent' /\ AppAnswered' /\ AppMakers' /\ AppStrays'
    BY <1>1 DEF AInv, AppSent, AppAnswered, AppMakers, AppStrays
  <1>9. AppKept'
    BY <1>1, <1>2, <1>3 DEF AInv, AppTypes, AppKept, Toks
  <1> QED
    BY <1>4, <1>5, <1>6, <1>7, <1>8, <1>9 DEF AInv

\* The token of a request under way, and that no task has an answer meanwhile.
LEMMA AppUnderWay ==
  ASSUME AInv, NEW c \in Requests, task[c].step = "sent"
  PROVE  /\ refreshTask = c /\ refreshToken \in Toks /\ refreshToken # None /\ task[c].sent = refreshToken
         /\ entering = None /\ refreshToken.grant \in Grants
         /\ \A d \in Requests \ {c} : task[d].step # "sent" /\ task[d].step # "answered"
         /\ refreshToken.grant \in lost \/ over[refreshToken.grant] # "no" \/ refreshToken.n = newest[refreshToken.grant]
  <1>1. refreshTask = c /\ refreshToken # None /\ task[c].sent = refreshToken
    BY DEF AInv, AppSent
  <1>2. refreshToken \in Toks /\ refreshToken.grant \in Grants /\ entering = None
    BY <1>1 DEF AInv, AppTypes, AppEntering, Toks
  <1>3. \A d \in Requests \ {c} : task[d].step # "sent" /\ task[d].step # "answered"
    BY <1>1 DEF AInv, AppSent, AppAnswered
  <1>4. \A d \in Requests : task[d].step # "answered"
    BY <1>3
  <1> QED
    BY <1>1, <1>2, <1>3, <1>4 DEF AInv, AppNewest

\* The server answers; it refuses a token of the app only when one was lost.
LEMMA AppReply == ASSUME AInv, NEW c \in Requests, App!Reply(c) PROVE AInv'
  <1> DEFINE tok == task[c].sent
  <1>1. task[c].step = "sent" /\ App!Present(tok)
        /\ UNCHANGED <<refreshToken, kept, refreshTask, mpc, mcall, entering, strays, lost>>
    BY DEF App!Reply, App!session, App!history
  <1>2. /\ refreshTask = c /\ tok \in Toks /\ refreshToken # None /\ tok = refreshToken
        /\ entering = None /\ tok.grant \in Grants /\ tok.n \in Nat
        /\ \A d \in Requests \ {c} : task[d].step # "sent" /\ task[d].step # "answered"
        /\ tok.grant \in lost \/ over[tok.grant] # "no" \/ tok.n = newest[tok.grant]
    BY <1>1, AppUnderWay DEF Toks
  <1>3. /\ newest' \in [Grants -> Nat] /\ over' \in [Grants -> {"no", "revoked", "stolen"}]
        /\ \A g \in Grants : g # tok.grant => newest'[g] = newest[g] /\ over'[g] = over[g]
        /\ App!Fresh(tok) => over' = over /\ newest'[tok.grant] = tok.n + 1
        /\ ~App!Fresh(tok) => newest' = newest
        /\ over'[tok.grant] = over[tok.grant] \/ (App!Refused(tok) /\ over[tok.grant] = "no" /\ over'[tok.grant] = "stolen")
    BY <1>1, <1>2, AppPresent
  <1>4. PICK new \in TaskType :
          /\ task' = [task EXCEPT ![c] = new]
          /\ App!Refused(tok) => new.step = "refused"
          /\ ~App!Refused(tok) => new.step = "answered" /\ new.sent = tok /\ new.got = App!Answered(tok)
    <2>1. CASE App!Refused(tok)
      BY <2>1, EndedTasks DEF App!Reply
    <2>2. CASE ~App!Refused(tok)
      <3> DEFINE new == [task[c] EXCEPT !.step = "answered", !.got = App!Answered(tok)]
      <3>1. App!Answered(tok) \in Toks
        BY <1>2, <2>2 DEF App!Answered, App!Refused, App!Replayed, AInv, AppTypes, Toks
      <3>2. task[c] \in TaskType
        BY DEF AInv, AppTypes
      <3>3. new \in TaskType /\ new.step = "answered" /\ new.sent = tok /\ new.got = App!Answered(tok)
        BY <3>1, <3>2 DEF TaskType
      <3>4. task' = [task EXCEPT ![c] = new]
        BY <2>2 DEF App!Reply
      <3> QED
        BY <2>2, <3>3, <3>4
    <2> QED
      BY <2>1, <2>2
  <1> HIDE DEF tok
  <1>5. task'[c] = new /\ (\A d \in Requests \ {c} : task'[d] = task[d])
    BY <1>4 DEF AInv, AppTypes
  <1>6. AppTypes'
    BY <1>1, <1>3, <1>4 DEF AInv, AppTypes
  <1>7. ~App!Refused(tok) => /\ App!Answered(tok) \in Toks /\ App!Answered(tok).grant = tok.grant
                             /\ App!Answered(tok).n = newest'[tok.grant]
    BY <1>2, <1>3 DEF App!Answered, App!Refused, App!Replayed, AInv, AppTypes, Toks
  <1>8. AppSent'
    BY <1>2, <1>4, <1>5 DEF AppSent
  <1>9. AppAnswered'
    BY <1>1, <1>2, <1>4, <1>5, <1>7 DEF AppAnswered
  <1>10. App!Refused(tok) /\ tok.grant \notin lost => over'[tok.grant] # "no"
    <2>1. App!Refused(tok) /\ over[tok.grant] = "no" => tok.n # newest[tok.grant]
      BY DEF App!Refused, App!Fresh
    <2> QED
      BY <1>2, <1>3, <2>1
  <1>11. AppNewest'
    BY <1>1, <1>2, <1>4, <1>5, <1>7, <1>10 DEF AppNewest
  <1>12. AppMakers' /\ AppStrays' /\ AppEntering'
    BY <1>1, <1>2 DEF AInv, AppMakers, AppStrays, AppEntering
  <1>13. over'[tok.grant] = "stolen" => tok.grant \in lost
    <2>1. over[tok.grant] = "stolen" => tok.grant \in lost
      BY <1>2 DEF AInv, AppTheft
    <2>2. App!Refused(tok) /\ over[tok.grant] = "no" => tok.n # newest[tok.grant]
      BY DEF App!Refused, App!Fresh
    <2> QED
      BY <1>2, <1>3, <2>1, <2>2
  <1>14. AppTheft'
    BY <1>1, <1>3, <1>13 DEF AInv, AppTheft
  <1>15. AppKept'
    BY <1>1, <1>2, <1>3, <1>5 DEF AInv, AppTypes, AppKept, Toks
  <1> QED
    BY <1>6, <1>8, <1>9, <1>11, <1>12, <1>14, <1>15 DEF AInv

\* A request ends without an answer: the server has not taken the token, or the
\* grant counts as lost.
LEMMA AppNoReply == ASSUME AInv, NEW c \in Requests, App!NoReply(c) PROVE AInv'
  <1> DEFINE tok == task[c].sent
  <1> DEFINE new == [App!NoTask EXCEPT !.step = "failed"]
  <1>1. task[c].step = "sent" /\ task' = [task EXCEPT ![c] = new]
        /\ UNCHANGED <<refreshToken, kept, refreshTask, mpc, mcall, entering>>
    BY DEF App!NoReply, App!session
  <1>2. /\ refreshTask = c /\ tok \in Toks /\ refreshToken # None /\ tok = refreshToken
        /\ entering = None /\ tok.grant \in Grants
        /\ \A d \in Requests \ {c} : task[d].step # "sent" /\ task[d].step # "answered"
        /\ tok.grant \in lost \/ over[tok.grant] # "no" \/ tok.n = newest[tok.grant]
    BY <1>1, AppUnderWay
  <1>3. \/ UNCHANGED <<newest, over, lost, strays>>
        \/ App!Present(tok) /\ lost' = lost \cup {tok.grant} /\ strays' = strays
        \/ UNCHANGED <<newest, over>> /\ lost' = lost \cup {tok.grant} /\ strays' = strays \cup {tok}
    BY DEF App!NoReply, App!server
  <1>4. /\ newest' \in [Grants -> Nat] /\ over' \in [Grants -> {"no", "revoked", "stolen"}]
        /\ \A g \in Grants : g # tok.grant => newest'[g] = newest[g] /\ over'[g] = over[g]
        /\ lost \subseteq lost' /\ lost' \subseteq Grants
        /\ tok.grant \in lost' \/ (newest' = newest /\ over' = over /\ lost' = lost)
        /\ strays' \subseteq Toks /\ (\A old \in strays' : old \in strays \/ old.grant \in lost')
    BY <1>2, <1>3, AppPresent DEF AInv, AppTypes
  <1>5. new \in TaskType /\ new.step = "failed"
    BY EndedTasks
  <1> HIDE DEF tok, new
  <1>6. task'[c] = new /\ (\A d \in Requests \ {c} : task'[d] = task[d])
    BY <1>1 DEF AInv, AppTypes
  <1>7. AppTypes'
    BY <1>1, <1>4, <1>5 DEF AInv, AppTypes
  <1>8. AppSent' /\ AppAnswered'
    BY <1>2, <1>5, <1>6 DEF AppSent, AppAnswered
  <1>9. AppNewest'
    BY <1>1, <1>2, <1>4, <1>5, <1>6 DEF AppNewest
  <1>10. AppMakers' /\ AppStrays' /\ AppEntering'
    BY <1>1, <1>2, <1>4 DEF AInv, AppMakers, AppStrays, AppEntering
  <1>11. AppTheft'
    BY <1>4 DEF AInv, AppTheft
  <1>12. AppKept'
    BY <1>1, <1>2, <1>4, <1>6 DEF AInv, AppTypes, AppKept, Toks
  <1> QED
    BY <1>7, <1>8, <1>9, <1>10, <1>11, <1>12 DEF AInv

\* The rest of a task stores what it got, unless the session is gone (store);
\* after it the app has the newest token again.
LEMMA AppStore == ASSUME AInv, NEW c \in Requests, App!Store(c) PROVE AInv'
  <1> DEFINE new == [task[c] EXCEPT !.step = "ok", !.sent = None]
  <1>1. task[c].step = "answered" /\ task' = [task EXCEPT ![c] = new]
        /\ UNCHANGED <<newest, over, refreshTask, mpc, mcall, entering, strays>>
    BY DEF App!Store, App!server
  <1>2. task[c].got \in Toks /\ task[c].got.grant \in Grants /\ task[c].got.grant = task[c].sent.grant
        /\ (refreshToken # None => refreshTask = c /\ task[c].got.grant = refreshToken.grant)
    BY <1>1 DEF AInv, AppAnswered, Toks
  <1>3. new \in TaskType /\ new.step = "ok"
    <2>1. task[c] \in TaskType
      BY DEF AInv, AppTypes
    <2> QED
      BY <2>1 DEF TaskType
  <1> HIDE DEF new
  <1>4. task'[c] = new /\ (\A d \in Requests \ {c} : task'[d] = task[d])
    BY <1>1 DEF AInv, AppTypes
  <1>5. CASE refreshToken = None
    <2>1. UNCHANGED <<refreshToken, kept>> /\ lost' = lost \cup {task[c].got.grant}
      BY <1>5 DEF App!Store, App!Gone
    <2>2. AppTypes'
      BY <1>1, <1>2, <1>3, <2>1 DEF AInv, AppTypes
    <2>3. AppSent' /\ AppAnswered'
      BY <1>3, <1>4, <2>1, <1>5 DEF AInv, AppSent, AppAnswered
    <2>4. AppKept'
      BY <1>1, <1>2, <1>4, <1>5, <2>1 DEF AInv, AppKept
    <2> QED
      BY <1>1, <1>5, <2>1, <2>2, <2>3, <2>4 DEF AInv, AppMakers, AppNewest, AppStrays, AppEntering, AppTheft
  <1>6. CASE refreshToken # None
    <2> DEFINE tok == task[c].got
    <2>1. /\ refreshToken' = tok
          /\ \/ kept' = tok /\ lost' = lost
             \/ kept' = kept /\ lost' = lost \cup {tok.grant}
      BY <1>6 DEF App!Store, App!Gone, App!Rotated, App!Keep
    <2>2. tok \in Toks /\ tok.grant = refreshToken.grant /\ refreshTask = c
      BY <1>2, <1>6
    <2>3. tok.grant \in lost \/ over[tok.grant] # "no" \/ tok.n = newest[tok.grant]
      BY <1>1, <1>6, <2>2 DEF AInv, AppNewest
    <2>4. \A d \in Requests \ {c} : task[d].step # "sent" /\ task[d].step # "answered"
      BY <1>6, <2>2 DEF AInv, AppSent, AppAnswered
    <2> HIDE DEF tok
    <2>5. tok.grant \in Grants
      BY <2>2 DEF Toks
    <2>6. AppTypes'
      BY <1>1, <1>3, <2>1, <2>2, <2>5 DEF AInv, AppTypes
    <2>7. AppSent' /\ AppAnswered'
      BY <1>3, <1>4, <2>4 DEF AppSent, AppAnswered
    <2>8. AppMakers'
      BY <1>1, <1>6 DEF AInv, AppMakers
    <2>9. AppNewest'
      BY <1>1, <1>3, <1>4, <2>1, <2>3, <2>4 DEF AppNewest
    <2>10. AppKept'
      <3> SUFFICES ASSUME kept' # None, kept'.grant \notin lost', kept' # tok
                   PROVE  tok.grant # kept'.grant /\ (over[kept'.grant] # "no" \/ kept'.n = newest[kept'.grant])
        BY <1>1, <2>1 DEF AppKept
      <3>1. kept' = kept /\ kept.grant \notin lost /\ kept.grant # tok.grant
        BY <2>1
      <3>2. \A d \in Requests : task[d].step = "answered" => task[d].sent.grant # kept.grant
        BY <1>6, <2>2, <3>1 DEF AInv, AppAnswered
      <3> QED
        BY <2>2, <3>1, <3>2 DEF AInv, AppKept
    <2>11. AppStrays' /\ AppTheft'
      BY <1>1, <2>1 DEF AInv, AppStrays, AppTheft
    <2>12. AppEntering'
      BY <1>1, <1>6 DEF AInv, AppEntering
    <2> QED
      BY <2>6, <2>7, <2>8, <2>9, <2>10, <2>11, <2>12 DEF AInv
  <1> QED
    BY <1>5, <1>6

\* A caller that begins to wait for the task there is, or stops waiting.
LEMMA AppWaits ==
  ASSUME AInv, NEW c \in Requests, NEW step, NEW new,
         mpc' = [mpc EXCEPT ![c] = step], mcall' = [mcall EXCEPT ![c] = new],
         step = "refresh" => new.on = refreshTask /\ refreshTask' = refreshTask, new.attempt # "refresh",
         UNCHANGED <<newest, over, refreshToken, kept, entering, strays, lost>>,
         task' \in [Requests -> TaskType],
         \A d \in Requests :
           task'[d] = task[d] \/ (task[d].step \notin {"sent", "answered"} /\ task'[d].step \notin {"sent", "answered"}),
         \/ refreshTask' = refreshTask
         \/ refreshToken # None => refreshTask = c /\ task[c].step \notin {"sent", "answered"}
  PROVE  AInv'
  <1>1. mpc'[c] = step /\ mcall'[c] = new /\ (\A d \in Requests \ {c} : mpc'[d] = mpc[d] /\ mcall'[d] = mcall[d])
    BY DEF AInv, AppTypes
  <1>2. DOMAIN mpc' = Requests /\ DOMAIN mcall' = Requests
        /\ mpc' = [d \in Requests |-> mpc'[d]] /\ mcall' = [d \in Requests |-> mcall'[d]]
        /\ \A d \in Requests : mcall'[d].attempt # "refresh"
    BY <1>1 DEF AInv, AppTypes
  <1>3. AppTypes'
    BY <1>2 DEF AInv, AppTypes
  <1>4. AppSent'
    BY DEF AInv, AppSent
  <1>5. AppAnswered'
    BY DEF AInv, AppAnswered
  <1>6. AppMakers'
    BY <1>1 DEF AInv, AppMakers
  <1>7. AppNewest'
    BY DEF AInv, AppNewest
  <1>8. AppStrays' /\ AppTheft' /\ AppEntering'
    BY DEF AInv, AppStrays, AppTheft, AppEntering
  <1>9. AppKept'
    BY DEF AInv, AppKept
  <1> QED
    BY <1>3, <1>4, <1>5, <1>6, <1>7, <1>8, <1>9 DEF AInv

\* A caller that makes the task, when there is none: it sends the newest token
\* there is (refreshOnce).
LEMMA AppBegins ==
  ASSUME AInv, NEW c \in Requests, NEW new,
         mpc' = [mpc EXCEPT ![c] = "refresh"], mcall' = [mcall EXCEPT ![c] = new], new.on = c,
         new.attempt # "refresh",
         refreshTask = None, refreshToken # None, refreshTask' = c,
         task' = [task EXCEPT ![c] = [step |-> "sent", sent |-> refreshToken, got |-> None]],
         UNCHANGED <<newest, over, refreshToken, kept, entering, strays, lost>>
  PROVE  AInv'
  <1> DEFINE sent == [step |-> "sent", sent |-> refreshToken, got |-> None]
  <1>1. mpc'[c] = "refresh" /\ mcall'[c] = new /\ (\A d \in Requests \ {c} : mpc'[d] = mpc[d] /\ mcall'[d] = mcall[d])
    BY DEF AInv, AppTypes
  <1>2. DOMAIN mpc' = Requests /\ DOMAIN mcall' = Requests
        /\ mpc' = [d \in Requests |-> mpc'[d]] /\ mcall' = [d \in Requests |-> mcall'[d]]
        /\ \A d \in Requests : mcall'[d].attempt # "refresh"
    <2>1. DOMAIN mpc' = Requests /\ mpc' = [d \in Requests |-> mpc'[d]]
      BY DEF AInv, AppTypes
    <2>2. DOMAIN mcall' = Requests /\ mcall' = [d \in Requests |-> mcall'[d]]
      BY DEF AInv, AppTypes
    <2>3. \A d \in Requests : mcall'[d].attempt # "refresh"
      BY <1>1 DEF AInv, AppTypes
    <2> QED
      BY <2>1, <2>2, <2>3
  <1>3. sent \in TaskType /\ sent.step = "sent" /\ sent.sent = refreshToken
    BY DEF AInv, AppTypes, TaskType
  <1> HIDE DEF sent
  <1>4. task' = [task EXCEPT ![c] = sent]
    BY DEF sent
  <1>5. task'[c] = sent /\ (\A d \in Requests \ {c} : task'[d] = task[d])
    BY <1>4 DEF AInv, AppTypes
  <1>6. AppTypes'
    BY <1>2, <1>3, <1>4 DEF AInv, AppTypes
  <1>7. \A d \in Requests : task[d].step # "sent" /\ task[d].step # "answered" /\ ~(mpc[d] = "refresh" /\ mcall[d].on = d)
    BY DEF AInv, AppSent, AppAnswered, AppMakers
  <1>8. AppSent' /\ AppAnswered' /\ AppMakers'
    BY <1>1, <1>3, <1>5, <1>7 DEF AppSent, AppAnswered, AppMakers
  <1>9. AppNewest'
    BY <1>3, <1>5, <1>7 DEF AInv, AppNewest
  <1>10. AppStrays' /\ AppTheft' /\ AppEntering'
    BY DEF AInv, AppStrays, AppTheft, AppEntering
  <1>11. AppKept'
    BY <1>7 DEF AInv, AppKept
  <1> QED
    BY <1>6, <1>8, <1>9, <1>10, <1>11 DEF AInv

\* refreshOnce, until its first suspension.
LEMMA AppRefreshOnce ==
  ASSUME AInv, NEW c \in Requests, NEW attempt \in {"first", "again"}, App!RefreshOnce(c, attempt),
         UNCHANGED <<newest, over, refreshToken, kept, entering, strays, lost>>
  PROVE  AInv'
  <1>1. CASE refreshTask # None
    <2> DEFINE new == [App!NoCall EXCEPT !.attempt = attempt, !.on = refreshTask]
    <2>1. mpc' = [mpc EXCEPT ![c] = "refresh"] /\ mcall' = [mcall EXCEPT ![c] = new] /\ UNCHANGED <<refreshTask, task>>
      BY <1>1 DEF App!RefreshOnce, App!To
    <2>2. new.on = refreshTask /\ new.attempt = attempt
      BY DEF App!NoCall
    <2>3. task' \in [Requests -> TaskType]
      BY <2>1 DEF AInv, AppTypes
    <2> HIDE DEF new
    <2> QED
      BY <2>1, <2>2, <2>3, AppWaits
  <1>2. CASE refreshTask = None /\ refreshToken = None
    <2>1. mpc' = [mpc EXCEPT ![c] = "idle"] /\ mcall' = [mcall EXCEPT ![c] = App!NoCall] /\ UNCHANGED <<refreshTask, task>>
      BY <1>2 DEF App!RefreshOnce, App!Return, App!To
    <2>2. task' \in [Requests -> TaskType] /\ App!NoCall.attempt = "first"
      BY <2>1 DEF AInv, AppTypes, App!NoCall
    <2> QED
      BY <2>1, <2>2, AppWaits
  <1>3. CASE refreshTask = None /\ refreshToken # None
    <2> DEFINE new == [App!NoCall EXCEPT !.attempt = attempt, !.on = c]
    <2>1. /\ mpc' = [mpc EXCEPT ![c] = "refresh"] /\ mcall' = [mcall EXCEPT ![c] = new] /\ refreshTask' = c
          /\ task' = [task EXCEPT ![c] = [step |-> "sent", sent |-> refreshToken, got |-> None]]
      BY <1>3 DEF App!RefreshOnce, App!To
    <2>2. new.on = c /\ new.attempt = attempt
      BY DEF App!NoCall
    <2> HIDE DEF new
    <2> QED
      BY <1>3, <2>1, <2>2, AppBegins
  <1> QED
    BY <1>1, <1>2, <1>3

\* Authorized work before, between and after its attempts.
LEMMA AppWork ==
  ASSUME AInv, NEW c \in Requests, App!Authorized(c) \/ App!OperationAnswered(c) \/ App!FirstRefused(c)
  PROVE  AInv'
  <1>1. UNCHANGED <<newest, over, refreshToken, kept, entering, strays, lost>>
    BY DEF App!Authorized, App!OperationAnswered, App!FirstRefused, App!server, App!session, App!history
  <1>2. ASSUME NEW attempt \in {"first", "again"}, App!RefreshOnce(c, attempt) PROVE AInv'
    BY <1>1, <1>2, AppRefreshOnce
  <1>3. ASSUME NEW step, NEW new, step # "refresh", new.attempt # "refresh", mpc' = [mpc EXCEPT ![c] = step], mcall' = [mcall EXCEPT ![c] = new],
               UNCHANGED <<refreshTask, task>>
        PROVE  AInv'
    <2>1. task' \in [Requests -> TaskType]
      BY <1>3 DEF AInv, AppTypes
    <2> QED
      BY <1>1, <1>3, <2>1, AppWaits
  <1>4. CASE App!Authorized(c)
    <2>1. CASE App!RefreshOnce(c, "first")
      BY <1>2, <2>1
    <2>2. CASE ~App!RefreshOnce(c, "first")
      <3> DEFINE new == [App!NoCall EXCEPT !.attempt = "first", !.grant = access.grant, !.aged = access.aged]
      <3>1. mpc' = [mpc EXCEPT ![c] = "first"] /\ mcall' = [mcall EXCEPT ![c] = new] /\ UNCHANGED <<refreshTask, task>>
        BY <1>4, <2>2 DEF App!Authorized, App!Operate, App!To
      <3>2. new.attempt = "first"
        BY DEF App!NoCall
      <3> HIDE DEF new
      <3> QED
        BY <1>3, <3>1, <3>2
    <2> QED
      BY <2>1, <2>2
  <1>5. CASE App!OperationAnswered(c)
    <2>1. mpc' = [mpc EXCEPT ![c] = "idle"] /\ mcall' = [mcall EXCEPT ![c] = App!NoCall] /\ UNCHANGED <<refreshTask, task>>
      BY <1>5 DEF App!OperationAnswered, App!Return, App!To, App!session
    <2>2. App!NoCall.attempt = "first"
      BY DEF App!NoCall
    <2> QED
      BY <1>3, <2>1, <2>2
  <1>6. CASE App!FirstRefused(c)
    BY <1>2, <1>6 DEF App!FirstRefused
  <1> QED
    BY <1>4, <1>5, <1>6

\* The end of the session: a request that is cancelled may have been sent, and
\* its grant counts as lost (clearSession).
LEMMA AppClear ==
  ASSUME AInv, NEW tasks \in [Requests -> TaskType], App!ClearSession(tasks),
         \A c \in Requests :
           tasks[c] = task[c] \/ (task[c].step \notin {"sent", "answered"} /\ tasks[c].step \notin {"sent", "answered"}),
         UNCHANGED <<newest, over, entering>>,
         DOMAIN mpc' = Requests /\ DOMAIN mcall' = Requests,
         mpc' = [c \in Requests |-> mpc'[c]] /\ mcall' = [c \in Requests |-> mcall'[c]],
         \A c \in Requests : mcall'[c].attempt # "refresh"
  PROVE  AInv'
  <1> DEFINE cancelled == {c \in Requests : refreshTask = c /\ tasks[c].step = "sent"}
  <1>1. /\ refreshToken' = None /\ kept' \in {None, kept}
        /\ task' = [c \in Requests |-> IF c \in cancelled THEN [App!NoTask EXCEPT !.step = "failed"] ELSE tasks[c]]
        /\ strays' = strays \cup {task[c].sent : c \in cancelled}
        /\ lost' = lost \cup {task[c].sent.grant : c \in cancelled}
    BY DEF App!ClearSession
  <1>2. ASSUME NEW c \in cancelled PROVE task[c].sent \in Toks /\ task[c].sent.grant \in Grants
    <2>1. task[c].step = "sent"
      BY <1>2
    <2>2. task[c].sent \in Toks
      BY <1>2, <2>1, AppUnderWay
    <2> QED
      BY <2>2 DEF Toks
  <1>3. ASSUME NEW c \in Requests PROVE task'[c] \in TaskType /\ task'[c].step # "sent"
                                        /\ (task'[c].step = "answered" => task'[c] = task[c])
                                        /\ (task[c].step = "answered" => task'[c] = task[c])
    <2>1. CASE c \in cancelled
      BY <1>1, <2>1, EndedTasks
    <2>2. CASE c \notin cancelled
      <3>1. task'[c] = tasks[c]
        BY <1>1, <2>2
      <3>2. tasks[c].step = "sent" => refreshTask = c
        BY DEF AInv, AppSent
      <3> QED
        BY <2>2, <3>1, <3>2
    <2> QED
      BY <2>1, <2>2
  <1>4. strays' \subseteq Toks /\ lost' \subseteq Grants /\ lost \subseteq lost' /\ (\A tok \in strays' : tok.grant \in lost')
    BY <1>1, <1>2 DEF AInv, AppTypes, AppStrays
  <1>5. task' \in [Requests -> TaskType]
    BY <1>1, <1>3
  <1> HIDE DEF cancelled
  <1>6. AppTypes'
    BY <1>1, <1>4, <1>5 DEF AInv, AppTypes
  <1>7. AppSent' /\ AppAnswered' /\ AppMakers' /\ AppNewest' /\ AppStrays'
    BY <1>1, <1>3, <1>4 DEF AInv, AppSent, AppAnswered, AppMakers, AppNewest, AppStrays
  <1>8. AppEntering' /\ AppTheft'
    BY <1>1, <1>4 DEF AInv, AppEntering, AppTheft
  <1>9. AppKept'
    <2> SUFFICES ASSUME kept # None, kept.grant \notin lost, over[kept.grant] = "no",
                        \A c \in Requests : task[c].step = "answered" => task[c].sent.grant # kept.grant
                 PROVE  kept.n = newest[kept.grant]
      BY <1>1, <1>3, <1>4 DEF AppKept
    <2>1. kept = refreshToken => \A c \in Requests : task[c].step # "answered"
      BY DEF AInv, AppAnswered
    <2> QED
      BY <2>1 DEF AInv, AppKept, AppNewest
  <1> QED
    BY <1>6, <1>7, <1>8, <1>9 DEF AInv

\* A caller goes on with what its task has come to.
LEMMA AppResume == ASSUME AInv, NEW c \in Requests, App!Resume(c) PROVE AInv'
  <1> DEFINE on == mcall[c].on
             tasks == IF \A d \in Requests \ {c} : mcall[d].on # mcall[c].on
                      THEN [task EXCEPT ![on] = App!NoTask] ELSE task
  <1>1. /\ mpc[c] = "refresh" /\ task[on].step \in {"ok", "refused", "failed"}
        /\ UNCHANGED <<newest, over, entering>>
    BY DEF App!Resume, App!Ended, App!server
  <1>2. PICK step, new : /\ step # "refresh" /\ new.attempt # "refresh"
                         /\ mpc' = [mpc EXCEPT ![c] = step] /\ mcall' = [mcall EXCEPT ![c] = new]
    <2>1. mcall[c].attempt # "refresh"
      BY DEF AInv, AppTypes
    <2>2. CASE task[on].step = "ok"
      <3> DEFINE ok == [App!NoCall EXCEPT !.attempt = mcall[c].attempt, !.grant = task[on].got.grant, !.aged = FALSE]
      <3>1. mpc' = [mpc EXCEPT ![c] = mcall[c].attempt] /\ mcall' = [mcall EXCEPT ![c] = ok]
        BY <2>2 DEF App!Resume, App!Operate, App!To
      <3>2. ok.attempt = mcall[c].attempt
        BY DEF App!NoCall
      <3> HIDE DEF ok
      <3> QED
        BY <2>1, <3>1, <3>2
    <2>3. CASE task[on].step # "ok"
      <3>1. mpc' = [mpc EXCEPT ![c] = "idle"] /\ mcall' = [mcall EXCEPT ![c] = App!NoCall]
        BY <2>3 DEF App!Resume, App!Return, App!To
      <3>2. App!NoCall.attempt = "first"
        BY DEF App!NoCall
      <3> QED
        BY <3>1, <3>2
    <2> QED
      BY <2>2, <2>3
  <1>3. tasks \in [Requests -> TaskType]
    BY NoTaskType DEF AInv, AppTypes
  <1>4. \A d \in Requests :
          tasks[d] = task[d] \/ (task[d].step \notin {"sent", "answered"} /\ tasks[d].step \notin {"sent", "answered"})
    BY <1>1, NoTaskType DEF AInv, AppTypes
  <1>5. CASE on = c /\ task[on].step = "refused"
    <2>1. App!ClearSession(tasks)
      BY <1>5 DEF App!Resume, App!SessionExpired
    <2>2. /\ DOMAIN mpc' = Requests /\ DOMAIN mcall' = Requests
          /\ mpc' = [d \in Requests |-> mpc'[d]] /\ mcall' = [d \in Requests |-> mcall'[d]]
          /\ \A d \in Requests : mcall'[d].attempt # "refresh"
      BY <1>2 DEF AInv, AppTypes
    <2> HIDE DEF tasks
    <2> QED
      BY <1>1, <1>3, <1>4, <2>1, <2>2, AppClear
  <1>6. CASE ~(on = c /\ task[on].step = "refused")
    <2>1. /\ refreshTask' = (IF on = c THEN None ELSE refreshTask) /\ task' = tasks
          /\ UNCHANGED <<refreshToken, kept, strays, lost>>
      BY <1>6 DEF App!Resume, App!history
    <2>2. on = c /\ refreshToken # None => refreshTask = c /\ task[c].step \notin {"sent", "answered"}
      BY <1>1 DEF AInv, AppMakers
    <2> HIDE DEF tasks
    <2> QED
      BY <1>1, <1>2, <1>3, <1>4, <2>1, <2>2, AppWaits
  <1> QED
    BY <1>5, <1>6

\* A second refusal, a sign-out, or a caller that comes late, ends the session.
LEMMA AppEnds ==
  ASSUME AInv, (\E c \in Requests : App!SecondRefused(c)) \/ App!LoggedOut \/ App!AuthorizedLate
  PROVE  AInv'
  <1>1. App!ClearSession(task) /\ UNCHANGED <<newest, over, entering>>
    BY DEF App!SecondRefused, App!LoggedOut, App!AuthorizedLate, App!SessionExpired, App!server
  <1>2. /\ DOMAIN mpc' = Requests /\ DOMAIN mcall' = Requests
        /\ mpc' = [d \in Requests |-> mpc'[d]] /\ mcall' = [d \in Requests |-> mcall'[d]]
        /\ \A d \in Requests : mcall'[d].attempt # "refresh"
    BY DEF AInv, AppTypes, App!SecondRefused, App!LoggedOut, App!AuthorizedLate, App!Return, App!To, App!NoCall
  <1>3. task \in [Requests -> TaskType]
    BY DEF AInv, AppTypes
  <1> QED
    BY <1>1, <1>2, <1>3, AppClear

\* A new grant is of nothing that was lost, until it is adopted.
LEMMA AppSignIn == ASSUME AInv, NEW g \in Grants, App!SignIn(g) PROVE AInv'
  <1>1. /\ refreshToken = None /\ entering' = g /\ newest' = [newest EXCEPT ![g] = 1]
        /\ UNCHANGED <<over, refreshToken, kept, refreshTask, task, mpc, mcall, strays, lost>>
    BY DEF App!SignIn, App!session, App!history
  <1>2. AppTypes' /\ newest'[g] = 1 /\ newest[g] = 0 /\ \A h \in Grants : h # g => newest'[h] = newest[h]
    BY <1>1 DEF AInv, AppTypes, App!SignIn
  <1>3. AppKept'
    <2>1. kept # None => kept.grant \in Grants /\ kept.n # 0
      BY DEF AInv, AppTypes, Toks
    <2> QED
      BY <1>1, <1>2, <2>1 DEF AInv, AppKept
  <1> QED
    BY <1>1, <1>2, <1>3 DEF AInv, AppSent, AppAnswered, AppMakers, AppNewest, AppEntering, AppStrays, AppTheft

\* What was due has run before a new session begins (Settled).
LEMMA AppAdopt == ASSUME AInv, App!Adopt PROVE AInv'
  <1> DEFINE tok == [grant |-> entering, n |-> 1]
  <1>1. /\ entering # None /\ refreshToken = None /\ entering' = None /\ refreshToken' = tok
        /\ \/ kept' = tok /\ lost' = lost
           \/ kept' = kept /\ lost' = lost \cup {entering}
        /\ UNCHANGED <<newest, over, refreshTask, task, mpc, mcall, strays>>
    BY DEF App!Adopt, App!Keep, App!server, AInv, AppEntering
  <1>2. entering \in Grants /\ tok \in Toks /\ tok.grant = entering /\ tok.n = 1
    BY <1>1 DEF AInv, AppTypes, Toks
  <1> HIDE DEF tok
  <1>3. \A c \in Requests : task[c].step # "sent" /\ task[c].step # "answered"
                            /\ ~(mpc[c] = "refresh" /\ mcall[c].on = c)
    <2>1. \A c \in Requests : task[c].step # "sent" /\ task[c].step # "answered"
      BY <1>1 DEF App!Adopt, App!Settled, AInv, AppSent
    <2> QED
      BY <2>1 DEF App!Adopt, App!Settled
  <1>4. AppTypes'
    BY <1>1, <1>2 DEF AInv, AppTypes
  <1>5. AppSent' /\ AppAnswered' /\ AppMakers' /\ AppEntering'
    BY <1>1, <1>3 DEF AppSent, AppAnswered, AppMakers, AppEntering
  <1>6. AppNewest'
    BY <1>1, <1>2, <1>3 DEF AInv, AppEntering, AppNewest
  <1>7. AppKept'
    BY <1>1, <1>2, <1>3 DEF AInv, AppKept
  <1>8. AppStrays' /\ AppTheft'
    BY <1>1 DEF AInv, AppStrays, AppTheft
  <1> QED
    BY <1>4, <1>5, <1>6, <1>7, <1>8 DEF AInv

\* The app starts with what the keychain hands out; a refresh cut short counts as
\* lost.
LEMMA AppRestart == ASSUME AInv, App!Restart PROVE AInv'
  <1> DEFINE cut == {c \in Requests : task[c].step \in {"sent", "answered"}}
  <1>1. /\ refreshToken' \in {None, kept} /\ refreshTask' = None
        /\ strays' = strays \cup {task[c].sent : c \in {d \in cut : task[d].step = "sent"}}
        /\ lost' = lost \cup {task[c].sent.grant : c \in cut}
        /\ task' = [c \in Requests |-> App!NoTask]
        /\ mpc' = [c \in Requests |-> "idle"] /\ mcall' = [c \in Requests |-> App!NoCall]
        /\ entering' = None /\ UNCHANGED <<newest, over, kept>>
    BY DEF App!Restart, App!server
  <1>2. ASSUME NEW c \in cut PROVE task[c].sent \in Toks /\ task[c].sent.grant \in Grants
    <2>1. task[c].sent \in Toks
      BY <1>2, AppUnderWay DEF AInv, AppAnswered
    <2> QED
      BY <2>1 DEF Toks
  <1>3. strays' \subseteq Toks /\ lost' \subseteq Grants /\ lost \subseteq lost' /\ (\A tok \in strays' : tok.grant \in lost')
    BY <1>1, <1>2 DEF AInv, AppTypes, AppStrays
  <1>4. AppTypes'
    BY <1>1, <1>3, NoTaskType DEF AInv, AppTypes, App!NoCall
  <1>5. \A c \in Requests : task'[c].step = "none" /\ mpc'[c] = "idle"
    BY <1>1, NoTaskType
  <1>6. AppSent' /\ AppAnswered' /\ AppMakers' /\ AppEntering' /\ AppStrays'
    BY <1>1, <1>3, <1>5 DEF AppSent, AppAnswered, AppMakers, AppEntering, AppStrays
  <1>7. AppTheft'
    BY <1>1, <1>3 DEF AInv, AppTheft
  <1>8. kept # None /\ kept.grant \notin lost' /\ over[kept.grant] = "no" => kept.n = newest[kept.grant]
    <2> SUFFICES ASSUME kept # None, kept.grant \notin lost', over[kept.grant] = "no"
                 PROVE  kept.n = newest[kept.grant]
      OBVIOUS
    <2>1. kept.grant \notin lost
      BY <1>3
    <2>2. \A c \in Requests : task[c].step = "answered" => task[c].sent.grant # kept.grant
      BY <1>1
    <2>3. kept = refreshToken => \A c \in Requests : task[c].step # "answered"
      BY <2>2 DEF AInv, AppAnswered
    <2> QED
      BY <2>1, <2>2, <2>3 DEF AInv, AppKept, AppNewest
  <1>9. AppNewest' /\ AppKept'
    BY <1>1, <1>5, <1>8 DEF AppNewest, AppKept
  <1> QED
    BY <1>4, <1>6, <1>7, <1>9 DEF AInv

\* However many grants and callers there are.
LEMMA AppInvariant == App!Spec => []AInv
  <1>1. App!Init => AInv
    BY AppInit
  <1>2. AInv /\ [App!Next]_(App!vars) => AInv'
    <2> SUFFICES ASSUME AInv, [App!Next]_(App!vars) PROVE AInv'
      OBVIOUS
    <2>1. ASSUME NEW g \in Grants, App!SignIn(g) PROVE AInv'
      BY <2>1, AppSignIn
    <2>2. ASSUME NEW tok \in strays, App!StrayArrives(tok) PROVE AInv'
      BY <2>2, AppStray
    <2>3. ASSUME NEW c \in Requests, App!Reply(c) \/ App!NoReply(c) \/ App!Store(c) \/ App!Resume(c) PROVE AInv'
      BY <2>3, AppReply, AppNoReply, AppStore, AppResume
    <2>4. ASSUME NEW c \in Requests, App!Authorized(c) \/ App!OperationAnswered(c) \/ App!FirstRefused(c) PROVE AInv'
      BY <2>4, AppWork
    <2>5. CASE (\E c \in Requests : App!SecondRefused(c)) \/ App!LoggedOut \/ App!AuthorizedLate
      BY <2>5, AppEnds
    <2>6. CASE App!Adopt
      BY <2>6, AppAdopt
    <2>7. CASE App!Restart
      BY <2>7, AppRestart
    <2>8. CASE \/ \E g \in Grants : App!GraceEnds(g) \/ App!RevokedElsewhere(g)
               \/ App!Age \/ App!SignInFails \/ App!LogOut \/ App!Revoke \/ UNCHANGED App!vars
      BY <2>8, AppElse
    <2> QED
      BY <2>1, <2>2, <2>3, <2>4, <2>5, <2>6, <2>7, <2>8 DEF App!Next
  <1> QED
    BY <1>1, <1>2, PTL DEF App!Spec

\* However calls, refreshes, restarts and sign-outs fall together, the server
\* takes the app for a thief only after an answer, or a save, of the app was
\* lost (refreshOnce, rotateRefresh).
THEOREM ThievesAreLosses == App!Spec => []TheftNeedsLoss
  <1>1. AInv => TheftNeedsLoss
    BY DEF AInv, AppTheft, TheftNeedsLoss, App!TheftNeedsLoss
  <1> QED
    BY <1>1, AppInvariant, PTL

-----------------------------------------------------------------------------
(* Whose app it is.  A session has its access token and what the keychain   *)
(* keeps from one grant, of which the server knows; an item of another      *)
(* session is one that the keychain did not delete or not hand out.         *)

AppAccess ==
  access # None => /\ access \in [grant : Grants, aged : BOOLEAN]
                   /\ refreshToken # None /\ access.grant = refreshToken.grant
AppKeeps ==
  kept # None => /\ newest[kept.grant] > 0 /\ kept.grant # entering
                 /\ kept.grant \in slips \/ (refreshToken # None /\ kept.grant = refreshToken.grant)
AppSlips ==
  /\ slips \subseteq {g \in Grants : newest[g] > 0}
  /\ entering \notin slips
  /\ refreshToken # None => refreshToken.grant \notin slips
AppIssued ==
  /\ refreshToken # None => newest[refreshToken.grant] > 0
  /\ \A tok \in strays : newest[tok.grant] > 0
  /\ entering # None => newest[entering] > 0

BInv == AppAccess /\ AppKeeps /\ AppSlips /\ AppIssued

\* The server issues no first token to whom presents one.
LEMMA IssuedBefore ==
  ASSUME AInv, NEW tok \in Toks, App!Present(tok), newest[tok.grant] > 0
  PROVE  \A g \in Grants : newest'[g] > 0 <=> newest[g] > 0
  <1>1. tok.grant \in Grants /\ tok.n \in Nat
    BY DEF Toks
  <1>2. \A g \in Grants : g # tok.grant => newest'[g] = newest[g]
    BY AppPresent
  <1>3. newest'[tok.grant] > 0
    <2>1. CASE App!Fresh(tok)
      BY <1>1, <2>1, AppPresent
    <2>2. CASE ~App!Fresh(tok)
      BY <2>2, AppPresent
    <2> QED
      BY <2>1, <2>2
  <1> QED
    BY <1>2, <1>3

\* A step that leaves the session as it is.
LEMMA AccountStays ==
  ASSUME AInv, BInv, UNCHANGED <<refreshToken, access, kept, entering, slips>>,
         \A g \in Grants : newest'[g] > 0 <=> newest[g] > 0,
         \A tok \in strays' : tok \in strays \/ (newest[tok.grant] > 0 /\ tok.grant \in Grants)
  PROVE  BInv' /\ UNCHANGED Account!vars
  <1>1. refreshToken # None => refreshToken.grant \in Grants
    BY DEF AInv, AppTypes, Toks
  <1>2. \A tok \in strays : tok.grant \in Grants
    BY DEF AInv, AppTypes, Toks
  <1>3. entering # None => entering \in Grants
    BY DEF AInv, AppTypes
  <1>4. BInv'
    <2>1. kept # None => kept.grant \in Grants
      BY DEF AInv, AppTypes, Toks
    <2> QED
      BY <1>1, <1>2, <1>3, <2>1 DEF BInv, AppAccess, AppKeeps, AppSlips, AppIssued
  <1>5. SignedIn' = SignedIn /\ Bearer' = Bearer
    BY DEF SignedIn, Bearer
  <1>6. Past' = Past
    BY <1>5 DEF Past
  <1> QED
    BY <1>4, <1>5, <1>6 DEF Account!vars

\* Calls, what the server does, and the beginning of a log-out.
LEMMA AccountElse ==
  ASSUME AInv, BInv,
         \/ \E g \in Grants : App!GraceEnds(g) \/ App!RevokedElsewhere(g)
         \/ \E tok \in strays : App!StrayArrives(tok)
         \/ \E c \in Requests : \/ App!Authorized(c) \/ App!OperationAnswered(c) \/ App!FirstRefused(c)
                                \/ App!Reply(c) \/ App!NoReply(c)
         \/ App!LogOut \/ App!Revoke \/ UNCHANGED App!vars
  PROVE  BInv' /\ UNCHANGED Account!vars
  <1>1. UNCHANGED <<refreshToken, access, kept, entering, slips>>
    BY DEF App!GraceEnds, App!RevokedElsewhere, App!StrayArrives, App!Authorized, App!OperationAnswered, App!FirstRefused,
           App!Reply, App!NoReply, App!LogOut, App!Revoke, App!vars, App!session, App!history
  <1>0. \A tok \in strays' : tok \in strays \/ (newest[tok.grant] > 0 /\ tok.grant \in Grants)
    <2>1. ASSUME NEW c \in Requests, App!NoReply(c)
          PROVE  \A tok \in strays' : tok \in strays \/ (newest[tok.grant] > 0 /\ tok.grant \in Grants)
      <3>1. task[c].step = "sent" /\ (strays' = strays \/ strays' = strays \cup {task[c].sent})
        BY <2>1 DEF App!NoReply
      <3>2. newest[task[c].sent.grant] > 0 /\ task[c].sent.grant \in Grants
        BY <3>1, AppUnderWay DEF BInv, AppIssued
      <3> QED
        BY <3>1, <3>2
    <2>2. CASE \A tok \in strays' : tok \in strays
      BY <2>2
    <2> QED
      BY <2>1, <2>2 DEF App!GraceEnds, App!RevokedElsewhere, App!StrayArrives, App!Authorized, App!OperationAnswered,
           App!FirstRefused, App!Reply, App!LogOut, App!Revoke, App!vars, App!session
  <1>2. \A g \in Grants : newest'[g] > 0 <=> newest[g] > 0
    <2>1. ASSUME NEW tok \in strays, App!StrayArrives(tok) PROVE \A g \in Grants : newest'[g] > 0 <=> newest[g] > 0
      <3>1. tok \in Toks /\ newest[tok.grant] > 0
        BY DEF AInv, AppTypes, BInv, AppIssued
      <3> QED
        BY <2>1, <3>1, IssuedBefore DEF App!StrayArrives, App!server
    <2>2. ASSUME NEW c \in Requests, App!Reply(c) \/ App!NoReply(c) PROVE \A g \in Grants : newest'[g] > 0 <=> newest[g] > 0
      <3>1. task[c].step = "sent" /\ (App!Present(task[c].sent) \/ newest' = newest)
        BY <2>2 DEF App!Reply, App!NoReply, App!server
      <3>2. task[c].sent \in Toks /\ newest[task[c].sent.grant] > 0
        BY <3>1, AppUnderWay DEF BInv, AppIssued
      <3> QED
        BY <3>1, <3>2, IssuedBefore
    <2>3. CASE newest' = newest
      BY <2>3
    <2> QED
      BY <2>1, <2>2, <2>3 DEF App!GraceEnds, App!RevokedElsewhere, App!Authorized, App!OperationAnswered, App!FirstRefused,
           App!LogOut, App!Revoke, App!vars, App!server
  <1> QED
    BY <1>0, <1>1, <1>2, AccountStays

\* The session ends, if there is one, and with it all that was of it.
LEMMA AccountClears ==
  ASSUME AInv, BInv, NEW tasks \in [Requests -> TaskType], App!ClearSession(tasks), UNCHANGED <<newest, entering>>,
         \A c \in Requests : tasks[c] = task[c] \/ tasks[c].step # "sent"
  PROVE  BInv' /\ (Account!Leave \/ UNCHANGED Account!vars)
  <1>1. /\ refreshToken' = None /\ access' = None
        /\ kept' \in {None, kept} /\ slips' = slips \cup App!GrantsOf(kept')
    BY DEF App!ClearSession
  <1>0. kept # None => kept.grant \in Grants
    BY DEF AInv, AppTypes, Toks
  <1>9. \/ kept' = None /\ slips' = slips
        \/ kept' = kept /\ kept # None /\ slips' = slips \cup {kept.grant}
    <2>1. App!GrantsOf(None) = {}
      BY DEF App!GrantsOf
    <2>2. kept # None => App!GrantsOf(kept) = {kept.grant}
      BY <1>0 DEF App!GrantsOf
    <2> QED
      BY <1>1, <2>1, <2>2
  <1>2. \A tok \in strays' : newest[tok.grant] > 0
    <2>1. ASSUME NEW c \in Requests, tasks[c].step = "sent" PROVE newest[task[c].sent.grant] > 0
      <3>1. task[c].step = "sent"
        BY <2>1
      <3> QED
        BY <3>1, AppUnderWay DEF BInv, AppIssued
    <2> QED
      BY <2>1 DEF App!ClearSession, BInv, AppIssued
  <1>3. BInv'
    BY <1>0, <1>1, <1>2, <1>9 DEF BInv, AppAccess, AppKeeps, AppSlips, AppIssued
  <1>4. SignedIn' = None /\ Bearer' = None
    BY <1>1 DEF SignedIn, Bearer
  <1>5. CASE refreshToken = None
    <2>3. slips' = slips
      BY <1>5, <1>9 DEF BInv, AppKeeps
    <2>1. SignedIn = None /\ Bearer = None
      BY <1>5 DEF SignedIn, Bearer, BInv, AppAccess
    <2>2. Past' = Past
      BY <1>4, <2>1 DEF Past
    <2> QED
      BY <1>3, <1>4, <2>1, <2>2, <2>3 DEF Account!vars
  <1>6. CASE refreshToken # None
    <2>1. /\ SignedIn = refreshToken.grant /\ SignedIn \in Grants /\ SignedIn # None /\ newest[SignedIn] > 0
          /\ entering = None
      BY <1>6, NoneIsNothing DEF SignedIn, AInv, AppTypes, AppEntering, Toks, BInv, AppIssued
    <2>2. Past' = Past \cup {SignedIn}
      BY <1>4, <2>1, NoneIsNothing DEF Past
    <2>3. slips' \in {slips, slips \cup {SignedIn}}
      <3>1. kept # None => kept.grant \in slips \/ kept.grant = SignedIn
        BY <2>1 DEF BInv, AppKeeps
      <3>2. CASE slips' = slips
        BY <3>2
      <3>3. CASE kept # None /\ slips' = slips \cup {kept.grant}
        <4>1. kept.grant \in slips => slips \cup {kept.grant} = slips
          OBVIOUS
        <4> QED
          BY <3>1, <3>3, <4>1
      <3> QED
        BY <1>9, <3>2, <3>3
    <2> QED
      BY <1>3, <1>4, <2>1, <2>2, <2>3 DEF Account!Leave
  <1> QED
    BY <1>5, <1>6

\* A caller goes on, and ends the session that the server has refused.
LEMMA AccountResumes ==
  ASSUME AInv, BInv, NEW c \in Requests, App!Resume(c)
  PROVE  BInv' /\ (Account!Leave \/ UNCHANGED Account!vars)
  <1> DEFINE on == mcall[c].on
             tasks == IF \A d \in Requests \ {c} : mcall[d].on # mcall[c].on
                      THEN [task EXCEPT ![on] = App!NoTask] ELSE task
  <1>1. task[on].step \in {"ok", "refused", "failed"} /\ UNCHANGED <<newest, entering>>
    BY DEF App!Resume, App!Ended, App!server
  <1>2. tasks \in [Requests -> TaskType] /\ \A d \in Requests : tasks[d] = task[d] \/ tasks[d].step # "sent"
    BY NoTaskType DEF AInv, AppTypes
  <1>3. CASE on = c /\ task[on].step = "refused"
    <2>1. App!ClearSession(tasks)
      BY <1>3 DEF App!Resume, App!SessionExpired
    <2> HIDE DEF tasks
    <2> QED
      BY <1>1, <1>2, <2>1, AccountClears
  <1>4. CASE ~(on = c /\ task[on].step = "refused")
    <2>1. UNCHANGED <<refreshToken, access, kept, strays, slips>>
      BY <1>4 DEF App!Resume, App!history
    <2> QED
      BY <1>1, <2>1, AccountStays
  <1> QED
    BY <1>3, <1>4

\* An answer renews the session that asked for it, or nothing (store).
LEMMA AccountStores ==
  ASSUME AInv, BInv, NEW c \in Requests, App!Store(c)
  PROVE  BInv' /\ (Account!Renew \/ UNCHANGED Account!vars)
  <1>1. task[c].step = "answered" /\ UNCHANGED <<newest, entering, strays, slips>>
    BY DEF App!Store, App!server
  <1>2. CASE refreshToken = None
    <2>1. UNCHANGED <<refreshToken, access, kept>>
      BY <1>2 DEF App!Store, App!Gone
    <2> QED
      BY <1>1, <2>1, AccountStays
  <1>3. CASE refreshToken # None
    <2> DEFINE tok == task[c].got
    <2>1. tok \in Toks /\ tok.grant = refreshToken.grant /\ tok # None /\ tok.grant \in Grants
      <3>1. tok \in Toks /\ tok.grant = refreshToken.grant
        BY <1>1, <1>3 DEF AInv, AppAnswered
      <3>2. tok # None
        BY <3>1 DEF Toks
      <3> QED
        BY <3>1, <3>2 DEF Toks
    <2>2. refreshToken' = tok /\ access' = [grant |-> tok.grant, aged |-> FALSE] /\ kept' \in {tok, kept}
      BY <1>3 DEF App!Store, App!Gone, App!Rotated, App!Keep
    <2> HIDE DEF tok
    <2>0. entering = None /\ None \notin Grants
      BY <1>3, NoneIsNothing DEF AInv, AppEntering
    <2>3. BInv'
      BY <1>1, <1>3, <2>0, <2>1, <2>2 DEF BInv, AppAccess, AppKeeps, AppSlips, AppIssued
    <2>4. access' # None
      <3>1. access' \in [grant : Grants, aged : BOOLEAN]
        BY <2>1, <2>2
      <3> QED
        BY <3>1
    <2>5. SignedIn' = SignedIn /\ SignedIn = tok.grant /\ SignedIn # None /\ Bearer' \in {SignedIn, None}
      BY <1>3, <2>1, <2>2, <2>4, NoneIsNothing DEF SignedIn, Bearer
    <2>6. Past' = Past
      BY <1>1, <2>5 DEF Past
    <2> QED
      BY <1>1, <2>3, <2>5, <2>6 DEF Account!Renew
  <1> QED
    BY <1>2, <1>3

\* Time, the steps of a sign-in, and the app started again.
LEMMA AccountAges == ASSUME AInv, BInv, App!Age PROVE BInv' /\ UNCHANGED Account!vars
  <1>1. access # None /\ access' = [access EXCEPT !.aged = TRUE] /\ UNCHANGED <<newest, refreshToken, kept, entering, strays, slips>>
    BY DEF App!Age, App!server, App!history
  <1>2. access \in [grant : Grants, aged : BOOLEAN]
    BY <1>1 DEF BInv, AppAccess
  <1>3. access' \in [grant : Grants, aged : BOOLEAN] /\ access'.grant = access.grant
    BY <1>1, <1>2
  <1>4. access' # None
    BY <1>3
  <1>5. BInv'
    BY <1>1, <1>3 DEF BInv, AppAccess, AppKeeps, AppSlips, AppIssued
  <1>6. SignedIn' = SignedIn /\ Bearer' = Bearer
    BY <1>1, <1>3, <1>4 DEF SignedIn, Bearer
  <1>7. Past' = Past
    BY <1>1, <1>6 DEF Past
  <1> QED
    BY <1>1, <1>5, <1>6, <1>7 DEF Account!vars

LEMMA AccountSignsIn ==
  ASSUME AInv, BInv, NEW g \in Grants, App!SignIn(g) PROVE BInv' /\ UNCHANGED Account!vars
  <1>1. /\ refreshToken = None /\ entering = None /\ newest[g] = 0 /\ entering' = g /\ newest' = [newest EXCEPT ![g] = 1]
        /\ UNCHANGED <<refreshToken, access, kept, strays, slips>>
    BY DEF App!SignIn, App!session, App!history
  <1>2. newest' \in [Grants -> Nat] /\ newest'[g] = 1 /\ \A h \in Grants : h # g => newest'[h] = newest[h]
    BY <1>1 DEF AInv, AppTypes
  <1>3. (\A tok \in strays : tok.grant \in Grants) /\ (kept # None => kept.grant \in Grants)
    BY DEF AInv, AppTypes, Toks
  <1>4. BInv'
    BY <1>1, <1>2, <1>3 DEF BInv, AppAccess, AppKeeps, AppSlips, AppIssued
  <1>5. SignedIn = None /\ SignedIn' = None /\ Bearer' = Bearer
    BY <1>1 DEF SignedIn, Bearer
  <1>6. Past' = Past
    BY <1>1, <1>2, <1>5, NoneIsNothing DEF Past
  <1> QED
    BY <1>1, <1>4, <1>5, <1>6 DEF Account!vars

LEMMA AccountAdopts ==
  ASSUME AInv, BInv, App!Adopt PROVE BInv' /\ \E g \in Grants : Account!Enter(g)
  <1> DEFINE tok == [grant |-> entering, n |-> 1]
  <1>1. /\ entering # None /\ refreshToken = None /\ entering' = None /\ refreshToken' = tok
        /\ access' = [grant |-> entering, aged |-> FALSE] /\ kept' \in {tok, kept} /\ UNCHANGED <<newest, strays, slips>>
    BY DEF App!Adopt, App!Keep, App!server, AInv, AppEntering
  <1>2. /\ entering \in Grants /\ tok \in Toks /\ tok.grant = entering /\ tok # None
        /\ access' \in [grant : Grants, aged : BOOLEAN] /\ access'.grant = entering /\ access' # None
    <2>1. entering \in Grants
      BY <1>1 DEF AInv, AppTypes
    <2>2. tok \in Toks /\ tok.grant = entering
      BY <2>1 DEF Toks
    <2>3. tok # None
      BY <2>2 DEF Toks
    <2>4. access' \in [grant : Grants, aged : BOOLEAN] /\ access'.grant = entering
      BY <1>1, <2>1
    <2> QED
      BY <2>1, <2>2, <2>3, <2>4
  <1> HIDE DEF tok
  <1>3. access = None /\ newest[entering] > 0
    BY <1>1 DEF BInv, AppAccess, AppKeeps, AppSlips, AppIssued
  <1>4. BInv'
    <2>1. None \notin Grants /\ (kept # None => kept.grant \in Grants)
      BY NoneIsNothing DEF AInv, AppTypes, Toks
    <2> QED
      BY <1>1, <1>2, <1>3, <2>1 DEF BInv, AppAccess, AppKeeps, AppSlips, AppIssued
  <1>5. SignedIn = None /\ SignedIn' = entering /\ Bearer' = entering
    BY <1>1, <1>2 DEF SignedIn, Bearer
  <1>6. entering \notin Past /\ Past' = Past
    BY <1>1, <1>2, <1>5, NoneIsNothing DEF Past
  <1> QED
    BY <1>1, <1>2, <1>4, <1>5, <1>6 DEF Account!Enter

LEMMA AccountMisses ==
  ASSUME AInv, BInv, App!SignInFails PROVE BInv' /\ \E g \in Grants : Account!Miss(g)
  <1>1. entering # None /\ entering' = None /\ UNCHANGED <<newest, refreshToken, access, kept, strays, slips>>
    BY DEF App!SignInFails, App!server, App!session, App!history
  <1>2. entering \in Grants /\ newest[entering] > 0 /\ refreshToken = None
    BY <1>1 DEF AInv, AppTypes, AppEntering, BInv, AppIssued
  <1>3. BInv'
    <2>1. None \notin Grants /\ (kept # None => kept.grant \in Grants)
      BY NoneIsNothing DEF AInv, AppTypes, Toks
    <2> QED
      BY <1>1, <2>1 DEF BInv, AppAccess, AppKeeps, AppSlips, AppIssued
  <1>4. SignedIn = None /\ SignedIn' = None /\ Bearer' = Bearer
    BY <1>1, <1>2 DEF SignedIn, Bearer
  <1>5. Past' = Past \cup {entering}
    BY <1>1, <1>2, <1>4, NoneIsNothing DEF Past
  <1> QED
    BY <1>1, <1>2, <1>3, <1>4, <1>5 DEF Account!Miss

LEMMA AccountRestarts ==
  ASSUME AInv, BInv, App!Restart PROVE BInv' /\ ([Account!Next]_(Account!vars))
  <1>1. refreshToken' \in {None, kept} /\ access' = None /\ entering' = None /\ UNCHANGED <<newest, kept>>
        /\ slips' = (IF refreshToken' = None THEN slips \cup App!GrantsOf(kept) ELSE slips \ App!GrantsOf(kept))
        /\ \A tok \in strays' : tok \in strays \/ \E c \in Requests : task[c].step = "sent" /\ tok = task[c].sent
    BY DEF App!Restart, App!server
  <1>2. \A tok \in strays' : newest[tok.grant] > 0
    <2>1. ASSUME NEW c \in Requests, task[c].step = "sent" PROVE newest[task[c].sent.grant] > 0
      BY <2>1, AppUnderWay DEF BInv, AppIssued
    <2> QED
      BY <1>1, <2>1 DEF BInv, AppIssued
  <1>3. /\ kept # None => kept.grant \in Grants /\ kept.grant # None /\ newest[kept.grant] > 0
        /\ None \notin Grants
    BY NoneIsNothing DEF AInv, AppTypes, Toks, BInv, AppKeeps
  <1>4. /\ kept = None => App!GrantsOf(kept) = {}
        /\ kept # None => App!GrantsOf(kept) = {kept.grant}
    BY <1>3 DEF App!GrantsOf
  <1>5. BInv'
    BY <1>1, <1>2, <1>3, <1>4 DEF BInv, AppAccess, AppKeeps, AppSlips, AppIssued
  <1>6. Bearer' = None /\ SignedIn' = (IF refreshToken' = None THEN None ELSE kept.grant)
    BY <1>1 DEF SignedIn, Bearer
  <1>7. refreshToken # None => /\ SignedIn = refreshToken.grant /\ SignedIn \in Grants /\ SignedIn # None
                               /\ newest[SignedIn] > 0 /\ entering = None /\ SignedIn \notin slips
    BY NoneIsNothing DEF SignedIn, AInv, AppTypes, AppEntering, Toks, BInv, AppIssued, AppSlips
  <1>8. refreshToken = None => SignedIn = None /\ Bearer = None
    BY DEF SignedIn, Bearer, BInv, AppAccess
  <1>9. entering # None => entering \in Grants /\ newest[entering] > 0
    BY DEF AInv, AppTypes, BInv, AppIssued
  <1>10. CASE refreshToken' = None /\ refreshToken = None
    <2>1. slips' = slips
      BY <1>1, <1>4, <1>10 DEF BInv, AppKeeps
    <2>2. CASE entering = None
      <3>1. Past' = Past
        BY <1>1, <1>6, <1>8, <1>10, <2>2 DEF Past
      <3> QED
        BY <1>5, <1>6, <1>8, <1>10, <2>1, <3>1 DEF Account!vars
    <2>3. CASE entering # None
      <3>1. Past' = Past \cup {entering}
        BY <1>1, <1>3, <1>6, <1>8, <1>9, <1>10, <2>3 DEF Past
      <3> QED
        BY <1>5, <1>6, <1>8, <1>9, <1>10, <2>1, <2>3, <3>1 DEF Account!Next, Account!Miss
    <2> QED
      BY <2>2, <2>3
  <1>11. CASE refreshToken' = None /\ refreshToken # None
    <2>1. Past' = Past \cup {SignedIn}
      BY <1>1, <1>3, <1>6, <1>7, <1>11 DEF Past
    <2>2. slips' \in {slips, slips \cup {SignedIn}}
      BY <1>1, <1>4, <1>7, <1>11 DEF BInv, AppKeeps
    <2> QED
      BY <1>5, <1>6, <1>7, <1>11, <2>1, <2>2 DEF Account!Next, Account!Leave
  <1>12. CASE refreshToken' # None /\ refreshToken # None /\ kept.grant = refreshToken.grant
    <2>1. SignedIn' = SignedIn /\ slips' = slips
      BY <1>1, <1>4, <1>6, <1>7, <1>12
    <2>2. Past' = Past
      BY <1>1, <1>7, <1>12, <2>1 DEF Past
    <2> QED
      BY <1>5, <1>6, <1>7, <1>12, <2>1, <2>2 DEF Account!Next, Account!Renew
  <1>13. CASE refreshToken' # None /\ ~(refreshToken # None /\ kept.grant = refreshToken.grant)
    <2> DEFINE g == kept.grant
               h == IF SignedIn # None THEN SignedIn ELSE entering
    <2>1. kept # None /\ g \in Grants /\ newest[g] > 0 /\ g # entering /\ g \in slips /\ g # SignedIn /\ g # None
      BY <1>1, <1>3, <1>7, <1>8, <1>13 DEF BInv, AppKeeps
    <2>2. SignedIn' = g /\ slips' = slips \ {g}
      BY <1>1, <1>4, <1>6, <1>13, <2>1
    <2>3. h \in (Grants \cup {None}) \ {g} /\ (SignedIn # None => h = SignedIn)
      BY <1>7, <1>8, <1>9, <2>1
    <2> HIDE DEF g
    <2>4. Past' = {x \in Grants : newest[x] > 0 /\ x # g}
      BY <1>1, <1>3, <2>2 DEF Past
    <2>5. Past' = (Past \ {g}) \cup ({h} \ {None})
      BY <1>3, <1>7, <1>8, <1>9, <2>1, <2>4 DEF Past
    <2>6. g \in Past
      BY <2>1 DEF Past
    <2> HIDE DEF h
    <2>7. Account!Return(g)
      BY <1>6, <2>1, <2>2, <2>3, <2>5, <2>6 DEF Account!Return
    <2> QED
      BY <1>5, <2>1, <2>7 DEF Account!Next
  <1> QED
    BY <1>10, <1>11, <1>12, <1>13

\* However refreshes, restarts, log-outs and sign-ins fall together, the app is of
\* one account at a time, and a session that is over comes back only at a start, once
\* for every time the keychain did not delete its item or not hand it out
\* (SessionController: store, clearSession, adopt, init).
THEOREM OneAccountAtATime == App!Spec => ImplementsAccount
  <1>1. App!Init => BInv /\ Account!Init
    <2> SUFFICES ASSUME App!Init PROVE BInv /\ Account!Init
      OBVIOUS
    <2>1. /\ refreshToken = None /\ access = None /\ kept = None /\ entering = None /\ strays = {} /\ slips = {}
          /\ newest = [g \in Grants |-> 0]
      BY DEF App!Init
    <2>2. BInv
      BY <2>1 DEF BInv, AppAccess, AppKeeps, AppSlips, AppIssued
    <2>3. SignedIn = None /\ Bearer = None /\ Past = {}
      BY <2>1 DEF SignedIn, Bearer, Past
    <2> QED
      BY <2>1, <2>2, <2>3 DEF Account!Init
  <1>2. AInv /\ BInv /\ [App!Next]_(App!vars) => BInv' /\ [Account!Next]_(Account!vars)
    <2> SUFFICES ASSUME AInv, BInv, [App!Next]_(App!vars) PROVE BInv' /\ [Account!Next]_(Account!vars)
      OBVIOUS
    <2>1. ASSUME NEW g \in Grants, App!SignIn(g) PROVE BInv' /\ [Account!Next]_(Account!vars)
      BY <2>1, AccountSignsIn
    <2>2. ASSUME NEW c \in Requests, App!Store(c) PROVE BInv' /\ [Account!Next]_(Account!vars)
      BY <2>2, AccountStores DEF Account!Next
    <2>3. ASSUME NEW c \in Requests, App!Resume(c) PROVE BInv' /\ [Account!Next]_(Account!vars)
      BY <2>3, AccountResumes DEF Account!Next
    <2>4. CASE (\E c \in Requests : App!SecondRefused(c)) \/ App!LoggedOut \/ App!AuthorizedLate
      <3>1. App!ClearSession(task) /\ UNCHANGED <<newest, entering>>
        BY <2>4 DEF App!SecondRefused, App!LoggedOut, App!AuthorizedLate, App!SessionExpired, App!server
      <3>2. task \in [Requests -> TaskType]
        BY DEF AInv, AppTypes
      <3> QED
        BY <3>1, <3>2, AccountClears DEF Account!Next
    <2>5. CASE App!Adopt
      BY <2>5, AccountAdopts DEF Account!Next
    <2>6. CASE App!SignInFails
      BY <2>6, AccountMisses DEF Account!Next
    <2>7. CASE App!Restart
      BY <2>7, AccountRestarts
    <2>8. CASE App!Age
      BY <2>8, AccountAges
    <2>9. CASE \/ \E g \in Grants : App!GraceEnds(g) \/ App!RevokedElsewhere(g)
               \/ \E tok \in strays : App!StrayArrives(tok)
               \/ \E c \in Requests : \/ App!Authorized(c) \/ App!OperationAnswered(c) \/ App!FirstRefused(c)
                                      \/ App!Reply(c) \/ App!NoReply(c)
               \/ App!LogOut \/ App!Revoke \/ UNCHANGED App!vars
      BY <2>9, AccountElse
    <2> QED
      BY <2>1, <2>2, <2>3, <2>4, <2>5, <2>6, <2>7, <2>8, <2>9 DEF App!Next
  <1> QED
    BY <1>1, <1>2, AppInvariant, PTL DEF App!Spec, ImplementsAccount, Account!Spec

-----------------------------------------------------------------------------
(* DeviceViews.  Devices are never deleted, so what a load did not find was *)
(* not shown when it began, and the list has a newer state of the device of *)
(* the detail screen than that screen, or the same.                         *)

USE BoundsAreNat

Versions == [Devices -> Nat]
Details == [device : Devices, version : Nat]
CallType ==
  [by : {"first", "list", "row", "detail", "form", None}, does : Screens!Awaits \cup {None}, device : Devices \cup {None},
   expect : Nat, held : SUBSET Devices, says : {None, "ok", "conflict", "lost", "error"}, seen : Versions \cup {None}]

ViewTypes ==
  /\ version \in Versions /\ rows \in Versions
  /\ detail \in Details \cup {None}
  /\ dcall \in [Calls -> CallType]

Existing == \A d \in Devices : rows[d] > 0 => version[d] > 0
ListAhead == detail \in Details => detail.version > 0 /\ rows[detail.device] >= detail.version

\* What is known of a call: which screen it is of, and what an answer brings.
OfScreen(q) ==
  /\ q.by = "detail" => detail \in Details /\ q.device = detail.device
  /\ q.does \in {"add", "control", "read"} => q.device \in Devices
  /\ q.does \in {"control", "read"} => q.by \in {"row", "detail"}
Brings(q) ==
  /\ q.does = "list" => \A d \in q.held : version[d] > 0
  /\ q.says = "ok" => /\ q.seen \in Versions
                      /\ \A d \in Devices : q.seen[d] > 0 => version[d] > 0
                      /\ q.does = "list" => \A d \in q.held : q.seen[d] > 0
                      /\ q.does = "add" => q.seen[q.device] > 0

VInv == ViewTypes /\ Existing /\ ListAhead /\ \A c \in Calls : OfScreen(dcall[c]) /\ Brings(dcall[c])

\* What a step may do to what is shown.
Onward ==
  /\ \A d \in Devices : rows'[d] >= rows[d]
  /\ detail # None /\ detail'.device = detail.device => detail'.version >= detail.version

\* A call that is free runs nothing.
LEMMA FreeCall == Screens!Free \in CallType /\ Screens!Free.by = None /\ Screens!Free.does = None /\ Screens!Free.says = None
  BY DEF Screens!Free, CallType

\* A step of one call: devices are not deleted, and the others keep their screen.
LEMMA ViewMove ==
  ASSUME VInv, NEW c \in Calls, NEW new \in CallType, dcall' = [dcall EXCEPT ![c] = new],
         version' \in Versions, \A d \in Devices : version[d] > 0 => version'[d] > 0,
         rows' \in Versions, detail' \in Details \cup {None},
         Existing', ListAhead',
         \A d \in Calls \ {c} : dcall[d].by = "detail" => detail' \in Details /\ detail'.device = detail.device,
         OfScreen(new)', Brings(new)'
  PROVE  VInv'
  <1>1. dcall'[c] = new /\ (\A d \in Calls \ {c} : dcall'[d] = dcall[d])
    BY DEF VInv, ViewTypes
  <1>2. ViewTypes'
    BY DEF VInv, ViewTypes
  <1>3. ASSUME NEW d \in Calls PROVE OfScreen(dcall[d])' /\ Brings(dcall[d])'
    <2>1. CASE d = c
      BY <1>1, <2>1 DEF OfScreen, Brings
    <2>2. CASE d # c
      <3>1. dcall'[d] = dcall[d] /\ OfScreen(dcall[d]) /\ Brings(dcall[d]) /\ dcall[d] \in CallType
        BY <1>1, <2>2 DEF VInv, ViewTypes
      <3>2. OfScreen(dcall[d])'
        BY <2>2, <3>1 DEF OfScreen
      <3>3. Brings(dcall[d])'
        BY <3>1 DEF Brings, CallType
      <3> QED
        BY <3>2, <3>3
    <2> QED
      BY <2>1, <2>2
  <1> QED
    BY <1>2, <1>3 DEF VInv

\* A call that a person begins, before its answer.
LEMMA ViewBegins ==
  ASSUME VInv, NEW c \in Calls, NEW new \in CallType, dcall' = [dcall EXCEPT ![c] = new],
         UNCHANGED <<version, rows>>, detail' = detail, OfScreen(new), new.says # "ok",
         new.does = "list" => \A d \in new.held : rows[d] > 0
  PROVE  VInv' /\ Onward
  <1>1. version \in Versions /\ rows \in Versions /\ detail \in Details \cup {None}
    BY DEF VInv, ViewTypes
  <1>2. Existing' /\ ListAhead' /\ OfScreen(new)'
    BY DEF VInv, Existing, ListAhead, OfScreen
  <1>3. Brings(new)'
    BY DEF Brings, CallType, VInv, Existing
  <1>4. \A d \in Calls \ {c} : dcall[d].by = "detail" => detail' \in Details /\ detail'.device = detail.device
    BY DEF VInv, OfScreen
  <1>5. \A d \in Devices : version[d] > 0 => version'[d] > 0
    OBVIOUS
  <1>6. VInv'
    BY <1>1, <1>2, <1>3, <1>4, <1>5, ViewMove
  <1>7. Onward
    BY <1>1 DEF Onward, Versions, Details
  <1> QED
    BY <1>6, <1>7

\* The list appears with nothing in it.
LEMMA ViewInit == ASSUME Screens!Init PROVE VInv
  <1> DEFINE load == [Screens!Free EXCEPT !.by = "first", !.does = "list"]
  <1>1. load \in CallType /\ load.by = "first" /\ load.does = "list" /\ load.held = {} /\ load.says = None
    BY DEF Screens!Free, CallType, Screens!Awaits
  <1>2. PICK first \in Calls : dcall = [c \in Calls |-> IF c = first THEN load ELSE Screens!Free]
    BY DEF Screens!Init
  <1> HIDE DEF load
  <1>3. \A c \in Calls : dcall[c] = load \/ dcall[c] = Screens!Free
    BY <1>2
  <1>4. dcall \in [Calls -> CallType]
    BY <1>1, <1>2, FreeCall
  <1>5. version \in Versions /\ rows = [d \in Devices |-> 0] /\ detail = None
    BY DEF Screens!Init, Versions
  <1>6. \A c \in Calls : OfScreen(dcall[c]) /\ Brings(dcall[c])
    BY <1>1, <1>3, FreeCall DEF OfScreen, Brings
  <1> QED
    BY <1>4, <1>5, <1>6 DEF VInv, ViewTypes, Existing, ListAhead, Versions, Details

\* Loads begin with what is listed.
LEMMA ViewLoads ==
  ASSUME VInv, NEW c \in Calls, Screens!Retry(c) \/ Screens!Refresh(c)
  PROVE  VInv' /\ Onward
  <1> DEFINE new == [Screens!Free EXCEPT !.by = "list", !.does = "list", !.held = Screens!Listed]
  <1>1. UNCHANGED <<version, rows>> /\ detail' = detail /\ dcall' = [dcall EXCEPT ![c] = new]
    BY DEF Screens!Retry, Screens!Refresh, Screens!Load
  <1>2. /\ new \in CallType /\ new.by = "list" /\ new.does = "list" /\ new.says = None
        /\ new.held = Screens!Listed
    BY DEF Screens!Free, CallType, Screens!Awaits, Screens!Listed
  <1> HIDE DEF new
  <1> QED
    BY <1>1, <1>2, ViewBegins DEF OfScreen, Screens!Listed

\* A switch of a row, or the form, is of a device.
LEMMA ViewAsks ==
  ASSUME VInv, NEW c \in Calls,
         (\E d \in Devices : Screens!SetState(c, d) \/ Screens!Submit(c, d)) \/ Screens!SetDetailState(c)
  PROVE  VInv' /\ Onward
  <1>1. UNCHANGED <<version, rows>> /\ detail' = detail
    BY DEF Screens!SetState, Screens!Submit, Screens!SetDetailState
  <1>2. ASSUME NEW by \in {"row", "detail", "form"}, NEW does \in {"control", "add"}, NEW d \in Devices, NEW expect \in Nat,
               Screens!Await(c, by, does, d, expect), by = "detail" => detail \in Details /\ d = detail.device,
               does = "control" => by # "form"
        PROVE  VInv' /\ Onward
    <2> DEFINE new == [Screens!Free EXCEPT !.by = by, !.does = does, !.device = d, !.expect = expect]
    <2>1. dcall' = [dcall EXCEPT ![c] = new]
      BY <1>2 DEF Screens!Await
    <2>2. new \in CallType /\ new.by = by /\ new.does = does /\ new.device = d /\ new.says = None
      BY DEF Screens!Free, CallType, Screens!Awaits
    <2> HIDE DEF new
    <2> QED
      BY <1>1, <1>2, <2>1, <2>2, ViewBegins DEF OfScreen
  <1>3. ASSUME NEW d \in Devices, Screens!SetState(c, d) PROVE VInv' /\ Onward
    <2>1. rows[d] \in Nat
      BY DEF VInv, ViewTypes, Versions
    <2> QED
      BY <1>2, <1>3, <2>1 DEF Screens!SetState
  <1>4. ASSUME NEW d \in Devices, Screens!Submit(c, d) PROVE VInv' /\ Onward
    BY <1>2, <1>4 DEF Screens!Submit
  <1>5. CASE Screens!SetDetailState(c)
    <2>1. detail \in Details /\ detail.device \in Devices /\ detail.version \in Nat
      BY <1>5 DEF Screens!SetDetailState, VInv, ViewTypes, Details
    <2> QED
      BY <1>2, <1>5, <2>1 DEF Screens!SetDetailState
  <1> QED
    BY <1>3, <1>4, <1>5

\* A detail screen opens with what the list has of its device.
LEMMA ViewOpens ==
  ASSUME VInv, NEW c \in Calls, NEW d \in Devices, Screens!OpenDetail(c, d)
  PROVE  VInv' /\ Onward
  <1> DEFINE new == [Screens!Free EXCEPT !.by = "detail", !.does = "read", !.device = d, !.expect = 0]
             shown == [device |-> d, version |-> rows[d]]
  <1>1. /\ UNCHANGED <<version, rows>> /\ detail' = shown /\ rows[d] > 0
        /\ dcall' = [dcall EXCEPT ![c] = new] /\ \A k \in Calls : dcall[k].by # "detail"
    BY DEF Screens!OpenDetail, Screens!Await
  <1>2. new \in CallType /\ new.by = "detail" /\ new.does = "read" /\ new.device = d /\ new.says = None
    BY DEF Screens!Free, CallType, Screens!Awaits
  <1>3. version \in Versions /\ rows \in Versions /\ rows[d] \in Nat
    BY DEF VInv, ViewTypes, Versions
  <1>4. shown \in Details /\ shown.device = d /\ shown.version = rows[d]
    BY <1>3 DEF Details
  <1> HIDE DEF new, shown
  <1>5. Existing' /\ ListAhead' /\ OfScreen(new)' /\ Brings(new)'
    BY <1>1, <1>2, <1>3, <1>4 DEF VInv, Existing, ListAhead, OfScreen, Brings, Versions
  <1>6. VInv'
    BY <1>1, <1>2, <1>3, <1>4, <1>5, ViewMove
  <1>7. Onward
    BY <1>1, <1>3, <1>4 DEF Onward, VInv, ViewTypes, ListAhead, Versions, Details
  <1> QED
    BY <1>6, <1>7

\* What a request makes of the devices: none goes back.
LEMMA ViewBecomes ==
  ASSUME VInv, NEW c \in Calls, Screens!Becomes(dcall[c]) \in Versions
  PROVE  \A d \in Devices : Screens!Becomes(dcall[c])[d] >= version[d]
  <1>1. version \in Versions /\ dcall[c] \in CallType
        /\ (dcall[c].does \in {"add", "control"} => dcall[c].device \in Devices)
    BY DEF VInv, ViewTypes, OfScreen
  <1> QED
    BY <1>1 DEF Screens!Becomes, Versions

\* A request is answered, with the devices as they are then, or not.
LEMMA ViewServes ==
  ASSUME VInv, NEW c \in Calls, Screens!Serve(c) \/ Screens!Fail(c)
  PROVE  VInv' /\ Onward
  <1> DEFINE q == dcall[c]
  <1>0. q \in CallType /\ OfScreen(q) /\ Brings(q) /\ version \in Versions /\ rows \in Versions
        /\ detail \in Details \cup {None}
    BY DEF VInv, ViewTypes
  <1>1. rows' = rows /\ detail' = detail /\ q.does # None
    BY DEF Screens!Serve, Screens!Fail
  <1>2. /\ version' \in Versions /\ \A d \in Devices : version'[d] >= version[d]
        /\ version' = version \/ version' = Screens!Becomes(q)
    <2>0. Screens!Lists \subseteq Versions
      BY DEF Screens!Lists, Versions
    <2>1. version' \in Versions /\ (version' = version \/ version' = Screens!Becomes(q))
      <3>1. CASE Screens!Serve(c)
        BY <2>0, <3>1 DEF Screens!Serve
      <3>2. CASE Screens!Fail(c)
        BY <1>0, <2>0, <3>2 DEF Screens!Fail
      <3> QED
        BY <3>1, <3>2
    <2>2. version' = Screens!Becomes(q) => \A d \in Devices : version'[d] >= version[d]
      BY <2>1, ViewBecomes
    <2> QED
      BY <1>0, <2>1, <2>2 DEF Versions
  <1>3. PICK new \in CallType :
          /\ dcall' = [dcall EXCEPT ![c] = new]
          /\ new.by = q.by /\ new.does = q.does /\ new.device = q.device /\ new.held = q.held
          /\ new.says = "ok" => Screens!Serve(c) /\ new.seen = version'
    <2>1. CASE Screens!Serve(c)
      <3>1. PICK says \in Screens!Says(q) : dcall' = [dcall EXCEPT ![c] = [q EXCEPT !.says = says, !.seen = version']]
        BY <2>1 DEF Screens!Serve
      <3>2. says \in {"ok", "conflict", "error"}
        BY DEF Screens!Says
      <3> DEFINE new == [q EXCEPT !.says = says, !.seen = version']
      <3>3. /\ new \in CallType /\ new.by = q.by /\ new.does = q.does /\ new.device = q.device
            /\ new.held = q.held /\ new.seen = version'
        BY <1>0, <1>2, <3>2 DEF CallType
      <3> QED
        BY <2>1, <3>1, <3>3
    <2>2. CASE Screens!Fail(c)
      <3>1. PICK says \in {"error", "lost"} : dcall' = [dcall EXCEPT ![c] = [q EXCEPT !.says = says]]
        BY <2>2 DEF Screens!Fail
      <3> DEFINE new == [q EXCEPT !.says = says]
      <3>2. /\ new \in CallType /\ new.by = q.by /\ new.does = q.does /\ new.device = q.device
            /\ new.held = q.held /\ new.says = says
        BY <1>0 DEF CallType
      <3> QED
        BY <3>1, <3>2
    <2> QED
      BY <2>1, <2>2
  <1>4. Screens!Serve(c) /\ q.does = "add" => version'[q.device] > 0
    <2> SUFFICES ASSUME Screens!Serve(c), q.does = "add" PROVE version'[q.device] > 0
      OBVIOUS
    <2>1. q.device \in Devices /\ version[q.device] \in Nat
      BY <1>0 DEF OfScreen, Versions
    <2>2. version' = Screens!Becomes(q)
      BY DEF Screens!Serve
    <2>3. CASE version[q.device] = 0
      BY <1>0, <2>1, <2>2, <2>3 DEF Screens!Becomes, Versions
    <2>4. CASE version[q.device] # 0
      BY <1>0, <2>1, <2>2, <2>4 DEF Screens!Becomes, Versions
    <2> QED
      BY <2>3, <2>4
  <1> HIDE DEF q
  <1>5. \A d \in Devices : version[d] > 0 => version'[d] > 0
    BY <1>0, <1>2 DEF Versions
  <1>6. Existing' /\ ListAhead'
    BY <1>1, <1>5 DEF VInv, Existing, ListAhead
  <1>7. OfScreen(new)'
    BY <1>0, <1>1, <1>3 DEF OfScreen
  <1>8. Brings(new)'
    BY <1>0, <1>2, <1>3, <1>4, <1>5 DEF Brings, CallType
  <1>9. \A d \in Calls \ {c} : dcall[d].by = "detail" => detail' \in Details /\ detail'.device = detail.device
    BY <1>1 DEF VInv, OfScreen
  <1>10. VInv'
    BY <1>0, <1>1, <1>2, <1>3, <1>5, <1>6, <1>7, <1>8, <1>9, ViewMove
  <1>11. Onward
    BY <1>0, <1>1 DEF Onward, Versions, Details
  <1> QED
    BY <1>10, <1>11

\* A device changes elsewhere.
LEMMA ViewElsewhere == ASSUME VInv, NEW d \in Devices, Screens!Elsewhere(d) PROVE VInv' /\ Onward
  <1>1. version' = [version EXCEPT ![d] = @ + 1] /\ UNCHANGED <<rows, detail, dcall>>
    BY DEF Screens!Elsewhere
  <1>2. version' \in Versions /\ (\A e \in Devices : version[e] > 0 => version'[e] > 0)
    BY <1>1 DEF VInv, ViewTypes, Versions
  <1>3. ViewTypes' /\ Existing' /\ ListAhead'
    BY <1>1, <1>2 DEF VInv, ViewTypes, Existing, ListAhead
  <1>4. \A c \in Calls : OfScreen(dcall[c])' /\ Brings(dcall[c])'
    BY <1>1, <1>2 DEF VInv, ViewTypes, OfScreen, Brings, CallType
  <1>5. Onward
    BY <1>1 DEF VInv, ViewTypes, Onward, Versions, Details
  <1> QED
    BY <1>3, <1>4, <1>5 DEF VInv

\* A call that ends, with what it has to show.
LEMMA ViewEnds ==
  ASSUME VInv, NEW c \in Calls, Screens!Over(c), version' = version, rows' \in Versions,
         \A d \in Devices : rows'[d] >= rows[d] /\ (rows'[d] > 0 => version[d] > 0),
         \/ detail' = detail
         \/ /\ detail \in Details /\ detail' \in Details /\ detail'.device = detail.device
            /\ detail'.version >= detail.version /\ rows'[detail.device] >= detail'.version
  PROVE  VInv' /\ Onward
  <1>1. dcall' = [dcall EXCEPT ![c] = Screens!Free]
    BY DEF Screens!Over
  <1>2. version \in Versions /\ rows \in Versions /\ detail \in Details \cup {None}
    BY DEF VInv, ViewTypes
  <1>3. Existing'
    BY DEF Existing
  <1>4. ListAhead'
    BY <1>2 DEF VInv, ListAhead, Versions, Details
  <1>5. OfScreen(Screens!Free)' /\ Brings(Screens!Free)'
    BY FreeCall DEF OfScreen, Brings
  <1>6. \A d \in Calls \ {c} : dcall[d].by = "detail" => detail' \in Details /\ detail'.device = detail.device
    BY DEF VInv, OfScreen
  <1>7. VInv'
    BY <1>1, <1>2, <1>3, <1>4, <1>5, <1>6, FreeCall, ViewMove
  <1>8. Onward
    BY <1>2 DEF Onward, Versions, Details
  <1> QED
    BY <1>7, <1>8

\* A load keeps the later of two states of a device, and finds what it began
\* with (load).
LEMMA ViewLoaded == ASSUME VInv, NEW c \in Calls, Screens!Loaded(c) PROVE VInv' /\ Onward
  <1> DEFINE q == dcall[c]
  <1>0. q \in CallType /\ Brings(q) /\ version \in Versions /\ rows \in Versions
    BY DEF VInv, ViewTypes
  <1>1. /\ q.does = "list" /\ version' = version /\ detail' = detail /\ Screens!Over(c)
        /\ rows' = rows \/ (q.says = "ok" /\ rows' = Screens!Merged(q))
    BY DEF Screens!Loaded
  <1>2. CASE rows' = rows
    BY <1>0, <1>1, <1>2, ViewEnds DEF VInv, Existing, Versions
  <1>3. CASE q.says = "ok" /\ rows' = Screens!Merged(q)
    <2>1. /\ q.seen \in Versions /\ q.held \subseteq Devices
          /\ \A d \in Devices : q.seen[d] > 0 => version[d] > 0
          /\ \A d \in q.held : q.seen[d] > 0
      BY <1>0, <1>1, <1>3 DEF Brings, CallType
    <2> HIDE DEF q
    <2>2. \A d \in Devices : q.seen[d] \in Nat /\ rows[d] \in Nat /\ (rows[d] > 0 => version[d] > 0)
      BY <1>0, <2>1 DEF Versions, VInv, Existing
    <2>3. rows' = [d \in Devices |-> IF q.seen[d] > 0 THEN Screens!Later(rows[d], q.seen[d])
                                     ELSE IF d \in q.held THEN 0 ELSE rows[d]]
      BY <1>3 DEF Screens!Merged
    <2>4. ASSUME NEW d \in Devices PROVE rows'[d] \in Nat /\ rows'[d] >= rows[d] /\ (rows'[d] > 0 => version[d] > 0)
      <3>1. rows'[d] = IF q.seen[d] > 0 THEN Screens!Later(rows[d], q.seen[d])
                       ELSE IF d \in q.held THEN 0 ELSE rows[d]
        BY <2>3
      <3> QED
        BY <2>1, <2>2, <3>1 DEF Screens!Later
    <2>5. rows' \in Versions
      BY <2>3, <2>4 DEF Versions
    <2> QED
      BY <1>1, <2>4, <2>5, ViewEnds
  <1> QED
    BY <1>1, <1>2, <1>3

\* replace: only a row that is there, and only by a later state.
LEMMA ViewReplace ==
  ASSUME VInv, NEW d \in Devices, NEW v \in Nat, Screens!Replace(d, v)
  PROVE  /\ rows' \in Versions
         /\ \A e \in Devices : rows'[e] >= rows[e] /\ (rows'[e] > 0 => version[e] > 0)
         /\ rows[d] > 0 => rows'[d] >= v
  <1>1. rows \in Versions /\ version \in Versions /\ rows[d] \in Nat
    BY DEF VInv, ViewTypes, Versions
  <1>2. rows' = IF rows[d] > 0 THEN [rows EXCEPT ![d] = Screens!Later(rows[d], v)] ELSE rows
    BY DEF Screens!Replace
  <1>3. Screens!Later(rows[d], v) \in Nat /\ Screens!Later(rows[d], v) >= rows[d] /\ Screens!Later(rows[d], v) >= v
    BY <1>1 DEF Screens!Later
  <1> QED
    BY <1>1, <1>2, <1>3 DEF VInv, Existing, Versions

\* A screen is told of a state only when it is no older than its own (adopt).
LEMMA ViewControlled == ASSUME VInv, NEW c \in Calls, Screens!Controlled(c) PROVE VInv' /\ Onward
  <1> DEFINE q == dcall[c]
  <1>0. q \in CallType /\ OfScreen(q) /\ Brings(q) /\ version \in Versions /\ rows \in Versions
        /\ detail \in Details \cup {None}
    BY DEF VInv, ViewTypes
  <1>1. /\ q.does \in {"control", "read"} /\ version' = version /\ Screens!Over(c) /\ Screens!Told(q)
        /\ q.by \in {"row", "detail"} /\ q.device \in Devices
    BY <1>0 DEF Screens!Controlled, OfScreen
  <1>2. \A d \in Devices : rows[d] >= rows[d] /\ (rows[d] > 0 => version[d] > 0)
    BY <1>0 DEF VInv, Existing, Versions
  <1>3. CASE q.says # "ok"
    <2>1. rows' = rows /\ detail' = detail
      BY <1>1, <1>3 DEF Screens!Told
    <2> QED
      BY <1>0, <1>1, <1>2, <2>1, ViewEnds
  <1>4. CASE q.says = "ok"
    <2> DEFINE v == q.seen[q.device]
    <2>1. v \in Nat
      BY <1>0, <1>1, <1>4 DEF Brings, Versions
    <2>2. CASE q.by = "row"
      <3>1. Screens!Replace(q.device, v) /\ detail' = detail
        BY <1>1, <1>4, <2>2 DEF Screens!Told
      <3> HIDE DEF q, v
      <3>2. rows' \in Versions /\ \A e \in Devices : rows'[e] >= rows[e] /\ (rows'[e] > 0 => version[e] > 0)
        BY <1>1, <2>1, <3>1, ViewReplace
      <3> QED
        BY <1>1, <3>1, <3>2, ViewEnds
    <2>3. CASE q.by = "detail"
      <3>1. Screens!Adopt(q.device, v) /\ detail \in Details /\ q.device = detail.device
        BY <1>0, <1>1, <1>4, <2>3 DEF Screens!Told, OfScreen
      <3> HIDE DEF q, v
      <3>2. detail.version \in Nat /\ detail.version > 0 /\ rows[detail.device] >= detail.version /\ rows[detail.device] \in Nat
        BY <1>0, <3>1 DEF VInv, ListAhead, Details, Versions
      <3>3. CASE v >= detail.version
        <4>1. detail' = [device |-> q.device, version |-> v] /\ Screens!Replace(q.device, v)
          BY <3>1, <3>3 DEF Screens!Adopt
        <4>2. /\ rows' \in Versions /\ \A e \in Devices : rows'[e] >= rows[e] /\ (rows'[e] > 0 => version[e] > 0)
              /\ rows[q.device] > 0 => rows'[q.device] >= v
          BY <1>1, <2>1, <4>1, ViewReplace
        <4>3. detail' \in Details /\ detail'.device = q.device /\ detail'.version = v
          BY <1>1, <2>1, <4>1 DEF Details
        <4>4. rows'[q.device] >= v
          BY <3>1, <3>2, <4>2
        <4> QED
          BY <1>1, <3>1, <3>3, <4>2, <4>3, <4>4, ViewEnds
      <3>4. CASE ~(v >= detail.version)
        <4>1. rows' = rows /\ detail' = detail
          BY <3>1, <3>4 DEF Screens!Adopt
        <4> QED
          BY <1>0, <1>1, <1>2, <4>1, ViewEnds
      <3> QED
        BY <3>3, <3>4
    <2> QED
      BY <1>1, <2>2, <2>3
  <1> QED
    BY <1>3, <1>4

\* After a conflict or a lost answer the device is read.
LEMMA ViewReconciles == ASSUME VInv, NEW c \in Calls, Screens!Reconcile(c) PROVE VInv' /\ Onward
  <1> DEFINE q == dcall[c]
             new == [q EXCEPT !.does = "read", !.says = None, !.seen = None]
  <1>0. q \in CallType /\ OfScreen(q)
    BY DEF VInv, ViewTypes
  <1>1. /\ UNCHANGED <<version, rows>> /\ detail' = detail /\ q.does = "control"
        /\ dcall' = [dcall EXCEPT ![c] = new]
    BY DEF Screens!Reconcile
  <1>2. /\ new \in CallType /\ new.by = q.by /\ new.device = q.device /\ new.does = "read" /\ new.says = None
    BY <1>0 DEF CallType, Screens!Awaits
  <1>3. OfScreen(new)
    BY <1>0, <1>1, <1>2 DEF OfScreen
  <1> HIDE DEF q, new
  <1> QED
    BY <1>1, <1>2, <1>3, ViewBegins

\* A device that was added is listed, and the list is loaded again
\* (deviceWasAdded).
LEMMA ViewAdded == ASSUME VInv, NEW c \in Calls, Screens!Added(c) PROVE VInv' /\ Onward
  <1> DEFINE q == dcall[c]
             v == q.seen[q.device]
  <1>0. q \in CallType /\ OfScreen(q) /\ Brings(q) /\ version \in Versions /\ rows \in Versions
        /\ detail \in Details \cup {None}
    BY DEF VInv, ViewTypes
  <1>1. /\ q.does = "add" /\ q.says = "ok" /\ version' = version /\ detail' = detail
        /\ rows' = [rows EXCEPT ![q.device] = Screens!Later(rows[q.device], v)]
    BY DEF Screens!Added
  <1>2. q.device \in Devices /\ v \in Nat /\ v > 0 /\ version[q.device] > 0 /\ rows[q.device] \in Nat
    BY <1>0, <1>1 DEF OfScreen, Brings, Versions
  <1>3. PICK new \in CallType :
          /\ dcall' = [dcall EXCEPT ![c] = new]
          /\ new.by = "list" /\ new.does = "list" /\ new.says = None /\ new.held = Screens!Listed \cup {q.device}
    <2> DEFINE load == [Screens!Free EXCEPT !.by = "list", !.does = "list", !.held = Screens!Listed \cup {q.device}]
    <2>1. dcall' = [dcall EXCEPT ![c] = load]
      BY DEF Screens!Added, Screens!Load
    <2>2. /\ load \in CallType /\ load.by = "list" /\ load.does = "list" /\ load.says = None
          /\ load.held = Screens!Listed \cup {q.device}
      BY <1>2 DEF Screens!Free, CallType, Screens!Awaits, Screens!Listed
    <2> QED
      BY <2>1, <2>2
  <1>4. Screens!Later(rows[q.device], v) \in Nat /\ Screens!Later(rows[q.device], v) >= rows[q.device]
    BY <1>2 DEF Screens!Later
  <1> HIDE DEF q, v
  <1>5. /\ rows' \in Versions
        /\ \A d \in Devices : rows'[d] >= rows[d] /\ (rows'[d] > 0 => version[d] > 0)
    BY <1>0, <1>1, <1>2, <1>4 DEF VInv, Existing, Versions
  <1>6. Existing'
    BY <1>1, <1>5 DEF Existing
  <1>7. ListAhead'
    BY <1>0, <1>1, <1>5 DEF VInv, ListAhead, Versions, Details
  <1>8. OfScreen(new)'
    BY <1>3 DEF OfScreen
  <1>9. Brings(new)'
    BY <1>1, <1>2, <1>3 DEF Brings, Screens!Listed, VInv, Existing
  <1>10. \A d \in Calls \ {c} : dcall[d].by = "detail" => detail' \in Details /\ detail'.device = detail.device
    BY <1>1 DEF VInv, OfScreen
  <1>11. VInv'
    BY <1>0, <1>1, <1>3, <1>5, <1>6, <1>7, <1>8, <1>9, <1>10, ViewMove
  <1>12. Onward
    BY <1>0, <1>1, <1>5 DEF Onward, Versions, Details
  <1> QED
    BY <1>11, <1>12

\* An addition that fails shows nothing.
LEMMA ViewNotAdded == ASSUME VInv, NEW c \in Calls, Screens!NotAdded(c) PROVE VInv' /\ Onward
  <1>1. rows' = rows /\ detail' = detail /\ version' = version /\ Screens!Over(c)
    BY DEF Screens!NotAdded
  <1>2. rows \in Versions /\ \A d \in Devices : rows[d] >= rows[d] /\ (rows[d] > 0 => version[d] > 0)
    BY DEF VInv, ViewTypes, Existing, Versions
  <1> QED
    BY <1>1, <1>2, ViewEnds

\* Every step keeps the invariant, and no step that keeps it goes back.
LEMMA ViewStep == ASSUME VInv, [Screens!Next]_(Screens!vars) PROVE VInv' /\ (Onward \/ UNCHANGED Screens!vars)
  <1>1. ASSUME NEW c \in Calls, Screens!Retry(c) \/ Screens!Refresh(c) PROVE VInv' /\ Onward
    BY <1>1, ViewLoads
  <1>2. ASSUME NEW c \in Calls,
               (\E d \in Devices : Screens!SetState(c, d) \/ Screens!Submit(c, d)) \/ Screens!SetDetailState(c)
        PROVE  VInv' /\ Onward
    BY <1>2, ViewAsks
  <1>3. ASSUME NEW c \in Calls, NEW d \in Devices, Screens!OpenDetail(c, d) PROVE VInv' /\ Onward
    BY <1>3, ViewOpens
  <1>4. ASSUME NEW c \in Calls, Screens!Serve(c) \/ Screens!Fail(c) PROVE VInv' /\ Onward
    BY <1>4, ViewServes
  <1>5. ASSUME NEW c \in Calls, Screens!Loaded(c) \/ Screens!Controlled(c) \/ Screens!Reconcile(c) PROVE VInv' /\ Onward
    BY <1>5, ViewLoaded, ViewControlled, ViewReconciles
  <1>6. ASSUME NEW c \in Calls, Screens!Added(c) \/ Screens!NotAdded(c) PROVE VInv' /\ Onward
    BY <1>6, ViewAdded, ViewNotAdded
  <1>7. ASSUME NEW d \in Devices, Screens!Elsewhere(d) PROVE VInv' /\ Onward
    BY <1>7, ViewElsewhere
  <1>8. CASE UNCHANGED Screens!vars
    <2>1. VInv'
      BY <1>8 DEF Screens!vars, VInv, ViewTypes, Existing, ListAhead, OfScreen, Brings
    <2> QED
      BY <1>8, <2>1
  <1> QED
    BY <1>1, <1>2, <1>3, <1>4, <1>5, <1>6, <1>7, <1>8 DEF Screens!Next

\* However loads, switches, additions and the reads after them overtake one
\* another, no screen goes back to an older state of a device, and no device
\* that was shown disappears (load, replace, adopt).
THEOREM ScreensGoForward == Screens!Spec => ShownNeverGoesBack
  <1>1. Screens!Init => VInv
    BY ViewInit
  <1>2. VInv /\ [Screens!Next]_(Screens!vars) => VInv'
    BY ViewStep
  <1>3. VInv /\ [Screens!Next]_(Screens!vars) => [Onward]_(Screens!vars)
    BY ViewStep DEF Onward
  <1>4. Screens!Spec => [][Onward]_(Screens!vars)
    BY <1>1, <1>2, <1>3, PTL DEF Screens!Spec
  <1> QED
    BY <1>4 DEF ShownNeverGoesBack, Screens!ShownNeverGoesBack, Onward
=============================================================================
