--------------------------- MODULE MobileSession ---------------------------
(***************************************************************************)
(* The session of the iOS app, Session/SessionController.swift, against the*)
(* authorization server's rotation of refresh tokens.                      *)
(*                                                                         *)
(* All of it runs on the main actor, so a step is what runs between two    *)
(* suspensions.  A task that refreshes is named by the caller that made it.*)
(* The n-th refresh token of grant g is [grant |-> g, n |-> n].            *)
(***************************************************************************)
EXTENDS Naturals

CONSTANTS
  Grants, Callers, None,
  MaxRotations \* bound: refresh tokens of one grant

VARIABLES
  newest,       \* the server: the newest refresh token of each grant, 0 before it exists,
  grace,        \* whether the one before may be presented still,
  over,         \* and whether the grant is revoked
  refreshToken, \* the app: account and isSignedIn change with it
  access,       \* [grant, aged], aged once three quarters of its life are over
  kept,         \* the keychain
  refreshTask,
  task,         \* per maker: [step, sent, got]
  pc,           \* of authorized: "first" and "again" are the attempts
  call,         \* per caller: the attempt awaiting a refresh, its task, the grant of the token in use and if it has aged
  leaving,      \* logOut under way: what it revokes
  entering,     \* signIn under way: the grant of its code
  strays,       \* refresh tokens in requests that nobody waits for
  lost,         \* history: grants of which the app has missed a rotation
  dropped,      \* history: grants not over whose session authorized has ended
  slips         \* history: grants whose item the keychain did not delete, or not hand out, and not since

vars == <<newest, grace, over, refreshToken, access, kept, refreshTask, task, pc, call, leaving, entering, strays, lost,
          dropped, slips>>
server == <<newest, grace, over>>
session == <<refreshToken, access, kept, refreshTask>>
history == <<lost, dropped, slips>>

Tokens == [grant : Grants, n : 1..MaxRotations]
NoTask == [step |-> "none", sent |-> None, got |-> None]
NoCall == [attempt |-> "first", on |-> None, grant |-> None, aged |-> FALSE]
Ended == {"ok", "refused", "failed"}

TypeOK ==
  /\ newest \in [Grants -> 0..MaxRotations]
  /\ grace \in [Grants -> BOOLEAN]
  /\ over \in [Grants -> {"no", "revoked", "stolen"}]
  /\ refreshToken \in Tokens \cup {None} /\ kept \in Tokens \cup {None}
  /\ access \in [grant : Grants, aged : BOOLEAN] \cup {None}
  /\ refreshTask \in Callers \cup {None}
  /\ task \in [Callers -> [step : {"none", "sent", "answered"} \cup Ended, sent : Tokens \cup {None}, got : Tokens \cup {None}]]
  /\ pc \in [Callers -> {"idle", "first", "refresh", "again"}]
  /\ call \in [Callers -> [attempt : {"first", "again"}, on : Callers \cup {None}, grant : Grants \cup {None}, aged : BOOLEAN]]
  /\ leaving \in Tokens \cup {None} /\ entering \in Grants \cup {None}
  /\ strays \subseteq Tokens
  /\ lost \subseteq Grants /\ dropped \subseteq Grants /\ slips \subseteq Grants

Init ==
  /\ newest = [g \in Grants |-> 0] /\ grace = [g \in Grants |-> FALSE] /\ over = [g \in Grants |-> "no"]
  /\ refreshToken = None /\ access = None /\ kept = None /\ refreshTask = None
  /\ task = [c \in Callers |-> NoTask]
  /\ pc = [c \in Callers |-> "idle"] /\ call = [c \in Callers |-> NoCall]
  /\ leaving = None /\ entering = None /\ strays = {}
  /\ lost = {} /\ dropped = {} /\ slips = {}

-----------------------------------------------------------------------------
(* The server (TokenStore has its whole token endpoint).                   *)

Fresh(tok)     == over[tok.grant] = "no" /\ tok.n = newest[tok.grant]
Replayed(tok)  == over[tok.grant] = "no" /\ tok.n + 1 = newest[tok.grant] /\ grace[tok.grant]
Refused(tok)   == ~Fresh(tok) /\ ~Replayed(tok)

\* rotateRefresh: a token presented again late, or after its successor, is theft.
Present(tok) ==
  LET g == tok.grant IN
  IF Fresh(tok)
  THEN /\ newest[g] < MaxRotations
       /\ newest' = [newest EXCEPT ![g] = @ + 1] /\ grace' = [grace EXCEPT ![g] = TRUE]
       /\ UNCHANGED over
  ELSE /\ over' = IF over[g] = "no" /\ Refused(tok) THEN [over EXCEPT ![g] = "stolen"] ELSE over
       /\ UNCHANGED <<newest, grace>>

Answered(tok) == [grant |-> tok.grant, n |-> IF Fresh(tok) THEN tok.n + 1 ELSE newest[tok.grant]]

\* REFRESH_GRACE_SECONDS, twice the app's time limit on a request.
InTransit == strays # {} \/ \E c \in Callers : task[c].step = "sent"
GraceEnds(g) ==
  /\ grace[g] /\ ~InTransit
  /\ grace' = [grace EXCEPT ![g] = FALSE]
  /\ UNCHANGED <<newest, over, session, task, pc, call, leaving, entering, strays, history>>

\* On the account page, or by a password change.
RevokedElsewhere(g) ==
  /\ newest[g] > 0 /\ over[g] = "no"
  /\ over' = [over EXCEPT ![g] = "revoked"]
  /\ UNCHANGED <<newest, grace, session, task, pc, call, leaving, entering, strays, history>>

StrayArrives(tok) ==
  /\ strays' = strays \ {tok}
  /\ Present(tok) \/ UNCHANGED server
  /\ UNCHANGED <<session, task, pc, call, leaving, entering, history>>

-----------------------------------------------------------------------------
(* Storage.                                                                *)

\* adopt and store: the result of save is discarded.
Keep(tok) ==
  \/ kept' = tok /\ UNCHANGED lost
  \/ kept' = kept /\ lost' = lost \cup {tok.grant}

GrantsOf(item) == {g \in Grants : item # None /\ item.grant = g}

\* clearSession.  A cancelled request may have been sent; one already answered
\* is not cancelled.  The status of the delete is discarded.
ClearSession(tasks) ==
  LET cancelled == {c \in Callers : refreshTask = c /\ tasks[c].step = "sent"} IN
  /\ refreshToken' = None /\ access' = None /\ refreshTask' = None
  /\ kept' \in {None, kept} /\ slips' = slips \cup GrantsOf(kept')
  /\ task' = [c \in Callers |-> IF c \in cancelled THEN [NoTask EXCEPT !.step = "failed"] ELSE tasks[c]]
  /\ strays' = strays \cup {task[c].sent : c \in cancelled}
  /\ lost' = lost \cup {task[c].sent.grant : c \in cancelled}

SessionExpired(tasks) ==
  /\ ClearSession(tasks)
  /\ dropped' = dropped \cup {g \in Grants : refreshToken # None /\ refreshToken.grant = g /\ over[g] = "no"}

-----------------------------------------------------------------------------
(* Authorized work.                                                        *)

To(c, step, now) == pc' = [pc EXCEPT ![c] = step] /\ call' = [call EXCEPT ![c] = now]
Return(c) == To(c, "idle", NoCall)
Operate(c, attempt, a) == To(c, attempt, [NoCall EXCEPT !.attempt = attempt, !.grant = a.grant, !.aged = a.aged])

\* refreshOnce, until its first suspension.
RefreshOnce(c, attempt) ==
  IF refreshTask # None
  THEN To(c, "refresh", [NoCall EXCEPT !.attempt = attempt, !.on = refreshTask]) /\ UNCHANGED <<refreshTask, task>>
  ELSE IF refreshToken = None
  THEN Return(c) /\ UNCHANGED <<refreshTask, task>>
  ELSE /\ \A d \in Callers \ {c} : call[d].on # c  \* its last task has told everyone
       /\ refreshTask' = c
       /\ task' = [task EXCEPT ![c] = [step |-> "sent", sent |-> refreshToken, got |-> None]]
       /\ To(c, "refresh", [NoCall EXCEPT !.attempt = attempt, !.on = c])

\* authorized and currentAccessToken.  The app's clock may see late that a
\* token has aged.
Authorized(c) ==
  /\ pc[c] = "idle" /\ refreshToken # None
  /\ \/ /\ access # None
        /\ Operate(c, "first", access) /\ UNCHANGED <<refreshTask, task>>
     \/ /\ access # [grant |-> refreshToken.grant, aged |-> FALSE]
        /\ RefreshOnce(c, "first")
  /\ UNCHANGED <<server, refreshToken, access, kept, leaving, entering, strays, history>>

\* authorized, of a caller that comes when the session is gone.
AuthorizedLate ==
  /\ refreshToken = None
  /\ ClearSession(task)
  /\ UNCHANGED <<server, pc, call, leaving, entering, dropped>>

\* Between two refreshes pass minutes, and a request takes 15 seconds at most.
Age ==
  /\ access # None /\ ~InTransit
  /\ access' = [access EXCEPT !.aged = TRUE]
  /\ UNCHANGED <<server, refreshToken, kept, refreshTask, task, pc, call, leaving, entering, strays, history>>

Reply(c) ==
  /\ task[c].step = "sent"
  /\ Present(task[c].sent)
  /\ task' = IF Refused(task[c].sent)
             THEN [task EXCEPT ![c] = [NoTask EXCEPT !.step = "refused"]]
             ELSE [task EXCEPT ![c] = [@ EXCEPT !.step = "answered", !.got = Answered(task[c].sent)]]
  /\ UNCHANGED <<session, pc, call, leaving, entering, strays, history>>

\* A network error, a timeout, or another answer than the two above: the request
\* may have been served, or be served yet.
NoReply(c) ==
  /\ task[c].step = "sent"
  /\ \/ UNCHANGED <<server, strays, lost>>
     \/ Present(task[c].sent) /\ lost' = lost \cup {task[c].sent.grant} /\ UNCHANGED strays
     \/ strays' = strays \cup {task[c].sent} /\ lost' = lost \cup {task[c].sent.grant} /\ UNCHANGED server
  /\ task' = [task EXCEPT ![c] = [NoTask EXCEPT !.step = "failed"]]
  /\ UNCHANGED <<session, pc, call, leaving, entering, dropped, slips>>

\* Slip: the refresh token in memory stays the spent one.
Spent(c) == refreshToken

Rotated(c) == task[c].got

\* Slip: what is answered is stored, whatever has become of the session.
GoneNever == FALSE

Gone == refreshToken = None

\* The rest of the task: store, unless the session is gone meanwhile.  Then the
\* rotation is missed, and the keychain may have the spent token yet.
Store(c) ==
  /\ task[c].step = "answered"
  /\ task' = [task EXCEPT ![c] = [@ EXCEPT !.step = "ok", !.sent = None]]
  /\ IF Gone
     THEN lost' = lost \cup {task[c].got.grant} /\ UNCHANGED <<refreshToken, access, kept>>
     ELSE /\ refreshToken' = Rotated(c)
          /\ access' = [grant |-> task[c].got.grant, aged |-> FALSE]
          /\ Keep(task[c].got)
  /\ UNCHANGED <<server, refreshTask, pc, call, leaving, entering, strays, dropped, slips>>

\* A caller has its task's result; the one that made the task forgets it, and
\* ends the session when the server has refused.
Resume(c) ==
  LET t == task[call[c].on]
      maker == call[c].on = c
      last  == \A d \in Callers \ {c} : call[d].on # call[c].on
      tasks == IF last THEN [task EXCEPT ![call[c].on] = NoTask] ELSE task
  IN
  /\ pc[c] = "refresh" /\ t.step \in Ended
  /\ IF t.step = "ok" THEN Operate(c, call[c].attempt, [grant |-> t.got.grant, aged |-> FALSE]) ELSE Return(c)
  /\ IF maker /\ t.step = "refused"
     THEN SessionExpired(tasks)
     ELSE /\ refreshTask' = IF maker THEN None ELSE refreshTask
          /\ task' = tasks
          /\ UNCHANGED <<refreshToken, access, kept, strays, history>>
  /\ UNCHANGED <<server, leaving, entering>>

\* The operation's answer: only the resource server's 401 matters here.
Unauthenticated(c) == call[c].aged \/ over[call[c].grant] # "no"

OperationAnswered(c) ==
  /\ pc[c] \in {"first", "again"}
  /\ Return(c)
  /\ UNCHANGED <<server, session, task, leaving, entering, strays, history>>

FirstRefused(c) ==
  /\ pc[c] = "first" /\ Unauthenticated(c)
  /\ RefreshOnce(c, "again")
  /\ UNCHANGED <<server, refreshToken, access, kept, leaving, entering, strays, history>>

SecondRefused(c) ==
  /\ pc[c] = "again" /\ Unauthenticated(c)
  /\ Return(c) /\ SessionExpired(task)
  /\ UNCHANGED <<server, leaving, entering>>

-----------------------------------------------------------------------------
(* Entering and leaving.                                                   *)

\* The tokens are redeemed; what comes before leaves no trace in the app.
SignIn(g) ==
  /\ entering = None /\ refreshToken = None /\ newest[g] = 0
  /\ entering' = g
  /\ newest' = [newest EXCEPT ![g] = 1]
  /\ UNCHANGED <<grace, over, session, task, pc, call, leaving, strays, history>>

\* What was due to run when the session ended has run long before.
Settled == \A c \in Callers : task[c].step # "answered" /\ (pc[c] = "refresh" => task[call[c].on].step = "sent")

Adopt ==
  /\ entering # None /\ Settled
  /\ entering' = None
  /\ refreshToken' = [grant |-> entering, n |-> 1] /\ access' = [grant |-> entering, aged |-> FALSE]
  /\ Keep([grant |-> entering, n |-> 1])
  /\ UNCHANGED <<server, refreshTask, task, pc, call, leaving, strays, dropped, slips>>

SignInFails ==
  /\ entering # None
  /\ entering' = None
  /\ UNCHANGED <<server, session, task, pc, call, leaving, strays, history>>

LogOut ==
  /\ refreshToken # None /\ leaving = None
  /\ leaving' = refreshToken
  /\ UNCHANGED <<server, session, task, pc, call, entering, strays, history>>

Revoke ==
  /\ leaving # None /\ over[leaving.grant] = "no"
  /\ over' = [over EXCEPT ![leaving.grant] = "revoked"]
  /\ UNCHANGED <<newest, grace, session, task, pc, call, leaving, entering, strays, history>>

LoggedOut ==
  /\ leaving # None
  /\ leaving' = None
  /\ ClearSession(task)
  /\ UNCHANGED <<server, pc, call, entering, dropped>>

\* The app is killed and started: init.  A read that fails is as if there were
\* nothing to read.
Restart ==
  LET cut == {c \in Callers : task[c].step \in {"sent", "answered"}} IN
  /\ refreshToken' \in {None, kept} /\ access' = None /\ refreshTask' = None
  /\ slips' = IF refreshToken' = None THEN slips \cup GrantsOf(kept) ELSE slips \ GrantsOf(kept)
  /\ strays' = strays \cup {task[c].sent : c \in {d \in cut : task[d].step = "sent"}}
  /\ lost' = lost \cup {task[c].sent.grant : c \in cut}
  /\ task' = [c \in Callers |-> NoTask]
  /\ pc' = [c \in Callers |-> "idle"] /\ call' = [c \in Callers |-> NoCall]
  /\ leaving' = None /\ entering' = None
  /\ UNCHANGED <<server, kept, dropped>>

Next ==
  \/ \E g \in Grants : GraceEnds(g) \/ RevokedElsewhere(g) \/ SignIn(g)
  \/ \E tok \in strays : StrayArrives(tok)
  \/ \E c \in Callers :
       Authorized(c) \/ Reply(c) \/ NoReply(c) \/ Store(c) \/ Resume(c)
         \/ OperationAnswered(c) \/ FirstRefused(c) \/ SecondRefused(c)
  \/ AuthorizedLate \/ Age \/ Adopt \/ SignInFails \/ LogOut \/ Revoke \/ LoggedOut \/ Restart

Spec == Init /\ [][Next]_vars

-----------------------------------------------------------------------------
(* Correctness.                                                            *)

\* However calls, refreshes, restarts and sign-outs fall together, the server
\* takes the app for a thief only after an answer, or a save, of the app was
\* lost (refreshOnce, rotateRefresh).
TheftNeedsLoss == \A g \in Grants : over[g] = "stolen" => g \in lost

\* "signs out only when the server rejects the refresh token"
\* (SessionController.swift:12): no call ends the session of a grant that the
\* server has not ended.
ExpiredForCause == dropped = {}
=============================================================================
