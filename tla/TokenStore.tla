----------------------------- MODULE TokenStore -----------------------------
(***************************************************************************)
(* The token endpoint and the grant tables behind it: oauth/token.ts over  *)
(* oauth/store.ts, with the sealed responses of oauth/sealed.ts.           *)
(*                                                                         *)
(* Each request is a process.  A step is one SQL statement, or one call to *)
(* the sealed store, of one request: PostgreSQL runs at READ COMMITTED, so *)
(* between two statements of a transaction any other transaction may       *)
(* commit.  Writes of a transaction take effect for the others at its      *)
(* commit; until then the rows it touched are locked.  A statement reads   *)
(* the rows committed when it starts (its snapshot).  One that has to wait *)
(* for a row lock goes on with the newest version of that row, and with    *)
(* its old snapshot of every other row.                                    *)
(***************************************************************************)
EXTENDS Naturals, FiniteSets

CONSTANTS Codes,        \* authorization codes already issued
          Grants,       \* ids newId('grant') may draw
          Tokens,       \* pairs mint() may draw: an access token and its refresh token
          Requests,     \* requests in flight at once
          None,         \* NULL, or no row
          SharedStore,  \* TRUE: sealed responses live in Redis; FALSE: in the process
          Expiring      \* bound: the codes and pairs whose lifetime may end in the run

ASSUME NoneIsNoId == None \notin Codes \cup Grants \cup Tokens \cup Requests
ASSUME SharedStoreIsBool == SharedStore \in BOOLEAN

VARIABLES
  \* oauth_authorization_codes
  spent,       \* consumed_at IS NOT NULL
  codeLife,    \* "live", "expired" or "pruned" (the row is deleted)
  codeGrant,   \* grant_id
  replayed,    \* history: codes refused once as already used
  \* oauth_grants
  origin,      \* the code the grant was established from; None: no such grant
  revoked,     \* revoked_at IS NOT NULL
  announced,   \* grants whose 'grant.revoked' event was published
  \* oauth_access_tokens, oauth_refresh_tokens
  family,      \* grant_id of the pair's rows (kept when they are deleted)
  accessRows,  \* pairs whose access token row exists
  refreshRows, \* pairs whose refresh token row exists
  replacedBy,  \* replaced_by of the refresh token
  refRevoked,  \* refresh tokens with revoked_at set
  graceOver,   \* refresh tokens replaced more than REFRESH_GRACE_SECONDS ago
  refExpired,  \* refresh tokens past expires_at
  sealed,      \* sealed[t]: the response sealed under refresh token t
  \* the requests
  pc,          \* the statement a request runs next
  code,        \* the code it presented
  tok,         \* the refresh token it presented
  client,      \* "own", "other" (client_id) or "wrongKey" (DPoP)
  grant,       \* the grant it establishes or revokes
  minted,      \* the pair it has drawn
  snap,        \* what its SELECT read of rows it does not lock
  held,        \* refresh rows it has locked
  holdsGrant,  \* its lock on the row of grant: "none", "update" or "forUpdate"
  doomed,      \* access rows its DELETE removed, uncommitted
  todo,        \* refresh rows its UPDATE has still to lock
  answer       \* the pair its response carried

codeVars  == <<spent, codeLife, codeGrant, replayed>>
grantVars == <<origin, revoked, announced>>
pairVars  == <<family, accessRows, refreshRows, replacedBy, refRevoked>>
timeVars  == <<graceOver, refExpired>>
argVars   == <<code, tok, client, grant, minted, snap>>
lockVars  == <<held, holdsGrant, doomed, todo>>
tables    == <<codeVars, grantVars, pairVars, timeVars>>
vars      == <<tables, sealed, pc, argVars, lockVars, answer>>

NoSnap == [ended |-> FALSE, used |-> FALSE, late |-> FALSE]

Steps == {"idle", "consume", "lookup", "establish",
          "lockRefresh", "issue", "seal", "commitRotation", "unseal",
          "lockGrant", "updateGrant", "deleteAccess", "scanRefresh",
          "updateRefresh", "commitRevoke"}

\* The steps that run inside a transaction (store.ts).
InTransaction == Steps \ {"idle", "consume", "lookup", "unseal"}

TablesOK ==
  /\ spent \subseteq Codes
  /\ codeLife \in [Codes -> {"live", "expired", "pruned"}]
  /\ codeGrant \in [Codes -> Grants \cup {None}]
  /\ replayed \subseteq Codes
  /\ origin \in [Grants -> Codes \cup {None}]
  /\ revoked \subseteq Grants
  /\ announced \subseteq Grants
  /\ family \in [Tokens -> Grants \cup {None}]
  /\ accessRows \subseteq Tokens
  /\ refreshRows \subseteq Tokens
  /\ replacedBy \in [Tokens -> Tokens \cup {None}]
  /\ refRevoked \subseteq Tokens
  /\ graceOver \subseteq Tokens
  /\ refExpired \subseteq Tokens
  /\ sealed \in [Tokens -> Tokens \cup {None}]

RequestsOK ==
  /\ pc \in [Requests -> Steps]
  /\ code \in [Requests -> Codes \cup {None}]
  /\ tok \in [Requests -> Tokens \cup {None}]
  /\ client \in [Requests -> {"own", "other", "wrongKey"}]
  /\ grant \in [Requests -> Grants \cup {None}]
  /\ minted \in [Requests -> Tokens \cup {None}]
  /\ snap \in [Requests -> [ended : BOOLEAN, used : BOOLEAN, late : BOOLEAN]]
  /\ held \in [Requests -> SUBSET Tokens]
  /\ holdsGrant \in [Requests -> {"none", "update", "forUpdate"}]
  /\ doomed \in [Requests -> SUBSET Tokens]
  /\ todo \in [Requests -> SUBSET Tokens]
  /\ answer \in [Requests -> Tokens \cup {None}]

TypeOK == TablesOK /\ RequestsOK

Init ==
  /\ spent = {}
  /\ codeLife = [c \in Codes |-> "live"]
  /\ codeGrant = [c \in Codes |-> None]
  /\ replayed = {}
  /\ origin = [g \in Grants |-> None]
  /\ revoked = {}
  /\ announced = {}
  /\ family = [t \in Tokens |-> None]
  /\ accessRows = {}
  /\ refreshRows = {}
  /\ replacedBy = [t \in Tokens |-> None]
  /\ refRevoked = {}
  /\ graceOver = {}
  /\ refExpired = {}
  /\ sealed = [t \in Tokens |-> None]
  /\ pc = [p \in Requests |-> "idle"]
  /\ code = [p \in Requests |-> None]
  /\ tok = [p \in Requests |-> None]
  /\ client = [p \in Requests |-> "own"]
  /\ grant = [p \in Requests |-> None]
  /\ minted = [p \in Requests |-> None]
  /\ snap = [p \in Requests |-> NoSnap]
  /\ held = [p \in Requests |-> {}]
  /\ holdsGrant = [p \in Requests |-> "none"]
  /\ doomed = [p \in Requests |-> {}]
  /\ todo = [p \in Requests |-> {}]
  /\ answer = [p \in Requests |-> None]

-----------------------------------------------------------------------------
(* Ids, locks and the end of a request.                                    *)

SpareTokens == {t \in Tokens : family[t] = None /\ \A q \in Requests : minted[q] # t}
SpareGrants == {g \in Grants : origin[g] = None /\ \A q \in Requests : grant[q] # g}

Goto(p, s) == pc' = [pc EXCEPT ![p] = s]

\* Row locks end with the transaction.
ReleaseLocks(p) ==
  /\ held' = [held EXCEPT ![p] = {}]
  /\ holdsGrant' = [holdsGrant EXCEPT ![p] = "none"]
  /\ doomed' = [doomed EXCEPT ![p] = {}]
  /\ todo' = [todo EXCEPT ![p] = {}]

\* The request is answered: with pair t, or with an error when t is None.
\* What it presented stays in tok, beside its answer, until the next request.
Respond(p, t) ==
  /\ Goto(p, "idle")
  /\ answer' = [answer EXCEPT ![p] = t]
  /\ tok' = [tok EXCEPT ![p] = IF t = None THEN None ELSE @]
  /\ code' = [code EXCEPT ![p] = None]
  /\ client' = [client EXCEPT ![p] = "own"]
  /\ grant' = [grant EXCEPT ![p] = None]
  /\ minted' = [minted EXCEPT ![p] = None]
  /\ snap' = [snap EXCEPT ![p] = IF t = None THEN NoSnap ELSE @]
  /\ ReleaseLocks(p)

Refuse(p) == Respond(p, None)

\* Slip: a theft is answered on another connection of the pool, which waits for
\* the row that the request itself has locked.
RefreshRowFreeOfAll(p, t) == \A q \in Requests : t \notin held[q]

\* Nobody else has locked the row of refresh token t.
RefreshRowFree(p, t) == \A q \in Requests \ {p} : t \notin held[q]

\* INSERT INTO oauth_access_tokens takes FOR KEY SHARE on the grant's row (its
\* foreign key), which only a FOR UPDATE lock conflicts with.
SharesGrant(q, g) ==
  /\ pc[q] \in {"seal", "commitRotation"}
  /\ family[tok[q]] = g

OwnsGrantRow(q, g) == holdsGrant[q] # "none" /\ grant[q] = g

-----------------------------------------------------------------------------
(* POST /token, grant_type=authorization_code: exchangeCode.               *)

StartExchange(p, c) ==
  /\ pc[p] = "idle"
  /\ Goto(p, "consume")
  /\ code' = [code EXCEPT ![p] = c]
  /\ tok' = [tok EXCEPT ![p] = None]
  /\ snap' = [snap EXCEPT ![p] = NoSnap]
  /\ answer' = [answer EXCEPT ![p] = None]
  /\ UNCHANGED <<tables, sealed, client, grant, minted, lockVars>>

\* Slip: the UPDATE lacks "consumed_at IS NULL".
ConsumableTwice(c) == codeLife[c] = "live"

\* The row the UPDATE of consumeAuthorizationCode matches.
Consumable(c) == c \notin spent /\ codeLife[c] = "live"

\* The UPDATE flips the code; the client, redirect_uri, PKCE, resource and key
\* all match, so a grant id and a pair are drawn for it.
ConsumeFresh(p) ==
  /\ pc[p] = "consume"
  /\ Consumable(code[p])
  /\ spent' = spent \cup {code[p]}
  /\ \E g \in SpareGrants, t \in SpareTokens :
       /\ grant' = [grant EXCEPT ![p] = g]
       /\ minted' = [minted EXCEPT ![p] = t]
  /\ Goto(p, "establish")
  /\ UNCHANGED <<codeLife, codeGrant, replayed, grantVars, pairVars, timeVars, sealed,
                 code, tok, client, snap, lockVars, answer>>

\* The UPDATE flips the code, but something it is bound to does not match: the
\* code is burned and the request refused.
ConsumeAndRefuse(p) ==
  /\ pc[p] = "consume"
  /\ Consumable(code[p])
  /\ spent' = spent \cup {code[p]}
  /\ Refuse(p)
  /\ UNCHANGED <<codeLife, codeGrant, replayed, grantVars, pairVars, timeVars, sealed>>

\* The UPDATE matched nothing; a SELECT will tell why.
ConsumeMiss(p) ==
  /\ pc[p] = "consume"
  /\ ~Consumable(code[p])
  /\ Goto(p, "lookup")
  /\ UNCHANGED <<tables, sealed, argVars, lockVars, answer>>

\* The SELECT finds an unknown or an expired code.
LookupUnusable(p) ==
  /\ pc[p] = "lookup"
  /\ codeLife[code[p]] = "pruned" \/ code[p] \notin spent
  /\ Refuse(p)
  /\ UNCHANGED <<tables, sealed>>

\* The SELECT finds a code already consumed.
Replayed(p) ==
  /\ pc[p] = "lookup"
  /\ codeLife[code[p]] # "pruned" /\ code[p] \in spent
  /\ replayed' = replayed \cup {code[p]}
  /\ UNCHANGED <<spent, codeLife, codeGrant, grantVars, pairVars, timeVars, sealed>>

\* The row names no grant (the exchange was refused, or is not done yet): the
\* replay is refused and nothing is revoked.
LookupReplay(p) ==
  /\ Replayed(p)
  /\ codeGrant[code[p]] = None
  /\ Refuse(p)

\* Slip: a code without a grant revokes whatever its grant_id holds.
LookupReplayOfAny(p) ==
  /\ Replayed(p)
  /\ grant' = [grant EXCEPT ![p] = codeGrant[code[p]]]
  /\ Goto(p, "updateGrant")
  /\ UNCHANGED <<code, tok, client, minted, snap, lockVars, answer>>

\* Slip: the grant is guessed from the account and the client.
LookupReplayGuess(p) ==
  /\ Replayed(p)
  /\ \E g \in Grants : origin[g] # None /\ grant' = [grant EXCEPT ![p] = g]
  /\ Goto(p, "updateGrant")
  /\ UNCHANGED <<code, tok, client, minted, snap, lockVars, answer>>

\* The grant the code produced is revoked before the refusal.
LookupReplayOfGrant(p) ==
  /\ Replayed(p)
  /\ codeGrant[code[p]] # None
  /\ grant' = [grant EXCEPT ![p] = codeGrant[code[p]]]
  /\ Goto(p, "updateGrant")
  /\ UNCHANGED <<code, tok, client, minted, snap, lockVars, answer>>

\* establishGrant commits: grant, code.grant_id and the first pair together.
\* Nobody can see or wait for the new rows before, so the transaction is one
\* step.  The pair has a refresh token unless the grant lacks offline access.
EstablishGrant(p) ==
  /\ pc[p] = "establish"
  /\ origin' = [origin EXCEPT ![grant[p]] = code[p]]
  /\ codeGrant' = [codeGrant EXCEPT ![code[p]] =
                     IF codeLife[code[p]] = "pruned" THEN @ ELSE grant[p]]
  /\ family' = [family EXCEPT ![minted[p]] = grant[p]]
  /\ accessRows' = accessRows \cup {minted[p]}
  /\ refreshRows' \in {refreshRows, refreshRows \cup {minted[p]}}
  /\ Respond(p, minted[p])
  /\ UNCHANGED <<spent, codeLife, replayed, revoked, announced, replacedBy, refRevoked,
                 timeVars, sealed>>

-----------------------------------------------------------------------------
(* POST /token, grant_type=refresh_token: rotateRefresh.                   *)

\* EXISTS (... s.token_hash = r.replaced_by AND (replaced or revoked)).
SuccessorUsed(t) ==
  /\ replacedBy[t] \in refreshRows
  /\ replacedBy[replacedBy[t]] # None \/ replacedBy[t] \in refRevoked

\* BEGIN, and the SELECT ... FOR UPDATE OF r takes its snapshot.  now() is the
\* start of the transaction, so the grace window is judged here too.
StartRotate(p, t, who) ==
  /\ pc[p] = "idle"
  /\ t \in refreshRows
  /\ Goto(p, "lockRefresh")
  /\ tok' = [tok EXCEPT ![p] = t]
  /\ client' = [client EXCEPT ![p] = who]
  /\ snap' = [snap EXCEPT ![p] = [ended |-> family[t] \in revoked,
                                  used |-> SuccessorUsed(t),
                                  late |-> t \in graceOver]]
  /\ answer' = [answer EXCEPT ![p] = None]
  /\ UNCHANGED <<tables, sealed, code, grant, minted, lockVars>>

\* Slip: the SELECT lacks FOR UPDATE.
HasRefreshRowUnlocked(p) == pc[p] = "lockRefresh"

\* The row lock is granted: the columns of r are read afresh, those of the
\* grant and of the successor are the snapshot's.
HasRefreshRow(p) == pc[p] = "lockRefresh" /\ RefreshRowFree(p, tok[p])

\* Slip: the revocation of the grant is not looked at.
DeadIgnoringGrant(p) == tok[p] \in refRevoked \/ tok[p] \in refExpired

Dead(p) == tok[p] \in refRevoked \/ snap[p].ended \/ tok[p] \in refExpired

\* The pruned row, the wrong key, a replaced token of a revoked grant, a dead
\* token, and another client's; or a resource or scope the grant does not carry.
RotateRefused(p) ==
  /\ HasRefreshRow(p)
  /\ \/ tok[p] \notin refreshRows
     \/ client[p] = "wrongKey"
     \/ replacedBy[tok[p]] # None /\ snap[p].ended
     \/ replacedBy[tok[p]] = None
  /\ Refuse(p)
  /\ UNCHANGED <<tables, sealed>>

\* Slip: the window is read the wrong way round.
BenignAfterWindow(p) == snap[p].late /\ ~snap[p].used /\ client[p] = "own"

BenignDuplicate(p) == ~snap[p].late /\ ~snap[p].used /\ client[p] = "own"

\* A duplicate in the grace window: the transaction ends and the sealed
\* response is looked up.
RotateReplay(p) ==
  /\ HasRefreshRow(p)
  /\ tok[p] \in refreshRows
  /\ client[p] # "wrongKey"
  /\ replacedBy[tok[p]] # None /\ ~snap[p].ended
  /\ BenignDuplicate(p)
  /\ Goto(p, "unseal")
  /\ UNCHANGED <<tables, sealed, argVars, lockVars, answer>>

\* Any other second presentation is theft: the transaction keeps the row locked
\* and goes on to revoke the grant.
RotateTheft(p) ==
  /\ HasRefreshRow(p)
  /\ tok[p] \in refreshRows
  /\ client[p] # "wrongKey"
  /\ replacedBy[tok[p]] # None /\ ~snap[p].ended
  /\ ~BenignDuplicate(p)
  /\ held' = [held EXCEPT ![p] = {tok[p]}]
  /\ grant' = [grant EXCEPT ![p] = family[tok[p]]]
  /\ Goto(p, "updateGrant")
  /\ UNCHANGED <<tables, sealed, code, tok, client, minted, snap, holdsGrant, doomed, todo, answer>>

\* Slip: a token already replaced is rotated again.
RotateAcceptReplaced(p) ==
  /\ HasRefreshRow(p)
  /\ tok[p] \in refreshRows /\ ~Dead(p)
  /\ client[p] = "own"
  /\ \E n \in SpareTokens : minted' = [minted EXCEPT ![p] = n]
  /\ held' = [held EXCEPT ![p] = {tok[p]}]
  /\ Goto(p, "issue")
  /\ UNCHANGED <<tables, sealed, code, tok, client, grant, snap, holdsGrant, doomed, todo, answer>>

\* The token is live: a new pair is drawn for it.
RotateAccept(p) ==
  /\ HasRefreshRow(p)
  /\ tok[p] \in refreshRows
  /\ replacedBy[tok[p]] = None /\ ~Dead(p)
  /\ client[p] = "own"
  /\ \E n \in SpareTokens : minted' = [minted EXCEPT ![p] = n]
  /\ held' = [held EXCEPT ![p] = {tok[p]}]
  /\ Goto(p, "issue")
  /\ UNCHANGED <<tables, sealed, code, tok, client, grant, snap, holdsGrant, doomed, todo, answer>>

\* Slip: the response is not sealed before the commit.
IssueWithoutSeal(p) ==
  /\ pc[p] = "issue"
  /\ Goto(p, "commitRotation")
  /\ UNCHANGED <<tables, sealed, argVars, lockVars, answer>>

\* issueTokens inserts both rows and the old token is retired; all of it still
\* uncommitted.  The insert waits while somebody has the grant FOR UPDATE.
IssueTokens(p) ==
  /\ pc[p] = "issue"
  /\ \A q \in Requests : ~(holdsGrant[q] = "forUpdate" /\ grant[q] = family[tok[p]])
  /\ Goto(p, "seal")
  /\ UNCHANGED <<tables, sealed, argVars, lockVars, answer>>

\* Slip: the first sealed response wins (SET ... NX).
SealOnce(p) ==
  /\ pc[p] = "seal"
  /\ sealed' = [sealed EXCEPT ![tok[p]] = IF @ = None THEN minted[p] ELSE @]
  /\ Goto(p, "commitRotation")
  /\ UNCHANGED <<tables, argVars, lockVars, answer>>

\* The response is sealed under the presented token before the commit.
Seal(p) ==
  /\ pc[p] = "seal"
  /\ sealed' = [sealed EXCEPT ![tok[p]] = minted[p]]
  /\ Goto(p, "commitRotation")
  /\ UNCHANGED <<tables, argVars, lockVars, answer>>

\* The rotation as the other transactions see it; the response may be lost with
\* the connection after the database has committed.
CommitRotation(p) ==
  /\ pc[p] = "commitRotation"
  /\ family' = [family EXCEPT ![minted[p]] = family[tok[p]]]
  /\ accessRows' = accessRows \cup {minted[p]}
  /\ refreshRows' = refreshRows \cup {minted[p]}
  /\ replacedBy' = [replacedBy EXCEPT ![tok[p]] = IF @ = None THEN minted[p] ELSE @]
  /\ \E t \in {minted[p], None} : Respond(p, t)
  /\ UNCHANGED <<codeVars, grantVars, refRevoked, timeVars, sealed>>

\* The duplicate is answered with the sealed pair; refused when it is gone.
Unseal(p) ==
  /\ pc[p] = "unseal"
  /\ Respond(p, sealed[tok[p]])
  /\ UNCHANGED <<tables, sealed>>

-----------------------------------------------------------------------------
(* Revocation: revokeGrant inside the transactions that call it.           *)

\* readRefreshToken, of whatever state the row is; and the same of an access token.
ReadRefreshToken(t) == t \in refreshRows
ReadAccessToken(t) == t \in accessRows

\* revokeByRefreshToken, revokeByAccessToken: a SELECT finds the grant, then
\* revokeGrantNow opens a transaction.
StartRevoke(p, t) ==
  /\ pc[p] = "idle"
  /\ ReadRefreshToken(t) \/ ReadAccessToken(t)
  /\ Goto(p, "updateGrant")
  /\ grant' = [grant EXCEPT ![p] = family[t]]
  /\ tok' = [tok EXCEPT ![p] = None]
  /\ snap' = [snap EXCEPT ![p] = NoSnap]
  /\ answer' = [answer EXCEPT ![p] = None]
  /\ UNCHANGED <<tables, sealed, code, client, minted, lockVars>>

\* revokeConnectedApp: the account page asks for the grant FOR UPDATE first.
StartDisconnect(p, g) ==
  /\ pc[p] = "idle"
  /\ origin[g] # None /\ g \notin revoked
  /\ Goto(p, "lockGrant")
  /\ grant' = [grant EXCEPT ![p] = g]
  /\ tok' = [tok EXCEPT ![p] = None]
  /\ snap' = [snap EXCEPT ![p] = NoSnap]
  /\ answer' = [answer EXCEPT ![p] = None]
  /\ UNCHANGED <<tables, sealed, code, client, minted, lockVars>>

\* Nobody has locked the row, not even with the key share of an insert.
GrantRowFree(p) ==
  \A q \in Requests \ {p} : ~OwnsGrantRow(q, grant[p]) /\ ~SharesGrant(q, grant[p])

LockGrant(p) ==
  /\ pc[p] = "lockGrant"
  /\ GrantRowFree(p)
  /\ grant[p] \notin revoked
  /\ holdsGrant' = [holdsGrant EXCEPT ![p] = "forUpdate"]
  /\ Goto(p, "updateGrant")
  /\ UNCHANGED <<tables, sealed, argVars, held, doomed, todo, answer>>

\* It was revoked meanwhile: nothing to disconnect.
DisconnectNothing(p) ==
  /\ pc[p] = "lockGrant"
  /\ GrantRowFree(p)
  /\ grant[p] \in revoked
  /\ Refuse(p)
  /\ UNCHANGED <<tables, sealed>>

\* UPDATE oauth_grants ... AND revoked_at IS NULL: no row, and no lock, when the
\* grant is revoked already.
UpdateGrant(p) ==
  /\ pc[p] = "updateGrant"
  /\ IF grant[p] \in revoked
     THEN UNCHANGED holdsGrant
     ELSE /\ \A q \in Requests \ {p} : ~OwnsGrantRow(q, grant[p])
          /\ holdsGrant' = [holdsGrant EXCEPT ![p] = IF @ = "none" THEN "update" ELSE @]
  /\ Goto(p, "deleteAccess")
  /\ UNCHANGED <<tables, sealed, argVars, held, doomed, todo, answer>>

AccessRowsOf(g) == {t \in accessRows : family[t] = g}

\* DELETE FROM oauth_access_tokens: the rows committed by now, once nobody else
\* is deleting them.
DeleteAccess(p) ==
  /\ pc[p] = "deleteAccess"
  /\ \A q \in Requests \ {p} : doomed[q] \cap AccessRowsOf(grant[p]) = {}
  /\ doomed' = [doomed EXCEPT ![p] = AccessRowsOf(grant[p])]
  /\ Goto(p, "scanRefresh")
  /\ UNCHANGED <<tables, sealed, argVars, held, holdsGrant, todo, answer>>

\* UPDATE oauth_refresh_tokens starts: the rows its snapshot matches.
ScanRefresh(p) ==
  /\ pc[p] = "scanRefresh"
  /\ todo' = [todo EXCEPT ![p] = {t \in refreshRows \ refRevoked : family[t] = grant[p]}]
  /\ Goto(p, "updateRefresh")
  /\ UNCHANGED <<tables, sealed, argVars, held, holdsGrant, doomed, answer>>

\* One of those rows is locked and updated, unless it was revoked or deleted
\* while the statement waited for it.
UpdateRefresh(p, t) ==
  /\ pc[p] = "updateRefresh"
  /\ t \in todo[p]
  /\ RefreshRowFree(p, t)
  /\ todo' = [todo EXCEPT ![p] = @ \ {t}]
  /\ held' = [held EXCEPT ![p] = IF t \in refreshRows \ refRevoked THEN @ \cup {t} ELSE @]
  /\ UNCHANGED <<tables, sealed, pc, argVars, holdsGrant, doomed, answer>>

\* Slip: only a revocation that found a live refresh token is published.
AnnounceIfFound(p) ==
  /\ pc[p] = "updateRefresh"
  /\ todo[p] = {}
  /\ announced' = IF held[p] = {} THEN announced ELSE announced \cup {grant[p]}
  /\ Goto(p, "commitRevoke")
  /\ UNCHANGED <<codeVars, origin, revoked, pairVars, timeVars, sealed, argVars, lockVars, answer>>

\* grantRevoked: the event goes out before the transaction commits.
Announce(p) ==
  /\ pc[p] = "updateRefresh"
  /\ todo[p] = {}
  /\ announced' = announced \cup {grant[p]}
  /\ Goto(p, "commitRevoke")
  /\ UNCHANGED <<codeVars, origin, revoked, pairVars, timeVars, sealed, argVars, lockVars, answer>>

CommitRevoke(p) ==
  /\ pc[p] = "commitRevoke"
  /\ revoked' = revoked \cup {grant[p]}
  /\ accessRows' = accessRows \ doomed[p]
  /\ refRevoked' = refRevoked \cup (held[p] \cap refreshRows)
  /\ Refuse(p)
  /\ UNCHANGED <<codeVars, origin, announced, family, refreshRows, replacedBy, timeVars, sealed>>

-----------------------------------------------------------------------------
(* Failures, time and housekeeping.                                        *)

\* A statement fails, or its connection does (pg.ts): ROLLBACK and an error.
Abort(p) ==
  /\ pc[p] \in InTransaction
  /\ Refuse(p)
  /\ UNCHANGED <<tables, sealed>>

\* The process restarts: every request dies with it, and so do the sealed
\* responses unless they are shared.
Restart ==
  /\ pc' = [p \in Requests |-> "idle"]
  /\ code' = [p \in Requests |-> None]
  /\ tok' = [p \in Requests |-> None]
  /\ client' = [p \in Requests |-> "own"]
  /\ grant' = [p \in Requests |-> None]
  /\ minted' = [p \in Requests |-> None]
  /\ snap' = [p \in Requests |-> NoSnap]
  /\ held' = [p \in Requests |-> {}]
  /\ holdsGrant' = [p \in Requests |-> "none"]
  /\ doomed' = [p \in Requests |-> {}]
  /\ todo' = [p \in Requests |-> {}]
  /\ answer' = [p \in Requests |-> None]
  /\ sealed' = IF SharedStore THEN sealed ELSE [t \in Tokens |-> None]
  /\ UNCHANGED tables

CloseGrace(t) ==
  /\ replacedBy[t] # None
  /\ graceOver' = graceOver \cup {t}
  /\ UNCHANGED <<codeVars, grantVars, pairVars, refExpired, sealed, pc, argVars, lockVars, answer>>

\* The seal has the lifetime of the window and is written after it began.
ExpireSeal(t) ==
  /\ t \in graceOver
  /\ sealed' = [sealed EXCEPT ![t] = None]
  /\ UNCHANGED <<tables, pc, argVars, lockVars, answer>>

ExpireCode(c) ==
  /\ c \in Expiring /\ codeLife[c] = "live"
  /\ codeLife' = [codeLife EXCEPT ![c] = "expired"]
  /\ UNCHANGED <<spent, codeGrant, replayed, grantVars, pairVars, timeVars, sealed, pc, argVars,
                 lockVars, answer>>

\* Thirty days against thirty seconds: a refresh token outlives its own grace
\* window and that of the token it replaced.
ExpireRefresh(t) ==
  /\ t \in Expiring /\ family[t] # None
  /\ replacedBy[t] = None \/ t \in graceOver
  /\ \A u \in Tokens : replacedBy[u] = t => u \in graceOver
  /\ refExpired' = refExpired \cup {t}
  /\ UNCHANGED <<codeVars, grantVars, pairVars, graceOver, sealed, pc, argVars, lockVars, answer>>

\* pruneExpiredOAuth, statement by statement; a DELETE waits for locked rows.
\* An access token is refused from its expiry on, as if pruned then.
PruneAccess(t) ==
  /\ t \in Expiring \cap accessRows
  /\ \A q \in Requests : t \notin doomed[q]
  /\ accessRows' = accessRows \ {t}
  /\ UNCHANGED <<codeVars, grantVars, family, refreshRows, replacedBy, refRevoked, timeVars, sealed,
                 pc, argVars, lockVars, answer>>

PruneRefresh ==
  LET gone == refExpired \cap refreshRows IN
  /\ gone # {}
  /\ \A q \in Requests : held[q] \cap gone = {}
  /\ refreshRows' = refreshRows \ gone
  /\ UNCHANGED <<codeVars, grantVars, family, accessRows, replacedBy, refRevoked, timeVars, sealed,
                 pc, argVars, lockVars, answer>>

PruneCodes ==
  /\ \E c \in Codes : codeLife[c] = "expired"
  /\ codeLife' = [c \in Codes |-> IF codeLife[c] = "expired" THEN "pruned" ELSE codeLife[c]]
  /\ UNCHANGED <<spent, codeGrant, replayed, grantVars, pairVars, timeVars, sealed, pc, argVars,
                 lockVars, answer>>

-----------------------------------------------------------------------------
Exchange(p) ==
  \/ \E c \in Codes : StartExchange(p, c)
  \/ ConsumeFresh(p) \/ ConsumeAndRefuse(p) \/ ConsumeMiss(p)
  \/ LookupUnusable(p) \/ LookupReplay(p) \/ LookupReplayOfGrant(p)
  \/ EstablishGrant(p)

Rotate(p) ==
  \/ \E t \in Tokens, who \in {"own", "other", "wrongKey"} : StartRotate(p, t, who)
  \/ RotateRefused(p) \/ RotateReplay(p) \/ RotateTheft(p) \/ RotateAccept(p)
  \/ IssueTokens(p) \/ Seal(p) \/ CommitRotation(p) \/ Unseal(p)

\* POST /token.
Token(p) == Exchange(p) \/ Rotate(p)

Revoke(p) ==
  \/ \E t \in Tokens : StartRevoke(p, t)
  \/ \E g \in Grants : StartDisconnect(p, g)
  \/ LockGrant(p) \/ DisconnectNothing(p) \/ UpdateGrant(p) \/ DeleteAccess(p)
  \/ ScanRefresh(p)
  \/ \E t \in Tokens : UpdateRefresh(p, t)
  \/ Announce(p) \/ CommitRevoke(p)

Time ==
  \/ \E t \in Tokens : CloseGrace(t) \/ ExpireSeal(t) \/ ExpireRefresh(t) \/ PruneAccess(t)
  \/ \E c \in Codes : ExpireCode(c)
  \/ PruneRefresh \/ PruneCodes

Next ==
  \/ \E p \in Requests : Token(p) \/ Revoke(p) \/ Abort(p)
  \/ Restart
  \/ Time

Spec == Init /\ [][Next]_vars

(* Lock waits.  PostgreSQL looks for a cycle of waiting transactions and    *)
(* aborts one of them; nothing else in the code resolves one.              *)

BlockedBy(p) ==
  LET Owners == {q \in Requests \ {p} : OwnsGrantRow(q, grant[p])} IN
  CASE pc[p] = "lockRefresh" -> {q \in Requests \ {p} : tok[p] \in held[q]}
    [] pc[p] = "issue" -> {q \in Requests : holdsGrant[q] = "forUpdate" /\ grant[q] = family[tok[p]]}
    [] pc[p] = "lockGrant" -> Owners \cup {q \in Requests \ {p} : SharesGrant(q, grant[p])}
    [] pc[p] = "updateGrant" -> IF grant[p] \in revoked THEN {} ELSE Owners
    [] pc[p] = "deleteAccess" -> {q \in Requests \ {p} : doomed[q] \cap AccessRowsOf(grant[p]) # {}}
    [] pc[p] = "updateRefresh" /\ todo[p] # {} /\ \A t \in todo[p] : ~RefreshRowFree(p, t) ->
         {q \in Requests \ {p} : todo[p] \cap held[q] # {}}
    [] OTHER -> {}

\* p waits, directly or not, for itself.
Deadlocked(p) ==
  \E S \in SUBSET Requests :
    /\ p \in S
    /\ \A q \in S : BlockedBy(q) \cap S # {}

BreakDeadlock(p) == Deadlocked(p) /\ Abort(p)

\* The steps a request takes once it has begun.
Proceed(p) ==
  \/ ConsumeFresh(p) \/ ConsumeAndRefuse(p) \/ ConsumeMiss(p)
  \/ LookupUnusable(p) \/ LookupReplay(p) \/ LookupReplayOfGrant(p)
  \/ EstablishGrant(p)
  \/ RotateRefused(p) \/ RotateReplay(p) \/ RotateTheft(p) \/ RotateAccept(p)
  \/ IssueTokens(p) \/ Seal(p) \/ CommitRotation(p) \/ Unseal(p)
  \/ LockGrant(p) \/ DisconnectNothing(p) \/ UpdateGrant(p) \/ DeleteAccess(p)
  \/ ScanRefresh(p)
  \/ \E t \in Tokens : UpdateRefresh(p, t)
  \/ Announce(p) \/ CommitRevoke(p)

\* A statement that is never blocked runs; one that waits for a lock is queued
\* by the database, so it gets its turn (SF); a cycle of waits is broken.
Fairness ==
  \A p \in Requests : SF_vars(Proceed(p)) /\ WF_vars(BreakDeadlock(p))

FairSpec == Spec /\ Fairness

-----------------------------------------------------------------------------
(* Correctness.                                                            *)

\* The refresh tokens of a grant stay one line: at most one of them has not
\* been replaced, however many rotations of one token race (rotateRefresh).
NoFork ==
  \A t, u \in Tokens :
    /\ family[t] # None /\ family[t] = family[u]
    /\ replacedBy[t] = None /\ replacedBy[u] = None
    => t = u

\* A code founds at most one grant, however many redemptions race
\* (consumeAuthorizationCode, establishGrant).
OneGrantPerCode ==
  \A g, h \in Grants : origin[g] # None /\ origin[g] = origin[h] => g = h

\* Every request that presented one refresh token and was answered got the one
\* pair that replaced it: the first rotation, and every duplicate answered from
\* the sealed copy (sealed.ts: "exactly what the first one received"), also
\* when an earlier rotation sealed its response and then rolled back.
AnswersAgree ==
  \A p \in Requests :
    answer[p] # None /\ tok[p] # None => replacedBy[tok[p]] = answer[p]

\* A refresh that began after its grant was revoked is never answered with
\* tokens, neither fresh ones nor the sealed copy.
EndedGrantAnswersNothing ==
  \A p \in Requests : answer[p] # None /\ tok[p] # None => ~snap[p].ended

\* The owner's duplicate is never taken for theft while the window is open and
\* the successor unused, whatever raced with it.
HonestDuplicateIsSafe ==
  \A p \in Requests :
    /\ pc[p] \in {"updateGrant", "deleteAccess", "scanRefresh", "updateRefresh", "commitRevoke"}
    /\ tok[p] # None /\ client[p] = "own"
    => tok[p] \in graceOver \/ SuccessorUsed(tok[p])

\* A replayed code revokes the grant that code produced and no other one
\* (token.ts: "Exactly the grant this code produced").
ReplayEndsItsOwnGrant ==
  \A p \in Requests :
    code[p] # None /\ pc[p] \notin {"consume", "lookup", "establish"} => origin[grant[p]] = code[p]

\* A duplicate of a committed rotation finds its response sealed as long as the
\* window is open (rotateRefresh: "always finds the response already sealed").
\* A per-process store may lose it with the process.
SealedBeforeVisible ==
  SharedStore =>
    \A t \in Tokens :
      replacedBy[t] # None /\ t \notin graceOver => sealed[t] = replacedBy[t]

\* No grant is revoked in the database whose event was not published, so a
\* listener can at worst drop too much (revokeGrant).
RevokedIsAnnounced == revoked \subseteq announced

\* Every request is answered, deadlocks between rotation, theft and revocation
\* included.
RequestsFinish == \A p \in Requests : pc[p] # "idle" ~> pc[p] = "idle"

\* token.ts on a replayed code: "whatever it produced is suspect, so the grant
\* goes with it".  A redemption that was under way when the replay was refused
\* establishes its grant afterwards, and the grant lives.
CodeReplayEndsGrant ==
  \A g \in Grants :
    /\ origin[g] \in replayed
    /\ \A p \in Requests : pc[p] = "idle"
    => g \in revoked

\* The statements of the requests implement the atomic endpoint.
Atomic == INSTANCE TokenFamily WITH ended <- revoked, next <- replacedBy
ImplementsFamily == Atomic!Spec

-----------------------------------------------------------------------------
(* The inductive invariant behind the safety properties and the refinement *)
(* (proved in TokenStoreProofs).                                           *)

Rotating  == {"issue", "seal", "commitRotation"}
Revoking  == {"lockGrant", "updateGrant", "deleteAccess", "scanRefresh", "updateRefresh",
              "commitRevoke"}

\* What a request has at hand at each step.
Locals ==
  \A p \in Requests :
    /\ pc[p] \in {"consume", "lookup", "establish"} => code[p] # None /\ tok[p] = None
    /\ pc[p] \in Rotating \cup {"lockRefresh", "unseal"} => tok[p] # None
    /\ pc[p] \in Rotating \cup {"lockRefresh", "unseal", "idle"} => code[p] = None
    /\ pc[p] \in Rotating \cup {"establish"} => minted[p] # None
    /\ pc[p] \in Revoking => grant[p] # None /\ origin[grant[p]] # None
    /\ pc[p] \in Rotating \cup {"unseal"} => ~snap[p].ended
    /\ pc[p] = "commitRevoke" => grant[p] \in announced

\* A rotation holds the lock of a token that is still the head of its line.
Locking ==
  /\ \A p, q \in Requests : p # q => held[p] \cap held[q] = {}
  /\ \A p \in Requests : pc[p] \in Rotating =>
       tok[p] \in held[p] /\ replacedBy[tok[p]] = None /\ family[tok[p]] # None

\* A drawn pair is nobody else's and is not in the tables yet.
Drawing ==
  /\ \A p \in Requests : minted[p] # None => family[minted[p]] = None
  /\ \A p, q \in Requests : p # q /\ minted[p] # None => minted[p] # minted[q]

\* Rows refer to rows.
References ==
  /\ \A t \in Tokens : family[t] # None => origin[family[t]] # None
  /\ \A t \in Tokens : replacedBy[t] # None => family[t] # None /\ family[replacedBy[t]] # None
  /\ \A t \in accessRows \cup refreshRows : family[t] # None
  /\ \A c \in Codes : codeGrant[c] # None => origin[codeGrant[c]] = c

\* A request about to establish a grant is the only one to have spent its code.
Establishing ==
  /\ \A g \in Grants : origin[g] # None => origin[g] \in spent
  /\ \A p \in Requests : pc[p] = "establish" =>
       /\ code[p] \in spent
       /\ \A g \in Grants : origin[g] # code[p]
       /\ grant[p] # None /\ origin[grant[p]] = None
  /\ \A p, q \in Requests : p # q /\ pc[p] = "establish" /\ pc[q] = "establish" =>
       code[p] # code[q] /\ grant[p] # grant[q]

\* What a rotation read of its grace window and of its successor stays true:
\* rows are pruned long after the windows they matter to.
Reading ==
  /\ \A t \in graceOver : replacedBy[t] # None
  /\ \A t \in refExpired : family[t] # None
  /\ \A t, u \in Tokens : t \in refExpired /\ replacedBy[u] = t => u \in graceOver
  /\ \A p \in Requests : tok[p] # None /\ pc[p] \in Revoking \cup {"lockRefresh"} =>
       /\ snap[p].late => tok[p] \in graceOver
       /\ snap[p].used => tok[p] \in graceOver \/ SuccessorUsed(tok[p])
       /\ pc[p] \in Revoking /\ client[p] = "own" => snap[p].late \/ snap[p].used

\* A sealed response is that of the committed rotation, if there is one.
Sealing ==
  /\ \A t \in Tokens : replacedBy[t] # None => sealed[t] \in {None, replacedBy[t]}
  /\ \A p \in Requests : pc[p] = "commitRotation" =>
       /\ sealed[tok[p]] \in {None, minted[p]}
       /\ SharedStore => sealed[tok[p]] = minted[p]
  /\ \A p \in Requests : pc[p] = "unseal" => replacedBy[tok[p]] # None

IInv ==
  /\ TypeOK
  /\ Locals
  /\ Locking
  /\ Drawing
  /\ References
  /\ Establishing
  /\ Reading
  /\ Sealing
  /\ NoFork
  /\ OneGrantPerCode
  /\ AnswersAgree
  /\ EndedGrantAnswersNothing
  /\ HonestDuplicateIsSafe
  /\ ReplayEndsItsOwnGrant
  /\ SealedBeforeVisible
  /\ RevokedIsAnnounced
=============================================================================
