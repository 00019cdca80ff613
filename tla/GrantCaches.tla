---------------------------- MODULE GrantCaches -----------------------------
(***************************************************************************)
(* What an edge adapter keeps about a grant, and how a revocation reaches  *)
(* it: the introspection answers of split/remote.ts, the internal tokens   *)
(* of exchange-client.ts, and the revocation events of revocation.ts,      *)
(* carried over Redis when the adapter is another process.  A step runs    *)
(* from one await to the next.  Edges share no cache, so one is modelled;  *)
(* its requests interleave.  Time is a discrete clock all processes read.  *)
(***************************************************************************)
EXTENDS Integers

CONSTANTS Grants, Scopes,
          Requests,   \* every request the edge will get; each comes once
          Creds,      \* access tokens
          GrantOf,    \* the grant of each
          Expiry,     \* and when it expires
          None,
          Split,      \* profile M: the edge introspects and caches the answer
          Lossy,      \* events may be lost on their way to the edge
          CacheFor,   \* CACHE_SECONDS
          TokenFor,   \* INTERNAL_TOKEN_TTL_SECONDS
          Margin,     \* REUSE_MARGIN_MS
          Tolerance,  \* clockTolerance of the Device Service
          Lag,        \* time limits of what the exchange awaits before it reads the clock
          Rounding,   \* what a time in whole seconds is off by at most
          MaxClock    \* bound on the clock

ASSUME CredsBelong == GrantOf \in [Creds -> Grants] /\ Expiry \in [Creds -> Nat]
ASSUME TimesAreNat == CacheFor \in Nat /\ TokenFor \in Nat /\ Margin \in Nat /\ Tolerance \in Nat /\
                      Lag \in Nat /\ Rounding \in Nat
ASSUME FlagsAreBool == Split \in BOOLEAN /\ Lossy \in BOOLEAN
ASSUME NoneIsNothing == None \notin Creds \cup Grants \cup Scopes

VARIABLES
  now,
  phase,      \* of each grant: "live", "announced", "committed", "revoked"
  revokedAt,  \* when its revocation committed
  bus,        \* grants named by events on their way to the edge
  heard,      \* history: grants whose event arrived after their revocation
  checks,     \* remote.ts cache: until when a credential needs no introspection
  tokens,     \* exchange-client.ts cache: tokens[g][s]
  pc,
  req,        \* the credential and scope, when the request came, what held then,
              \* when its first token was refused, and when the exchange read the database
  held,       \* the internal token it presents, or what an answer on its way carries
  answer

grantVars == <<phase, revokedAt, bus, heard>>
cacheVars == <<checks, tokens>>
vars == <<now, grantVars, cacheVars, pc, req, held, answer>>

\* A token is kept with what it was minted for; "until" is the edge's own idea
\* of its expiry.
NoToken == [grant |-> None, scope |-> None, cred |-> None, exp |-> 0, life |-> 0, until |-> 0]

NoReq == [cred |-> None, scope |-> None, at |-> 0, revoked |-> FALSE, refusedAt |-> -1, readAt |-> 0]
NoAnswer == [kind |-> "none", at |-> 0]

Phases == {"live", "announced", "committed", "revoked"}
Steps  == {"idle", "introspect", "introspected", "token", "exchanging", "minting", "exchanged", "call", "over"}
Kinds  == {"none", "served", "signIn", "error", "unavailable"}

TokenType == [grant : Grants \cup {None}, scope : Scopes \cup {None}, cred : Creds \cup {None},
              exp : Int, life : Int, until : Int]
ReqType == [cred : Creds \cup {None}, scope : Scopes \cup {None}, at : Nat,
            revoked : BOOLEAN, refusedAt : Int, readAt : Nat]

TypeOK ==
  /\ now \in Nat
  /\ phase \in [Grants -> Phases]
  /\ revokedAt \in [Grants -> Nat]
  /\ bus \subseteq Grants
  /\ heard \subseteq Grants
  /\ checks \in [Creds -> Int]
  /\ tokens \in [Grants -> [Scopes -> TokenType]]
  /\ pc \in [Requests -> Steps]
  /\ req \in [Requests -> ReqType]
  /\ held \in [Requests -> TokenType]
  /\ answer \in [Requests -> [kind : Kinds, at : Nat]]

Init ==
  /\ now = 0
  /\ phase = [g \in Grants |-> "live"]
  /\ revokedAt = [g \in Grants |-> 0]
  /\ bus = {}
  /\ heard = {}
  /\ checks = [c \in Creds |-> 0]
  /\ tokens = [g \in Grants |-> [s \in Scopes |-> NoToken]]
  /\ pc = [r \in Requests |-> "idle"]
  /\ req = [r \in Requests |-> NoReq]
  /\ held = [r \in Requests |-> NoToken]
  /\ answer = [r \in Requests |-> NoAnswer]

Revoked(g) == phase[g] \in {"committed", "revoked"}

\* verifyOAuthAccessToken: the database's answer about a credential.
Valid(c) == now < Expiry[c] /\ ~Revoked(GrantOf[c])

Lesser(a, b) == IF a < b THEN a ELSE b

\* expires_in, rounded to a second.
Remaining(c) == {n \in (Expiry[c] - now - Rounding)..(Expiry[c] - now + Rounding) : n >= 0}

Goto(r, s) == pc' = [pc EXCEPT ![r] = s]

Answer(r, kind) ==
  /\ Goto(r, "over")
  /\ answer' = [answer EXCEPT ![r] = [kind |-> kind, at |-> now]]

-----------------------------------------------------------------------------
(* The edge: who is calling.                                               *)

\* introspect() finds the credential's answer in its cache.
Known(c) == Split /\ checks[c] > now

Receive(r, c, s) ==
  /\ pc[r] = "idle"
  /\ req' = [req EXCEPT ![r] = [cred |-> c, scope |-> s, at |-> now, revoked |-> Revoked(GrantOf[c]),
                                refusedAt |-> -1, readAt |-> 0]]
  /\ Goto(r, IF Known(c) THEN "token" ELSE "introspect")
  /\ UNCHANGED <<now, grantVars, cacheVars, held, answer>>

\* The database, or the authorization server's /introspect, answers: "life" is
\* expiresIn, or less than nothing when the credential is not active.
Verify(r) ==
  LET c == req[r].cred IN
  /\ pc[r] = "introspect"
  /\ \E life \in (IF Valid(c) THEN Remaining(c) ELSE {-1}) : held' = [held EXCEPT ![r].life = life]
  /\ Goto(r, "introspected")
  /\ UNCHANGED <<now, grantVars, cacheVars, req, answer>>

\* Slip: the answer is kept from when it arrives, not from when it was asked for.
KeepUntilLate(r) == now + Lesser(CacheFor, held[r].life)

\* cachedUntil: counted from before the question was sent.
KeepUntil(r) == req[r].at + Lesser(CacheFor, held[r].life)

Accept(r) ==
  /\ pc[r] = "introspected"
  /\ held[r].life >= 0
  /\ checks' = IF Split THEN [checks EXCEPT ![req[r].cred] = KeepUntil(r)] ELSE checks
  /\ Goto(r, "token")
  /\ UNCHANGED <<now, grantVars, tokens, req, held, answer>>

Reject(r) ==
  /\ pc[r] = "introspected"
  /\ held[r].life < 0
  /\ checks' = [checks EXCEPT ![req[r].cred] = 0]
  /\ Answer(r, "signIn")
  /\ UNCHANGED <<now, grantVars, tokens, req, held>>

-----------------------------------------------------------------------------
(* The edge: an internal token for one grant and one scope.                *)

Grant(r) == GrantOf[req[r].cred]

\* Slip: the cache is keyed by scope alone.
CachedByScope(r) == CHOOSE t \in {tokens[g][req[r].scope] : g \in Grants} :
                      \A g \in Grants : tokens[g][req[r].scope].until <= t.until

\* The cache is keyed by grant and scope.
Cached(r) == tokens[Grant(r)][req[r].scope]

\* tokenFor finds one with more than the margin left.
Reuse(r) ==
  /\ pc[r] = "token"
  /\ Cached(r).until - now > Margin
  /\ held' = [held EXCEPT ![r] = Cached(r)]
  /\ Goto(r, "call")
  /\ UNCHANGED <<now, grantVars, cacheVars, req, answer>>

AskExchange(r) ==
  /\ pc[r] = "token"
  /\ Cached(r).until - now <= Margin
  /\ Goto(r, "exchanging")
  /\ UNCHANGED <<now, grantVars, cacheVars, req, held, answer>>

\* Slip: the internal token may outlive the credential.
LifeFull(left) == TokenFor

\* exchangeToken: "Never outlive the credential it was exchanged from."
Life(left) == Lesser(TokenFor, left)

\* resolveSubject, in this process or at /token-exchange: the database's answer.
Exchange(r) ==
  LET c == req[r].cred IN
  /\ pc[r] = "exchanging"
  /\ Valid(c)
  /\ \E left \in Remaining(c) \ {0} :
       held' = [held EXCEPT ![r] = [grant |-> GrantOf[c], scope |-> req[r].scope, cred |-> c,
                                    exp |-> 0, life |-> Life(left), until |-> 0]]
  /\ req' = [req EXCEPT ![r].readAt = now]
  /\ Goto(r, "minting")
  /\ UNCHANGED <<now, grantVars, cacheVars, answer>>

ExchangeRefused(r) ==
  /\ pc[r] = "exchanging"
  /\ Valid(req[r].cred) => 0 \in Remaining(req[r].cred)
  /\ Answer(r, "signIn")
  /\ UNCHANGED <<now, grantVars, cacheVars, req, held>>

\* touchGrant is over, done or given up; its row may have been a revocation's to
\* lock.  Only now is the clock read, and cut to a second.
Mint(r) ==
  /\ pc[r] = "minting"
  /\ \E clock \in (now - Rounding)..now : held' = [held EXCEPT ![r].exp = clock + held[r].life]
  /\ req' = [req EXCEPT ![r].readAt = 0]
  /\ Goto(r, "exchanged")
  /\ UNCHANGED <<now, grantVars, cacheVars, answer>>

\* The token arrives; its lifetime is counted from now.
Keep(r) ==
  LET t == [held[r] EXCEPT !.until = now + held[r].life] IN
  /\ pc[r] = "exchanged"
  /\ held' = [held EXCEPT ![r] = t]
  /\ tokens' = [tokens EXCEPT ![Grant(r)][req[r].scope] = t]
  /\ Goto(r, "call")
  /\ UNCHANGED <<now, grantVars, checks, req, answer>>

-----------------------------------------------------------------------------
(* The Device Service, and what the adapter does with a refusal.           *)

\* Slip: the expiry is not looked at.
AcceptableForever(r) == held[r].scope = req[r].scope

\* verifyInternalToken.
Acceptable(r) == now < held[r].exp + Tolerance /\ held[r].scope = req[r].scope

Retried(r) == req[r].refusedAt >= 0

Serve(r) ==
  /\ pc[r] = "call"
  /\ Acceptable(r)
  /\ Answer(r, "served")
  /\ UNCHANGED <<now, grantVars, cacheVars, req, held>>

\* Slip: the token is not forgotten, so the second attempt finds it again.
RetryKeeping(r) ==
  /\ pc[r] = "call"
  /\ ~Acceptable(r) /\ ~Retried(r)
  /\ req' = [req EXCEPT ![r].refusedAt = now]
  /\ Goto(r, "token")
  /\ UNCHANGED <<now, grantVars, cacheVars, held, answer>>

\* run: the token is forgotten, and another asked for before anyone else runs.
Retry(r) ==
  /\ pc[r] = "call"
  /\ ~Acceptable(r) /\ ~Retried(r)
  /\ tokens' = [tokens EXCEPT ![Grant(r)][req[r].scope] = NoToken]
  /\ req' = [req EXCEPT ![r].refusedAt = now]
  /\ Goto(r, "exchanging")
  /\ UNCHANGED <<now, grantVars, checks, held, answer>>

RefusedTwice(r) ==
  /\ pc[r] = "call"
  /\ ~Acceptable(r) /\ Retried(r)
  /\ Answer(r, "error")
  /\ UNCHANGED <<now, grantVars, cacheVars, req, held>>

\* A peer cannot be reached: 503.
Unreachable(r) ==
  /\ pc[r] \in {"introspect", "exchanging", "minting", "call"}
  /\ Answer(r, "unavailable")
  /\ UNCHANGED <<now, grantVars, cacheVars, req, held>>

-----------------------------------------------------------------------------
(* Revocation.                                                             *)

\* revokeGrant publishes inside its transaction.
Announce(g) ==
  /\ phase[g] = "live"
  /\ phase' = [phase EXCEPT ![g] = "announced"]
  /\ bus' = bus \cup {g}
  /\ UNCHANGED <<now, revokedAt, heard, cacheVars, pc, req, held, answer>>

\* Committed, for a sign-out everywhere, which has an event to publish yet.
Commit(g) ==
  /\ phase[g] = "announced"
  /\ \E end \in {"committed", "revoked"} : phase' = [phase EXCEPT ![g] = end]
  /\ revokedAt' = [revokedAt EXCEPT ![g] = now]
  /\ UNCHANGED <<now, bus, heard, cacheVars, pc, req, held, answer>>

RollBack(g) ==
  /\ phase[g] = "announced"
  /\ phase' = [phase EXCEPT ![g] = "live"]
  /\ UNCHANGED <<now, revokedAt, bus, heard, cacheVars, pc, req, held, answer>>

\* signOutEverywhere: accountRevoked, after the transaction.
AnnounceAccount(g) ==
  /\ phase[g] = "committed"
  /\ phase' = [phase EXCEPT ![g] = "revoked"]
  /\ bus' = bus \cup {g}
  /\ UNCHANGED <<now, revokedAt, heard, cacheVars, pc, req, held, answer>>

\* The subscription of remote.ts.
DropChecks(g) == [c \in Creds |-> IF GrantOf[c] = g THEN 0 ELSE checks[c]]

\* The edge's caches drop what they hold for the grant.
Deliver(g) ==
  /\ g \in bus
  /\ bus' = bus \ {g}
  /\ checks' = DropChecks(g)
  /\ tokens' = [tokens EXCEPT ![g] = [s \in Scopes |-> NoToken]]
  /\ heard' = IF Revoked(g) THEN heard \cup {g} ELSE heard
  /\ UNCHANGED <<now, phase, revokedAt, pc, req, held, answer>>

\* Redis could not be reached, or the edge was not subscribed.
Lose(g) ==
  /\ Lossy /\ g \in bus
  /\ bus' = bus \ {g}
  /\ UNCHANGED <<now, phase, revokedAt, heard, cacheVars, pc, req, held, answer>>

\* A query that takes longer than its time limit is given up (db/pg.ts).
Tick ==
  /\ now < MaxClock
  /\ \A r \in Requests : pc[r] = "minting" => now < req[r].readAt + Lag
  /\ now' = now + 1
  /\ UNCHANGED <<grantVars, cacheVars, pc, req, held, answer>>

-----------------------------------------------------------------------------
Request(r) ==
  \/ \E c \in Creds, s \in Scopes : Receive(r, c, s)
  \/ Verify(r) \/ Accept(r) \/ Reject(r)
  \/ Reuse(r) \/ AskExchange(r) \/ Exchange(r) \/ ExchangeRefused(r) \/ Mint(r) \/ Keep(r)
  \/ Serve(r) \/ Retry(r) \/ RefusedTwice(r) \/ Unreachable(r)

Revocation(g) ==
  Announce(g) \/ Commit(g) \/ RollBack(g) \/ AnnounceAccount(g) \/ Deliver(g) \/ Lose(g)

Next == (\E r \in Requests : Request(r)) \/ (\E g \in Grants : Revocation(g)) \/ Tick

Spec == Init /\ [][Next]_vars

-----------------------------------------------------------------------------
(* Correctness.                                                            *)

\* The edge has let the request in.
Admitted(r) == pc[r] \in {"token", "exchanging", "minting", "exchanged", "call"} \/ answer[r].kind = "served"

\* What is asked of one request.
TurnedAway(r) ==
  req[r].cred # None /\ req[r].revoked /\ Admitted(r) =>
    Split /\ req[r].at < revokedAt[Grant(r)] + CacheFor

\* A request that comes after the revocation of its grant is let in by nobody
\* who verifies live, and by an introspecting edge for less than the cache's
\* lifetime, whether or not the event arrives (introspect: "now" is read before
\* the question is sent).
RevokedIsTurnedAway == \A r \in Requests : TurnedAway(r)

\* The Device Service serves nobody of a revoked grant once the internal tokens
\* whose exchange had read the database by then are past their life and the
\* tolerance: a token may be minted for as long as touchGrant takes after the
\* revocation (exchangeToken, verifyInternalToken).
ServiceEndsAfterRevocation ==
  \A r \in Requests : answer[r].kind = "served" /\ Revoked(Grant(r)) =>
    answer[r].at < revokedAt[Grant(r)] + Lag + TokenFor + Tolerance

\* Nobody is served who came with an expired credential, nor with a token of an
\* expired credential, whichever credential of the grant it is reused by: past
\* what rounding adds to expires_in, what touchGrant adds to that, and the
\* tolerance (introspect, exchangeToken).
ServiceEndsWithCredential ==
  \A r \in Requests : answer[r].kind = "served" =>
    /\ req[r].at < Expiry[req[r].cred] + Rounding
    /\ answer[r].at < Expiry[held[r].cred] + Rounding + Lag + Tolerance

\* A caller is served with a token of its own grant and scope, whoever else
\* shares the cache ("two people never share an entry").
ServedAsOneself ==
  \A r \in Requests : answer[r].kind = "served" => held[r].grant = Grant(r) /\ held[r].scope = req[r].scope

\* The second token is fresh, so a caller gets an internal error only when that
\* one too spent its whole life and the tolerance on the way, less the second the
\* clock is cut to (run: "exchanged afresh and the call retried once").
RefusedTwiceMeansLate ==
  \A r \in Requests : answer[r].kind = "error" =>
    answer[r].at >= req[r].refusedAt + held[r].life + Tolerance - Rounding

\* "this makes sure no internal token minted for it survives either": after the
\* event, no token of the revoked grant is left.  An exchange under way when the
\* event arrives puts one back.
NoTokenSurvives ==
  \A g \in heard, s \in Scopes : tokens[g][s] = NoToken

-----------------------------------------------------------------------------
(* The inductive invariant behind them (proved in GrantCachesProofs).      *)

\* An internal token of a grant and scope: how long it can work.
Sound(t, g, s) ==
  /\ t.cred \in Creds /\ GrantOf[t.cred] = g /\ t.grant = g /\ t.scope = s
  /\ t.exp <= Expiry[t.cred] + Rounding + Lag
  /\ t.exp <= now + TokenFor
  /\ Revoked(g) => t.exp <= revokedAt[g] + Lag + TokenFor

\* The request has a token that was exchanged.
Holding(r) == pc[r] \in {"exchanged", "call"} \/ answer[r].kind \in {"served", "error"}

Clocks == \A g \in Grants : Revoked(g) => revokedAt[g] <= now

Asked(r) ==
  /\ pc[r] # "over" => answer[r].kind = "none"
  /\ pc[r] = "idle" => req[r].cred = None
  /\ pc[r] # "idle" =>
       /\ req[r].cred \in Creds /\ req[r].scope \in Scopes
       /\ req[r].at <= now /\ req[r].refusedAt <= now
       /\ req[r].revoked => Revoked(Grant(r))
  /\ pc[r] \in {"introspect", "introspected", "token"} => ~Retried(r)
  /\ Admitted(r) => req[r].at < Expiry[req[r].cred] + Rounding

\* An introspection's answer on its way was given before the revocation.
Heeded(r) ==
  pc[r] = "introspected" /\ held[r].life >= 0 =>
    /\ ~req[r].revoked
    /\ Revoked(Grant(r)) => req[r].at <= revokedAt[Grant(r)]
    /\ req[r].at < Expiry[req[r].cred]
    /\ req[r].at + held[r].life <= Expiry[req[r].cred] + Rounding

\* What the exchange has read is Lag old at most.
Minting(r) ==
  pc[r] = "minting" =>
    /\ req[r].readAt <= now /\ now <= req[r].readAt + Lag /\ req[r].refusedAt <= req[r].readAt
    /\ held[r].cred = req[r].cred /\ held[r].grant = Grant(r) /\ held[r].scope = req[r].scope
    /\ held[r].life <= TokenFor
    /\ req[r].readAt + held[r].life <= Expiry[req[r].cred] + Rounding
    /\ Revoked(Grant(r)) => req[r].readAt <= revokedAt[Grant(r)]

Held(r) ==
  Holding(r) =>
    /\ Sound(held[r], Grant(r), req[r].scope)
    /\ Retried(r) => held[r].exp - held[r].life >= req[r].refusedAt - Rounding

Told(r) ==
  /\ answer[r].kind = "served" => answer[r].at < held[r].exp + Tolerance
  /\ answer[r].kind = "error" => Retried(r) /\ answer[r].at >= held[r].exp + Tolerance

Fine(r) == Asked(r) /\ Heeded(r) /\ Minting(r) /\ Held(r) /\ Told(r) /\ TurnedAway(r)

\* What the two caches keep was given before the revocation, and for a credential
\* that had not expired.
Checked ==
  \A c \in Creds :
    /\ checks[c] <= now + CacheFor
    /\ checks[c] <= Expiry[c] + Rounding
    /\ Revoked(GrantOf[c]) => checks[c] <= revokedAt[GrantOf[c]] + CacheFor

Kept == \A g \in Grants, s \in Scopes : tokens[g][s] = NoToken \/ Sound(tokens[g][s], g, s)

IInv == TypeOK /\ Clocks /\ Checked /\ Kept /\ \A r \in Requests : Fine(r)
=============================================================================
