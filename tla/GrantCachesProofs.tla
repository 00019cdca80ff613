------------------------- MODULE GrantCachesProofs -------------------------
(***************************************************************************)
(* Proofs about GrantCaches, for any credentials, grants, scopes and       *)
(* requests, any lifetimes, with or without the loss of events.            *)
(*                                                                         *)
(* The argument: whatever a cache holds was asked for while the grant was  *)
(* live, and carries the time of the question or of the exchange (Checked, *)
(* Sound); a grant once revoked stays so, and time only grows.             *)
(***************************************************************************)
EXTENDS GrantCaches, TLAPS

\* The empty values have their types.
LEMMA NothingTyped == NoToken \in TokenType /\ NoReq \in ReqType /\ NoAnswer \in [kind : Kinds, at : Nat]
  BY DEF NoToken, TokenType, NoReq, ReqType, NoAnswer, Kinds

\* So have a token with its expiry noted, one with its life noted, and a request
\* whose token was refused.
LEMMA UpdatesTyped ==
  ASSUME NEW t \in TokenType, NEW q \in ReqType, NEW n \in Int
  PROVE  /\ [t EXCEPT !.until = n] \in TokenType
         /\ [t EXCEPT !.life = n] \in TokenType
         /\ [t EXCEPT !.exp = n] \in TokenType
         /\ [q EXCEPT !.refusedAt = n] \in ReqType
         /\ n \in Nat => [q EXCEPT !.readAt = n] \in ReqType
  BY DEF TokenType, ReqType

\* The initial caches and grants satisfy the inductive invariant.
LEMMA InitInv == Init => IInv
  <1> SUFFICES ASSUME Init PROVE IInv
    OBVIOUS
  <1>1. TypeOK
    BY NothingTyped DEF Init, TypeOK, Phases, Steps
  <1>2. Clocks /\ Kept
    BY DEF Init, Clocks, Kept, Revoked
  <1>3. Checked
    BY CredsBelong, TimesAreNat DEF Init, Checked, Revoked
  <1>4. ASSUME NEW r \in Requests PROVE Fine(r)
    BY <1>4 DEF Init, Fine, Asked, Heeded, Minting, Held, Told, TurnedAway, Admitted, Holding, Retried, NoReq, NoAnswer
  <1> QED
    BY <1>1, <1>2, <1>3, <1>4 DEF IInv

\* A step of a request leaves the clock, the grants and the other requests alone.
LEMMA RequestFrame ==
  ASSUME TypeOK, NEW r \in Requests, Request(r)
  PROVE  /\ UNCHANGED <<now, grantVars>>
         /\ \A q \in Requests \ {r} : UNCHANGED <<pc[q], req[q], held[q], answer[q]>>
  <1>1. UNCHANGED <<now, grantVars>>
    BY DEF Request, Receive, Verify, Accept, Reject, Reuse, AskExchange, Exchange, ExchangeRefused, Mint, Keep, Serve,
       Retry, RefusedTwice, Unreachable
  <1> SUFFICES ASSUME NEW q \in Requests \ {r} PROVE UNCHANGED <<pc[q], req[q], held[q], answer[q]>>
    BY <1>1
  <1> USE DEF TypeOK, Goto, Answer
  <1>2. ASSUME NEW c \in Creds, NEW s \in Scopes, Receive(r, c, s) PROVE UNCHANGED <<pc[q], req[q], held[q], answer[q]>>
    BY <1>2 DEF Receive
  <1>3. CASE Verify(r) \/ Accept(r) \/ Reject(r)
    BY <1>3 DEF Verify, Accept, Reject
  <1>4. CASE Reuse(r) \/ AskExchange(r) \/ ExchangeRefused(r)
    BY <1>4 DEF Reuse, AskExchange, ExchangeRefused
  <1>5. CASE Exchange(r) \/ Mint(r) \/ Keep(r)
    BY <1>5 DEF Exchange, Mint, Keep
  <1>6. CASE Serve(r) \/ Retry(r) \/ RefusedTwice(r) \/ Unreachable(r)
    BY <1>6 DEF Serve, Retry, RefusedTwice, Unreachable
  <1> QED
    BY <1>2, <1>3, <1>4, <1>5, <1>6 DEF Request

\* Time and revocations leave the requests alone.
LEMMA OtherFrame ==
  ASSUME Tick \/ (\E g \in Grants : Revocation(g)) \/ UNCHANGED vars
  PROVE  UNCHANGED <<pc, req, held, answer>>
  BY DEF Tick, Revocation, Announce, Commit, RollBack, AnnounceAccount, Deliver, Lose, vars

\* Revocations take no time.
LEMMA OtherMoves ==
  ASSUME (\E g \in Grants : Revocation(g)) \/ UNCHANGED vars
  PROVE  UNCHANGED now
  BY DEF Revocation, Announce, Commit, RollBack, AnnounceAccount, Deliver, Lose, vars

\* A revoked grant stays revoked, at the time it was, and time only grows.
LEMMA Monotone ==
  ASSUME TypeOK, [Next]_vars
  PROVE  /\ now' \in Nat /\ now <= now'
         /\ \A g \in Grants : Revoked(g) => Revoked(g)' /\ revokedAt'[g] = revokedAt[g]
         /\ \A g \in Grants : Revoked(g)' /\ ~Revoked(g) => revokedAt'[g] = now /\ now' = now
  <1> USE DEF TypeOK, Revoked, Phases
  <1>1. ASSUME NEW r \in Requests, Request(r)
        PROVE  now' = now /\ phase' = phase /\ revokedAt' = revokedAt
    BY <1>1, RequestFrame DEF grantVars
  <1>2. CASE Tick
    BY <1>2 DEF Tick, grantVars
  <1>3. ASSUME NEW g \in Grants, Announce(g) \/ RollBack(g) \/ AnnounceAccount(g) \/ Deliver(g) \/ Lose(g)
        PROVE  /\ now' = now /\ revokedAt' = revokedAt
               /\ \A h \in Grants : Revoked(h)' = Revoked(h)
    BY <1>3 DEF Announce, RollBack, AnnounceAccount, Deliver, Lose
  <1>4. ASSUME NEW g \in Grants, Commit(g)
        PROVE  /\ now' = now /\ ~Revoked(g) /\ revokedAt'[g] = now
               /\ \A h \in Grants \ {g} : Revoked(h)' = Revoked(h) /\ revokedAt'[h] = revokedAt[h]
    BY <1>4 DEF Commit
  <1>5. CASE UNCHANGED vars
    BY <1>5 DEF vars, grantVars
  <1> HIDE DEF TypeOK, Phases
  <1>6. now \in Nat
    BY DEF TypeOK
  <1> QED
    BY <1>1, <1>2, <1>3, <1>4, <1>5, <1>6 DEF Next, Revocation

\* A revocation commits at the time it is then.
LEMMA ClocksInv == ASSUME IInv, [Next]_vars PROVE Clocks'
  BY Monotone DEF IInv, TypeOK, Clocks

\* An internal token that was sound stays sound.
LEMMA SoundStays ==
  ASSUME IInv, [Next]_vars, NEW t \in TokenType, NEW g \in Grants, NEW s, Sound(t, g, s)
  PROVE  Sound(t, g, s)'
  <1>1. now \in Nat /\ now' \in Nat /\ now <= now' /\ TokenFor \in Nat /\ Lag \in Nat /\ t.exp \in Int
    BY Monotone, TimesAreNat DEF IInv, TypeOK, TokenType
  <1>2. t.exp <= now' + TokenFor
    BY <1>1 DEF Sound
  <1>3. ASSUME Revoked(g)' PROVE t.exp <= revokedAt'[g] + Lag + TokenFor
    <2>1. CASE Revoked(g)
      BY <2>1, Monotone DEF Sound, IInv
    <2>2. CASE ~Revoked(g)
      <3>1. revokedAt'[g] = now
        BY <2>2, <1>3, Monotone DEF IInv
      <3> QED
        BY <1>1, <3>1 DEF Sound
    <2> QED
      BY <2>1, <2>2
  <1> QED
    BY <1>2, <1>3 DEF Sound

\* A request nobody touches stays fine, whatever becomes of the clock and the
\* grants.
LEMMA FineStays ==
  ASSUME IInv, [Next]_vars, NEW q \in Requests, UNCHANGED <<pc[q], req[q], held[q], answer[q]>>
  PROVE  Fine(q)'
  <1>1. Fine(q) /\ now \in Nat /\ now' \in Nat /\ now <= now' /\ req[q] \in ReqType /\ held[q] \in TokenType
    BY Monotone DEF IInv, TypeOK
  <1>2. \A g \in Grants : Revoked(g) => Revoked(g)' /\ revokedAt'[g] = revokedAt[g]
    BY Monotone DEF IInv
  <1>3. \A g \in Grants : Revoked(g)' /\ ~Revoked(g) => revokedAt'[g] = now
    BY Monotone DEF IInv
  <1>4. req[q].at \in Nat /\ req[q].refusedAt \in Int
    BY <1>1 DEF ReqType
  <1>5. pc[q] # "idle" => Grant(q) \in Grants
    BY <1>1, CredsBelong DEF Fine, Asked, Grant
  <1>6. Grant(q)' = Grant(q) /\ (Retried(q)' <=> Retried(q)) /\ (Admitted(q)' <=> Admitted(q)) /\ (Holding(q)' <=> Holding(q))
    BY DEF Grant, Retried, Admitted, Holding
  <1>7. Asked(q)'
    BY <1>1, <1>2, <1>4, <1>5, <1>6 DEF Fine, Asked
  <1>8. Heeded(q)'
    BY <1>1, <1>2, <1>3, <1>4, <1>5, <1>6 DEF Fine, Asked, Heeded
  <1>12. Minting(q)'
    <2> SUFFICES ASSUME pc[q] = "minting" PROVE Minting(q)'
      BY DEF Minting
    <2>1. now' <= req[q].readAt + Lag
      <3>1. CASE now' = now
        BY <1>1, <3>1 DEF Fine, Minting
      <3>2. CASE now' # now
        <4>1. Tick
          BY <3>2, RequestFrame, OtherMoves DEF IInv, Next, grantVars
        <4> QED
          BY <1>1, <4>1, TimesAreNat DEF Tick, ReqType
      <3> QED
        BY <3>1, <3>2
    <2>2. Grant(q) \in Grants /\ req[q].readAt \in Nat
      BY <1>1, <1>5 DEF ReqType
    <2> QED
      BY <2>1, <2>2, <1>1, <1>2, <1>3, <1>6 DEF Fine, Minting
  <1>9. Held(q)'
    <2>1. Holding(q) => Grant(q) \in Grants
      BY <1>1, <1>5 DEF Holding, Fine, Asked
    <2>2. Sound(held[q], Grant(q), req[q].scope) /\ Holding(q) => Sound(held[q], Grant(q), req[q].scope)'
      <3> SUFFICES ASSUME Sound(held[q], Grant(q), req[q].scope), Holding(q) PROVE Sound(held[q], Grant(q), req[q].scope)'
        OBVIOUS
      <3>1. \A t \in TokenType, g \in Grants : \A s : Sound(t, g, s) => Sound(t, g, s)'
        BY SoundStays
      <3> QED
        BY <3>1, <2>1, <1>1, <1>6 DEF Sound
    <2> QED
      BY <2>1, <2>2, <1>1, <1>6 DEF Fine, Held
  <1>10. Told(q)'
    BY <1>1, <1>6 DEF Fine, Told
  <1>11. TurnedAway(q)'
    BY <1>1, <1>2, <1>5, <1>6 DEF Fine, Asked, TurnedAway, Admitted
  <1> QED
    BY <1>7, <1>8, <1>9, <1>10, <1>11, <1>12 DEF Fine

\* Every step keeps the types.
LEMMA TypeInv == ASSUME IInv, [Next]_vars PROVE TypeOK'
  <1> TypeOK /\ \A r \in Requests : Asked(r)
    BY DEF IInv, Fine
  <1> USE CredsBelong DEF TypeOK, grantVars, cacheVars, Goto, Steps
  <1>1. ASSUME NEW r \in Requests, NEW c \in Creds, NEW s \in Scopes, Receive(r, c, s) PROVE TypeOK'
    <2>1. [cred |-> c, scope |-> s, at |-> now, revoked |-> Revoked(GrantOf[c]),
           refusedAt |-> -1, readAt |-> 0] \in ReqType
      BY DEF ReqType, Revoked
    <2>2. req' \in [Requests -> ReqType]
      BY <1>1, <2>1 DEF Receive
    <2>3. pc' \in [Requests -> Steps]
      BY <1>1 DEF Receive
    <2> QED
      BY <1>1, <2>2, <2>3 DEF Receive
  <1>2. ASSUME NEW r \in Requests, Verify(r) PROVE TypeOK'
    <2>1. req[r].cred \in Creds
      BY <1>2 DEF Asked, Verify
    <2>2. PICK life \in (IF Valid(req[r].cred) THEN Remaining(req[r].cred) ELSE {-1}) : held' = [held EXCEPT ![r].life = life]
      BY <1>2 DEF Verify
    <2>3. life \in Int
      BY <2>1, <2>2 DEF Remaining
    <2>4. held' \in [Requests -> TokenType]
      BY ZenonT(60), <2>2, <2>3 DEF TokenType
    <2> QED
      BY <1>2, <2>4 DEF Verify
  <1>3. ASSUME NEW r \in Requests, Accept(r) PROVE TypeOK'
    <2>1. KeepUntil(r) \in Int
      BY TimesAreNat DEF KeepUntil, Lesser, ReqType, TokenType
    <2>2. checks' \in [Creds -> Int]
      BY <1>3, <2>1 DEF Accept
    <2> QED
      BY <1>3, <2>2 DEF Accept
  <1>4. ASSUME NEW r \in Requests, Reject(r) PROVE TypeOK'
    <2>1. pc' \in [Requests -> Steps] /\ answer' \in [Requests -> [kind : Kinds, at : Nat]]
      BY <1>4 DEF Reject, Answer, Kinds
    <2>2. checks' \in [Creds -> Int]
      <3>1. checks' = [checks EXCEPT ![req[r].cred] = 0]
        BY <1>4 DEF Reject
      <3>2. checks \in [Creds -> Int] /\ 0 \in Int
        OBVIOUS
      <3> HIDE DEF TypeOK, Steps, Goto, grantVars, cacheVars
      <3> QED
        BY <3>1, <3>2
    <2> QED
      BY <1>4, <2>1, <2>2 DEF Reject
  <1>5. ASSUME NEW r \in Requests, Reuse(r) PROVE TypeOK'
    <2>1. Cached(r) \in TokenType
      BY <1>5 DEF Asked, Cached, Grant, Reuse
    <2> QED
      BY <1>5, <2>1 DEF Reuse
  <1>6. ASSUME NEW r \in Requests, AskExchange(r) PROVE TypeOK'
    BY <1>6 DEF AskExchange
  <1>7. ASSUME NEW r \in Requests, Exchange(r) PROVE TypeOK'
    <2> DEFINE c == req[r].cred
    <2>1. c \in Creds /\ req[r].scope \in Scopes
      BY <1>7 DEF Asked, Exchange
    <2>2. PICK left \in Remaining(c) :
            held' = [held EXCEPT ![r] = [grant |-> GrantOf[c], scope |-> req[r].scope, cred |-> c,
                                         exp |-> 0, life |-> Life(left), until |-> 0]]
      BY <1>7 DEF Exchange
    <2>3. Life(left) \in Int
      BY <2>1, TimesAreNat DEF Life, Lesser, Remaining
    <2>4. [grant |-> GrantOf[c], scope |-> req[r].scope, cred |-> c, exp |-> 0, life |-> Life(left), until |-> 0] \in TokenType
      BY <2>1, <2>3 DEF TokenType
    <2>5. [req[r] EXCEPT !.readAt = now] \in ReqType
      <3>1. req[r] \in ReqType /\ now \in Nat
        OBVIOUS
      <3> QED
        BY <3>1 DEF ReqType
    <2>6. /\ held' \in [Requests -> TokenType] /\ req' \in [Requests -> ReqType]
          /\ pc' \in [Requests -> Steps]
      BY <1>7, <2>2, <2>4, <2>5 DEF Exchange
    <2> QED
      BY <1>7, <2>6 DEF Exchange
  <1>18. ASSUME NEW r \in Requests, Mint(r) PROVE TypeOK'
    <2>1. PICK clock \in (now - Rounding)..now : held' = [held EXCEPT ![r].exp = clock + held[r].life]
      BY <1>18 DEF Mint
    <2>2. held[r] \in TokenType /\ clock \in Int /\ req[r] \in ReqType
      BY <2>1, TimesAreNat
    <2>3. clock + held[r].life \in Int
      BY <2>2 DEF TokenType
    <2>4. [held[r] EXCEPT !.exp = clock + held[r].life] \in TokenType
      BY <2>2, <2>3 DEF TokenType
    <2>5. [req[r] EXCEPT !.readAt = 0] \in ReqType
      BY <2>2 DEF ReqType
    <2>6. /\ held' \in [Requests -> TokenType] /\ req' \in [Requests -> ReqType]
          /\ pc' \in [Requests -> Steps]
      BY <1>18, <2>1, <2>4, <2>5 DEF Mint
    <2> QED
      BY <1>18, <2>6 DEF Mint
  <1>8. ASSUME NEW r \in Requests, Keep(r) PROVE TypeOK'
    <2> DEFINE t == [held[r] EXCEPT !.until = now + held[r].life]
    <2>1. t \in TokenType
      <3>1. held[r] \in TokenType /\ now \in Int
        OBVIOUS
      <3>2. now + held[r].life \in Int
        BY <3>1 DEF TokenType
      <3> QED
        BY <3>1, <3>2, UpdatesTyped, NothingTyped
    <2>2. Grant(r) \in Grants /\ req[r].scope \in Scopes
      BY <1>8 DEF Asked, Grant, Keep
    <2>3. held' = [held EXCEPT ![r] = t] /\ tokens' = [tokens EXCEPT ![Grant(r)][req[r].scope] = t]
      BY <1>8 DEF Keep
    <2> HIDE DEF t
    <2>4. tokens' \in [Grants -> [Scopes -> TokenType]]
      BY <2>1, <2>2, <2>3
    <2>5. held' \in [Requests -> TokenType]
      BY <2>1, <2>3
    <2> QED
      BY <1>8, <2>4, <2>5 DEF Keep
  <1>9. ASSUME NEW r \in Requests, ExchangeRefused(r) PROVE TypeOK'
    <2>1. pc' \in [Requests -> Steps] /\ answer' \in [Requests -> [kind : Kinds, at : Nat]]
      BY <1>9 DEF ExchangeRefused, Answer, Kinds
    <2> QED
      BY <1>9, <2>1 DEF ExchangeRefused
  <1>10. ASSUME NEW r \in Requests, Serve(r) PROVE TypeOK'
    <2>1. pc' \in [Requests -> Steps] /\ answer' \in [Requests -> [kind : Kinds, at : Nat]]
      BY <1>10 DEF Serve, Answer, Kinds
    <2> QED
      BY <1>10, <2>1 DEF Serve
  <1>11. ASSUME NEW r \in Requests, RefusedTwice(r) PROVE TypeOK'
    <2>1. pc' \in [Requests -> Steps] /\ answer' \in [Requests -> [kind : Kinds, at : Nat]]
      BY <1>11 DEF RefusedTwice, Answer, Kinds
    <2> QED
      BY <1>11, <2>1 DEF RefusedTwice
  <1>12. ASSUME NEW r \in Requests, Unreachable(r) PROVE TypeOK'
    <2>1. pc' \in [Requests -> Steps] /\ answer' \in [Requests -> [kind : Kinds, at : Nat]]
      BY <1>12 DEF Unreachable, Answer, Kinds
    <2> QED
      BY <1>12, <2>1 DEF Unreachable
  <1>13. ASSUME NEW r \in Requests, Retry(r) PROVE TypeOK'
    <2>1. req' \in [Requests -> ReqType]
      <3>1. [req[r] EXCEPT !.refusedAt = now] \in ReqType
        <4>1. req[r] \in ReqType /\ now \in Int
          OBVIOUS
        <4> QED
          BY <4>1, UpdatesTyped, NothingTyped
      <3> QED
        BY <1>13, <3>1 DEF Retry
    <2>2. tokens' \in [Grants -> [Scopes -> TokenType]]
      BY <1>13, NothingTyped DEF Retry
    <2>3. UNCHANGED <<now, grantVars, checks, held, answer>>
      BY <1>13 DEF Retry
    <2>4. pc' \in [Requests -> Steps]
      BY <1>13 DEF Retry
    <2> QED
      BY <2>1, <2>2, <2>3, <2>4
  <1>14. ASSUME NEW g \in Grants, Announce(g) \/ RollBack(g) \/ AnnounceAccount(g) \/ Lose(g) \/ Commit(g) PROVE TypeOK'
    <2>1. CASE Announce(g) \/ RollBack(g) \/ AnnounceAccount(g)
      <3>1. phase' \in [Grants -> Phases] /\ bus' \subseteq Grants
        BY <2>1 DEF Announce, RollBack, AnnounceAccount, Phases
      <3> QED
        BY <2>1, <3>1 DEF Announce, RollBack, AnnounceAccount
    <2>2. CASE Lose(g)
      BY <2>2 DEF Lose
    <2>3. CASE Commit(g)
      <3>1. phase' \in [Grants -> Phases] /\ revokedAt' \in [Grants -> Nat]
        BY <2>3 DEF Commit, Phases
      <3> QED
        BY <2>3, <3>1 DEF Commit
    <2> QED
      BY <1>14, <2>1, <2>2, <2>3
  <1>15. ASSUME NEW g \in Grants, Deliver(g) PROVE TypeOK'
    <2>1. tokens' \in [Grants -> [Scopes -> TokenType]]
      BY <1>15, NothingTyped DEF Deliver
    <2>2. checks' \in [Creds -> Int]
      BY <1>15 DEF Deliver, DropChecks
    <2> QED
      BY <1>15, <2>1, <2>2 DEF Deliver
  <1>16. CASE Tick
    BY <1>16 DEF Tick
  <1>17. CASE UNCHANGED vars
    BY <1>17 DEF vars
  <1> HIDE DEF TypeOK, grantVars, cacheVars, Goto, Steps
  <1> QED
    BY <1>1, <1>2, <1>3, <1>4, <1>5, <1>6, <1>7, <1>8, <1>9, <1>10, <1>11, <1>12, <1>13, <1>14, <1>15, <1>16, <1>17, <1>18
       DEF Next, Request, Revocation

\* An edge that knows a credential of a revoked grant learnt of it less than a
\* cache lifetime after the revocation.
LEMMA KnownIsRecent ==
  ASSUME IInv, NEW c \in Creds, Known(c), Revoked(GrantOf[c])
  PROVE  Split /\ now < revokedAt[GrantOf[c]] + CacheFor
  BY CredsBelong, TimesAreNat DEF IInv, TypeOK, Checked, Known

\* Nor does it know one that has expired.
LEMMA KnownIsLive ==
  ASSUME IInv, NEW c \in Creds, Known(c)
  PROVE  now < Expiry[c] + Rounding
  BY CredsBelong, TimesAreNat DEF IInv, TypeOK, Checked, Known

\* The introspection cache only takes answers given before a revocation.
LEMMA CheckedInv == ASSUME IInv, [Next]_vars PROVE Checked'
  <1> SUFFICES ASSUME NEW c \in Creds
               PROVE  /\ checks'[c] <= now' + CacheFor
                      /\ checks'[c] <= Expiry[c] + Rounding
                      /\ Revoked(GrantOf[c])' => checks'[c] <= revokedAt'[GrantOf[c]] + CacheFor
    BY DEF Checked
  <1> DEFINE g == GrantOf[c]
  <1>1. g \in Grants /\ now \in Nat /\ now' \in Nat /\ now <= now' /\ checks[c] \in Int /\ CacheFor \in Nat
        /\ Expiry[c] \in Nat /\ Rounding \in Nat
    BY CredsBelong, TimesAreNat, Monotone DEF IInv, TypeOK
  <1>2. Revoked(g) => Revoked(g)' /\ revokedAt'[g] = revokedAt[g]
    BY <1>1, Monotone DEF IInv
  <1>3. Revoked(g)' /\ ~Revoked(g) => revokedAt'[g] = now
    BY <1>1, Monotone DEF IInv
  <1>4. revokedAt'[g] \in Nat
    BY <1>1, TypeInv DEF TypeOK
  <1>5. CASE checks'[c] = checks[c]
    BY <1>1, <1>2, <1>3, <1>5 DEF IInv, Checked
  <1>6. CASE checks'[c] = 0
    <2>1. checks'[c] <= now' + CacheFor /\ checks'[c] <= Expiry[c] + Rounding
      BY <1>1, <1>6
    <2>2. checks'[c] <= revokedAt'[g] + CacheFor
      BY <1>1, <1>4, <1>6
    <2> QED
      BY <2>1, <2>2
  <1>7. ASSUME NEW r \in Requests, Accept(r), req[r].cred = c, checks'[c] = KeepUntil(r)
        PROVE  /\ checks'[c] <= now' + CacheFor
               /\ checks'[c] <= Expiry[c] + Rounding
               /\ Revoked(g)' => checks'[c] <= revokedAt'[g] + CacheFor
    <2>1. req[r].at \in Nat /\ req[r].at <= now /\ held[r].life \in Int
      BY <1>7 DEF IInv, Fine, Asked, Accept, TypeOK, ReqType, TokenType
    <2>2. KeepUntil(r) \in Int /\ KeepUntil(r) <= req[r].at + CacheFor /\ KeepUntil(r) <= req[r].at + held[r].life
      BY <1>1, <2>1 DEF KeepUntil, Lesser
    <2>4. req[r].at + held[r].life <= Expiry[c] + Rounding
      BY <1>7 DEF IInv, Fine, Heeded, Accept
    <2>3. Revoked(g) => req[r].at <= revokedAt[g]
      BY <1>7 DEF IInv, Fine, Heeded, Grant, Accept
    <2> HIDE DEF g
    <2> QED
      BY <1>1, <1>2, <1>3, <1>4, <1>7, <2>1, <2>2, <2>3, <2>4
  <1>8. checks \in [Creds -> Int]
    BY DEF IInv, TypeOK
  <1>9. ASSUME NEW r \in Requests, Request(r)
        PROVE  checks'[c] = checks[c] \/ checks'[c] = 0 \/ (Accept(r) /\ req[r].cred = c /\ checks'[c] = KeepUntil(r))
    BY <1>8, <1>9 DEF Request, Receive, Verify, Accept, Reject, Reuse, AskExchange, Exchange, ExchangeRefused, Mint, Keep,
       Serve, Retry, RefusedTwice, Unreachable, cacheVars
  <1>10. ASSUME NEW h \in Grants, Revocation(h) PROVE checks'[c] = checks[c] \/ checks'[c] = 0
    BY <1>10 DEF Revocation, Announce, Commit, RollBack, AnnounceAccount, Deliver, Lose, DropChecks, cacheVars
  <1>11. Tick \/ UNCHANGED vars => checks'[c] = checks[c]
    BY DEF Tick, vars, cacheVars
  <1> HIDE DEF g
  <1> QED
    BY <1>5, <1>6, <1>7, <1>9, <1>10, <1>11 DEF Next, g

\* The token cache only takes tokens that were exchanged for its entry.
LEMMA KeptInv == ASSUME IInv, [Next]_vars PROVE Kept'
  <1> SUFFICES ASSUME NEW g \in Grants, NEW s \in Scopes
               PROVE  tokens'[g][s] = NoToken \/ Sound(tokens[g][s], g, s)'
    BY DEF Kept
  <1>1. tokens \in [Grants -> [Scopes -> TokenType]]
    BY DEF IInv, TypeOK
  <1>2. \A t \in TokenType : Sound(t, g, s) => Sound(t, g, s)'
    BY SoundStays
  <1>3. CASE tokens'[g][s] = NoToken
    BY <1>3
  <1>4. CASE tokens'[g][s] = tokens[g][s]
    <2>1. CASE tokens[g][s] = NoToken
      BY <1>4, <2>1
    <2>2. CASE Sound(tokens[g][s], g, s)
      BY <1>1, <1>2, <1>4, <2>2 DEF Sound
    <2> QED
      BY <2>1, <2>2 DEF IInv, Kept
  <1>5. ASSUME NEW r \in Requests, Keep(r), g = Grant(r), s = req[r].scope,
               tokens'[g][s] = [held[r] EXCEPT !.until = now + held[r].life]
        PROVE  Sound(tokens[g][s], g, s)'
    <2> DEFINE t == held[r]
    <2>1. t \in TokenType /\ Sound(t, g, s)
      BY <1>5 DEF IInv, TypeOK, Fine, Held, Holding, Keep
    <2>2. Sound(t, g, s) => [t EXCEPT !.until = now + t.life] \in TokenType /\ Sound([t EXCEPT !.until = now + t.life], g, s)
      BY <2>1 DEF IInv, TypeOK, TokenType, Sound
    <2>3. [t EXCEPT !.until = now + t.life] \in TokenType /\ Sound([t EXCEPT !.until = now + t.life], g, s)
      BY <2>1, <2>2
    <2> QED
      BY <1>2, <1>5, <2>3 DEF Sound
  <1>6. ASSUME NEW r \in Requests, Keep(r)
        PROVE  \/ tokens'[g][s] = tokens[g][s]
               \/ /\ g = Grant(r) /\ s = req[r].scope
                  /\ tokens'[g][s] = [held[r] EXCEPT !.until = now + held[r].life]
    BY <1>1, <1>6 DEF Keep
  <1>7. ASSUME NEW r \in Requests, Retry(r) PROVE tokens'[g][s] = tokens[g][s] \/ tokens'[g][s] = NoToken
    BY <1>1, <1>7 DEF Retry
  <1>8. ASSUME NEW r \in Requests, Request(r), ~Keep(r), ~Retry(r) PROVE tokens' = tokens
    BY <1>8 DEF Request, Receive, Verify, Accept, Reject, Reuse, AskExchange, Exchange, ExchangeRefused, Mint, Serve,
       RefusedTwice, Unreachable, cacheVars
  <1>9. ASSUME NEW h \in Grants, Revocation(h) PROVE tokens'[g][s] = tokens[g][s] \/ tokens'[g][s] = NoToken
    BY <1>1, <1>9 DEF Revocation, Announce, Commit, RollBack, AnnounceAccount, Deliver, Lose, cacheVars
  <1>10. Tick \/ UNCHANGED vars => tokens' = tokens
    BY DEF Tick, vars, cacheVars
  <1> QED
    BY <1>3, <1>4, <1>5, <1>6, <1>7, <1>8, <1>9, <1>10 DEF Next

\* A request's own step leaves it fine.
LEMMA ActorFine ==
  ASSUME IInv, [Next]_vars, NEW r \in Requests, Request(r)
  PROVE  Fine(r)'
  <1> DEFINE g == Grant(r)
  <1>a. now' = now /\ phase' = phase /\ revokedAt' = revokedAt
    BY RequestFrame DEF grantVars, IInv
  <1>b. \A h \in Grants : (Revoked(h)' <=> Revoked(h)) /\ revokedAt'[h] = revokedAt[h]
    BY <1>a DEF Revoked
  <1>c. now \in Nat /\ r \in Requests /\ req[r] \in ReqType /\ held[r] \in TokenType
    BY DEF IInv, TypeOK
  <1>d. Asked(r) /\ Heeded(r) /\ Minting(r) /\ Held(r) /\ Told(r) /\ TurnedAway(r)
    BY DEF IInv, Fine
  <1>e. /\ pc \in [Requests -> Steps] /\ req \in [Requests -> ReqType]
        /\ held \in [Requests -> TokenType] /\ answer \in [Requests -> [kind : Kinds, at : Nat]]
    BY DEF IInv, TypeOK
  <1>f. pc[r] # "idle" => g \in Grants
    BY <1>d, CredsBelong DEF Asked, Grant
  <1>g. \A t \in TokenType, h \in Grants : \A s : Sound(t, h, s) => Sound(t, h, s)'
    BY SoundStays
  <1>1. ASSUME NEW c \in Creds, NEW s \in Scopes, Receive(r, c, s) PROVE Fine(r)'
    <2>1. /\ pc[r] = "idle" /\ pc'[r] = (IF Known(c) THEN "token" ELSE "introspect")
          /\ held'[r] = held[r] /\ answer'[r] = answer[r]
          /\ req'[r] = [cred |-> c, scope |-> s, at |-> now, revoked |-> Revoked(GrantOf[c]),
                        refusedAt |-> -1, readAt |-> 0]
      BY <1>1, <1>e DEF Receive, Goto, Answer
    <2>2. /\ req'[r].cred = c /\ req'[r].scope = s /\ req'[r].at = now /\ req'[r].refusedAt = -1
          /\ req'[r].revoked = Revoked(GrantOf[c]) /\ GrantOf[c] \in Grants
      BY <2>1, CredsBelong
    <2>3. answer[r].kind = "none"
      BY <2>1, <1>d DEF Asked
    <2>4. pc'[r] = "token" => Known(c)
      BY <2>1
    <2>5. pc'[r] \in {"token", "introspect"}
      BY <2>1
    <2>6. Asked(r)'
      BY <2>1, <2>2, <2>3, <2>4, <2>5, <1>a, <1>b, <1>c, KnownIsLive DEF Asked, Grant, Retried, Admitted
    <2>7. Heeded(r)' /\ Minting(r)' /\ Held(r)' /\ Told(r)'
      BY <2>1, <2>3, <2>5 DEF Heeded, Minting, Held, Holding, Told
    <2>8. TurnedAway(r)'
      BY <2>1, <2>2, <2>3, <2>4, <2>5, <1>a, <1>b, KnownIsRecent DEF TurnedAway, Admitted, Grant
    <2> QED
      BY <2>6, <2>7, <2>8 DEF Fine
  <1>2. ASSUME Verify(r) PROVE Fine(r)'
    <2> DEFINE c == req[r].cred
    <2>1. PICK life \in (IF Valid(c) THEN Remaining(c) ELSE {-1}) :
            /\ pc[r] = "introspect" /\ pc'[r] = "introspected" /\ req'[r] = req[r] /\ answer'[r] = answer[r]
            /\ held'[r] = [held[r] EXCEPT !.life = life]
      BY <1>2, <1>e DEF Verify, Goto, Answer
    <2>2. c \in Creds /\ Expiry[c] \in Nat /\ req[r].at \in Nat /\ req[r].at <= now /\ Grant(r) = GrantOf[c]
      BY <2>1, <1>c, <1>d, CredsBelong DEF Asked, Grant, ReqType
    <2>3. held'[r].life = life
      BY <2>1, <1>c DEF TokenType
    <2> HIDE DEF c
    <2>4. life >= 0 => ~Revoked(g) /\ now < Expiry[c] /\ life \in Int /\ life <= Expiry[c] - now + Rounding
      BY <2>1, <2>2, <1>c, TimesAreNat DEF Valid, Remaining
    <2>5. Asked(r)' /\ Minting(r)' /\ Told(r)' /\ TurnedAway(r)'
      BY <2>1, <1>a, <1>b, <1>d, <1>f DEF Asked, Minting, Told, TurnedAway, Admitted, Grant, Retried
    <2>6. Heeded(r)'
      <3> SUFFICES ASSUME held'[r].life >= 0
                   PROVE  /\ ~req[r].revoked /\ ~Revoked(Grant(r))'
                          /\ req[r].at < Expiry[c] /\ req[r].at + held'[r].life <= Expiry[c] + Rounding
        BY <2>1 DEF Heeded, Grant, c
      <3>1. ~Revoked(Grant(r))' /\ ~req[r].revoked
        BY <2>1, <2>3, <2>4, <1>a, <1>b, <1>d, <1>f DEF Asked, Grant
      <3>2. req[r].at < Expiry[c] /\ req[r].at + held'[r].life <= Expiry[c] + Rounding
        BY <2>2, <2>3, <2>4, <1>c, TimesAreNat
      <3> QED
        BY <3>1, <3>2
    <2>7. Held(r)'
      BY <2>1, <1>d DEF Held, Holding, Asked
    <2> QED
      BY <2>5, <2>6, <2>7 DEF Fine
  <1>3. ASSUME Accept(r) PROVE Fine(r)'
    <2>1. /\ pc[r] = "introspected" /\ held[r].life >= 0 /\ pc'[r] = "token"
          /\ req'[r] = req[r] /\ held'[r] = held[r] /\ answer'[r] = answer[r]
      BY <1>3, <1>e DEF Accept, Goto, Answer
    <2>2. req[r].at < Expiry[req[r].cred] + Rounding
      <3>1. req[r].at < Expiry[req[r].cred] /\ Expiry[req[r].cred] \in Nat /\ req[r].at \in Nat
        BY <2>1, <1>c, <1>d, CredsBelong DEF Heeded, Asked, ReqType
      <3> QED
        BY <3>1, TimesAreNat
    <2>3. Asked(r)'
      BY <2>1, <2>2, <1>a, <1>b, <1>d, <1>f DEF Asked, Grant, Retried
    <2>4. Heeded(r)' /\ Minting(r)' /\ Told(r)'
      BY <2>1, <1>d DEF Heeded, Minting, Told, Asked
    <2>5. TurnedAway(r)'
      BY <2>1, <1>b, <1>d, <1>f DEF Heeded, TurnedAway, Grant
    <2>6. Held(r)'
      BY <2>1, <1>d DEF Held, Holding, Asked
    <2> QED
      BY <2>3, <2>4, <2>5, <2>6 DEF Fine
  <1>4. ASSUME Reject(r) PROVE Fine(r)'
    <2>1. /\ pc[r] = "introspected" /\ pc'[r] = "over" /\ answer'[r] = [kind |-> "signIn", at |-> now]
          /\ req'[r] = req[r] /\ held'[r] = held[r]
      BY <1>4, <1>e DEF Reject, Goto, Answer
    <2>2. Asked(r)' /\ Heeded(r)' /\ Minting(r)' /\ Told(r)' /\ TurnedAway(r)'
      BY <2>1, <1>a, <1>b, <1>c, <1>d, <1>f DEF Asked, Heeded, Minting, Told, TurnedAway, Admitted, Grant, Retried
    <2>3. Held(r)'
      BY <2>1, <1>d DEF Held, Holding, Asked
    <2> QED
      BY <2>2, <2>3 DEF Fine
  <1>5. ASSUME ExchangeRefused(r) PROVE Fine(r)'
    <2>1. /\ pc[r] = "exchanging" /\ pc'[r] = "over" /\ answer'[r] = [kind |-> "signIn", at |-> now]
          /\ req'[r] = req[r] /\ held'[r] = held[r]
      BY <1>5, <1>e DEF ExchangeRefused, Goto, Answer
    <2>2. Asked(r)' /\ Heeded(r)' /\ Minting(r)' /\ Told(r)' /\ TurnedAway(r)'
      BY <2>1, <1>a, <1>b, <1>c, <1>d, <1>f DEF Asked, Heeded, Minting, Told, TurnedAway, Admitted, Grant, Retried
    <2>3. Held(r)'
      BY <2>1, <1>d DEF Held, Holding, Asked
    <2> QED
      BY <2>2, <2>3 DEF Fine
  <1>6. ASSUME Unreachable(r) PROVE Fine(r)'
    <2>1. /\ pc[r] \in {"introspect", "exchanging", "minting", "call"} /\ pc'[r] = "over"
          /\ answer'[r] = [kind |-> "unavailable", at |-> now] /\ req'[r] = req[r] /\ held'[r] = held[r]
      BY <1>6, <1>e DEF Unreachable, Goto, Answer
    <2>2. Asked(r)' /\ Heeded(r)' /\ Minting(r)' /\ Told(r)' /\ TurnedAway(r)'
      BY <2>1, <1>a, <1>b, <1>c, <1>d, <1>f DEF Asked, Heeded, Minting, Told, TurnedAway, Admitted, Grant, Retried
    <2>3. Held(r)'
      BY <2>1, <1>d DEF Held, Holding, Asked
    <2> QED
      BY <2>2, <2>3 DEF Fine
  <1>7. ASSUME AskExchange(r) PROVE Fine(r)'
    <2>1. /\ pc[r] = "token" /\ pc'[r] = "exchanging"
          /\ req'[r] = req[r] /\ held'[r] = held[r] /\ answer'[r] = answer[r]
      BY <1>7, <1>e DEF AskExchange, Goto, Answer
    <2>2. Asked(r)' /\ Heeded(r)' /\ Minting(r)' /\ Told(r)' /\ TurnedAway(r)'
      BY <2>1, <1>a, <1>b, <1>c, <1>d, <1>f DEF Asked, Heeded, Minting, Told, TurnedAway, Admitted, Grant, Retried
    <2>3. Held(r)'
      BY <2>1, <1>d DEF Held, Holding, Asked
    <2> QED
      BY <2>2, <2>3 DEF Fine
  <1>8. ASSUME Retry(r) PROVE Fine(r)'
    <2>1. /\ pc[r] = "call" /\ pc'[r] = "exchanging" /\ held'[r] = held[r] /\ answer'[r] = answer[r]
          /\ req'[r] = [req[r] EXCEPT !.refusedAt = now]
      BY <1>8, <1>e DEF Retry, Goto, Answer
    <2>a. /\ req'[r].cred = req[r].cred /\ req'[r].scope = req[r].scope /\ req'[r].at = req[r].at
          /\ req'[r].revoked = req[r].revoked /\ req'[r].refusedAt = now
      BY <2>1, <1>c DEF ReqType
    <2>2. Asked(r)' /\ Heeded(r)' /\ Minting(r)' /\ Told(r)' /\ TurnedAway(r)'
      BY <2>1, <2>a, <1>a, <1>b, <1>c, <1>d, <1>f DEF Asked, Heeded, Minting, Told, TurnedAway, Admitted, Grant, Retried
    <2>3. Held(r)'
      BY <2>1, <1>d DEF Held, Holding, Asked
    <2> QED
      BY <2>2, <2>3 DEF Fine
  <1>9. ASSUME Reuse(r) PROVE Fine(r)'
    <2>1. /\ pc[r] = "token" /\ pc'[r] = "call" /\ req'[r] = req[r] /\ answer'[r] = answer[r]
          /\ held'[r] = tokens[g][req[r].scope] /\ held'[r].until - now > Margin
      BY <1>9, <1>e DEF Reuse, Goto, Answer, Cached
    <2>2. Asked(r)' /\ Heeded(r)' /\ Minting(r)' /\ Told(r)' /\ TurnedAway(r)'
      BY <2>1, <1>a, <1>b, <1>c, <1>d, <1>f DEF Asked, Heeded, Minting, Told, TurnedAway, Admitted, Grant, Retried
    <2>3. Held(r)'
      <3>1. tokens \in [Grants -> [Scopes -> TokenType]] /\ req[r].scope \in Scopes /\ g \in Grants
        BY <2>1, <1>d, <1>f DEF IInv, TypeOK, Asked
      <3>2. held'[r] \in TokenType
        BY <2>1, <3>1
      <3>3. held'[r] # NoToken
        BY <2>1, <1>c, TimesAreNat DEF NoToken
      <3>4. Sound(tokens[g][req[r].scope], g, req[r].scope)
        BY <2>1, <3>1, <3>3 DEF IInv, Kept
      <3>5. Sound(tokens[g][req[r].scope], g, req[r].scope) => Sound(held[r], Grant(r), req[r].scope)'
        BY <2>1, <3>1, <3>2, <3>4, <1>g DEF Sound, Grant
      <3> QED
        BY <2>1, <3>4, <3>5, <1>d DEF Held, Asked, Retried
    <2> QED
      BY <2>2, <2>3 DEF Fine
  <1>10. ASSUME Exchange(r) PROVE Fine(r)'
    <2> DEFINE c == req[r].cred
    <2>1. PICK left \in Remaining(c) :
            /\ pc[r] = "exchanging" /\ pc'[r] = "minting" /\ answer'[r] = answer[r] /\ Valid(c)
            /\ req'[r] = [req[r] EXCEPT !.readAt = now]
            /\ held'[r] = [grant |-> GrantOf[c], scope |-> req[r].scope, cred |-> c,
                           exp |-> 0, life |-> Life(left), until |-> 0]
      BY <1>10, <1>e DEF Exchange, Goto, Answer
    <2>a. /\ req'[r].cred = c /\ req'[r].scope = req[r].scope /\ req'[r].at = req[r].at
          /\ req'[r].revoked = req[r].revoked /\ req'[r].refusedAt = req[r].refusedAt /\ req'[r].readAt = now
      BY <2>1, <1>c DEF ReqType
    <2>2. Asked(r)' /\ Heeded(r)' /\ Told(r)' /\ TurnedAway(r)'
      BY <2>1, <2>a, <1>a, <1>b, <1>c, <1>d, <1>f DEF Asked, Heeded, Told, TurnedAway, Admitted, Grant, Retried
    <2>3. Held(r)'
      BY <2>1, <1>d DEF Held, Holding, Asked
    <2>4. Minting(r)'
      <3>1. /\ held'[r].cred = c /\ held'[r].grant = GrantOf[c] /\ held'[r].scope = req[r].scope /\ held'[r].life = Life(left)
        BY <2>1
      <3>2. c \in Creds /\ Expiry[c] \in Nat /\ GrantOf[c] \in Grants /\ ~Revoked(GrantOf[c]) /\ g = GrantOf[c]
        BY <2>1, <1>d, CredsBelong DEF Asked, Grant, Valid
      <3>3. req[r].refusedAt \in Int /\ req[r].refusedAt <= now
        BY <2>1, <1>c, <1>d DEF Asked, ReqType
      <3>4. left \in Int /\ left <= Expiry[c] - now + Rounding
        BY <3>2, <1>c, TimesAreNat DEF Remaining
      <3>6. Grant(r)' = GrantOf[c]
        BY <2>a DEF Grant
      <3>7. req'[r].cred = c
        BY <2>a
      <3> HIDE DEF c, g
      <3>5. Life(left) \in Int /\ Life(left) <= TokenFor /\ now + Life(left) <= Expiry[c] + Rounding
        BY <3>2, <3>4, <1>c, TimesAreNat DEF Life, Lesser
      <3>8. ~Revoked(Grant(r))'
        BY <3>2, <3>6, <1>b
      <3>9. now <= now + Lag /\ now <= now
        BY <1>c, TimesAreNat
      <3> QED
        BY <2>1, <2>a, <3>1, <3>2, <3>3, <3>5, <3>6, <3>7, <3>8, <3>9, <1>a DEF Minting
    <2> QED
      BY <2>2, <2>3, <2>4 DEF Fine
  <1>14. ASSUME Mint(r) PROVE Fine(r)'
    <2> DEFINE c == req[r].cred
    <2>1. PICK clock \in (now - Rounding)..now :
            /\ pc[r] = "minting" /\ pc'[r] = "exchanged" /\ answer'[r] = answer[r]
            /\ req'[r] = [req[r] EXCEPT !.readAt = 0]
            /\ held'[r] = [held[r] EXCEPT !.exp = clock + held[r].life]
      BY <1>14, <1>e DEF Mint, Goto, Answer
    <2>a. /\ req'[r].cred = c /\ req'[r].scope = req[r].scope /\ req'[r].at = req[r].at
          /\ req'[r].revoked = req[r].revoked /\ req'[r].refusedAt = req[r].refusedAt
      BY <2>1, <1>c DEF ReqType
    <2>2. Asked(r)' /\ Heeded(r)' /\ Minting(r)' /\ Told(r)' /\ TurnedAway(r)'
      BY <2>1, <2>a, <1>a, <1>b, <1>c, <1>d, <1>f DEF Asked, Heeded, Minting, Told, TurnedAway, Admitted, Grant, Retried
    <2>3. Held(r)'
      <3>1. /\ held'[r].cred = c /\ held'[r].grant = g /\ held'[r].scope = req[r].scope
            /\ held'[r].life = held[r].life /\ held'[r].exp = clock + held[r].life
        BY <2>1, <1>c, <1>d DEF Minting, TokenType
      <3>2. c \in Creds /\ g = GrantOf[c] /\ Expiry[c] \in Nat /\ g \in Grants
        BY <2>1, <1>d, <1>f, CredsBelong DEF Asked, Grant
      <3>3. /\ req[r].readAt \in Nat /\ held[r].life \in Int /\ now <= req[r].readAt + Lag
            /\ req[r].refusedAt \in Int /\ req[r].refusedAt <= req[r].readAt /\ req[r].readAt <= now
            /\ held[r].life <= TokenFor /\ req[r].readAt + held[r].life <= Expiry[c] + Rounding
            /\ Revoked(g) => req[r].readAt <= revokedAt[g]
        BY <2>1, <1>c, <1>d DEF Minting, ReqType, TokenType
      <3>4. clock \in Int /\ clock <= now /\ now - Rounding <= clock
        BY <1>c, TimesAreNat
      <3>5. g \in Grants => revokedAt[g] \in Nat
        BY DEF IInv, TypeOK
      <3> HIDE DEF c, g
      <3>6. /\ held'[r].exp <= Expiry[c] + Rounding + Lag /\ held'[r].exp <= now + TokenFor
            /\ held'[r].exp - held'[r].life >= req[r].refusedAt - Rounding
        BY <3>1, <3>2, <3>3, <3>4, <1>c, TimesAreNat
      <3>7. Revoked(g) => held'[r].exp <= revokedAt[g] + Lag + TokenFor
        BY <3>1, <3>2, <3>3, <3>4, <3>5, <1>c, TimesAreNat
      <3>8. Grant(r)' = g
        BY <2>a DEF Grant, g, c
      <3>9. Sound(held[r], Grant(r), req[r].scope)'
        BY <3>1, <3>2, <3>6, <3>7, <3>8, <2>a, <1>a, <1>b DEF Sound
      <3> QED
        BY <3>6, <3>9, <2>a DEF Held, Retried
    <2> QED
      BY <2>2, <2>3 DEF Fine
  <1>11. ASSUME Keep(r) PROVE Fine(r)'
    <2>1. /\ pc[r] = "exchanged" /\ pc'[r] = "call" /\ req'[r] = req[r] /\ answer'[r] = answer[r]
          /\ held'[r] = [held[r] EXCEPT !.until = now + held[r].life]
      BY <1>11, <1>e DEF Keep, Goto, Answer
    <2>2. Asked(r)' /\ Heeded(r)' /\ Minting(r)' /\ Told(r)' /\ TurnedAway(r)'
      BY <2>1, <1>a, <1>b, <1>c, <1>d, <1>f DEF Asked, Heeded, Minting, Told, TurnedAway, Admitted, Grant, Retried
    <2>3. Held(r)'
      <3>1. /\ held'[r].cred = held[r].cred /\ held'[r].grant = held[r].grant /\ held'[r].scope = held[r].scope
            /\ held'[r].exp = held[r].exp /\ held'[r].life = held[r].life
        BY <2>1, <1>c DEF TokenType
      <3>2. Sound(held[r], g, req[r].scope) /\ (Retried(r) => held[r].exp - held[r].life >= req[r].refusedAt - Rounding)
        BY <2>1, <1>d DEF Held, Holding
      <3>3. Grant(r)' = g /\ g \in Grants
        BY <2>1, <1>f DEF Grant
      <3>4. Sound(held[r], Grant(r), req[r].scope)'
        BY <3>1, <3>2, <3>3, <2>1, <1>a, <1>b DEF Sound
      <3> QED
        BY <3>1, <3>2, <3>4, <2>1 DEF Held, Retried
    <2> QED
      BY <2>2, <2>3 DEF Fine
  <1>12. ASSUME Serve(r) PROVE Fine(r)'
    <2>1. /\ pc[r] = "call" /\ pc'[r] = "over" /\ answer'[r] = [kind |-> "served", at |-> now]
          /\ req'[r] = req[r] /\ held'[r] = held[r] /\ now < held[r].exp + Tolerance
      BY <1>12, <1>e DEF Serve, Goto, Answer, Acceptable
    <2>a. Sound(held[r], g, req[r].scope) /\ (Retried(r) => held[r].exp - held[r].life >= req[r].refusedAt - Rounding)
      BY <2>1, <1>d DEF Held, Holding
    <2>2. Asked(r)' /\ Heeded(r)' /\ Minting(r)' /\ Told(r)' /\ TurnedAway(r)'
      BY <2>1, <1>a, <1>b, <1>c, <1>d, <1>f DEF Asked, Heeded, Minting, Told, TurnedAway, Admitted, Grant, Retried
    <2>3. Held(r)'
      BY <2>1, <2>a, <1>a, <1>b, <1>f DEF Held, Sound, Grant, Retried
    <2> QED
      BY <2>2, <2>3 DEF Fine
  <1>13. ASSUME RefusedTwice(r) PROVE Fine(r)'
    <2>1. /\ pc[r] = "call" /\ pc'[r] = "over" /\ answer'[r] = [kind |-> "error", at |-> now]
          /\ req'[r] = req[r] /\ held'[r] = held[r] /\ Retried(r) /\ ~Acceptable(r)
      BY <1>13, <1>e DEF RefusedTwice, Goto, Answer
    <2>a. Sound(held[r], g, req[r].scope) /\ (Retried(r) => held[r].exp - held[r].life >= req[r].refusedAt - Rounding)
      BY <2>1, <1>d DEF Held, Holding
    <2>b. now >= held[r].exp + Tolerance
      BY <2>1, <2>a, <1>c, TimesAreNat DEF Acceptable, Sound, TokenType
    <2>2. Asked(r)' /\ Heeded(r)' /\ Minting(r)' /\ Told(r)' /\ TurnedAway(r)'
      BY <2>1, <2>b, <1>a, <1>b, <1>c, <1>d, <1>f DEF Asked, Heeded, Minting, Told, TurnedAway, Admitted, Grant, Retried
    <2>3. Held(r)'
      BY <2>1, <2>a, <1>a, <1>b, <1>f DEF Held, Sound, Grant, Retried
    <2> QED
      BY <2>2, <2>3 DEF Fine
  <1> QED
    BY <1>1, <1>2, <1>3, <1>4, <1>5, <1>6, <1>7, <1>8, <1>9, <1>10, <1>11, <1>12, <1>13, <1>14 DEF Request

\* Every step keeps the inductive invariant.
LEMMA Preserved == ASSUME IInv, [Next]_vars PROVE IInv'
  <1>1. ASSUME NEW r \in Requests, Request(r), NEW q \in Requests PROVE Fine(q)'
    <2>1. CASE q = r
      BY <1>1, <2>1, ActorFine
    <2>2. CASE q # r
      <3>1. UNCHANGED <<pc[q], req[q], held[q], answer[q]>>
        BY <1>1, <2>2, RequestFrame DEF IInv
      <3> QED
        BY <3>1, FineStays
    <2> QED
      BY <2>1, <2>2
  <1>2. ASSUME Tick \/ (\E g \in Grants : Revocation(g)) \/ UNCHANGED vars, NEW q \in Requests PROVE Fine(q)'
    <2>1. UNCHANGED <<pc[q], req[q], held[q], answer[q]>>
      BY <1>2, OtherFrame
    <2> QED
      BY <2>1, FineStays
  <1>3. \A q \in Requests : Fine(q)'
    BY <1>1, <1>2 DEF Next
  <1> QED
    BY <1>3, TypeInv, ClocksInv, CheckedInv, KeptInv DEF IInv

\* The invariant holds in every run of the caches.
THEOREM Invariance == Spec => []IInv
  <1>1. IInv /\ UNCHANGED vars => IInv'
    BY Preserved
  <1>2. IInv /\ Next => IInv'
    BY Preserved
  <1> QED
    BY InitInv, <1>1, <1>2, PTL DEF Spec

\* Every variable of the caches keeps its type.
THEOREM TypeCorrect == Spec => []TypeOK
  BY Invariance, PTL DEF IInv

\* A request that comes after the revocation of its grant is turned away by an
\* edge that verifies live, and by an introspecting edge once its answers are
\* CACHE_SECONDS old, even when no event arrives.
THEOREM TurnedAwayCorrect == Spec => []RevokedIsTurnedAway
  <1>1. IInv => RevokedIsTurnedAway
    BY DEF IInv, Fine, RevokedIsTurnedAway
  <1> QED
    BY <1>1, Invariance, PTL

\* What a request that was served held.
LEMMA ServedWith ==
  ASSUME IInv, NEW r \in Requests, answer[r].kind = "served"
  PROVE  /\ Sound(held[r], Grant(r), req[r].scope) /\ held[r] \in TokenType
         /\ answer[r].at \in Nat /\ answer[r].at < held[r].exp + Tolerance
         /\ Grant(r) \in Grants
  <1>1. held[r] \in TokenType /\ answer[r] \in [kind : Kinds, at : Nat]
    BY DEF IInv, TypeOK
  <1>2. pc[r] = "over" /\ req[r].cred \in Creds
    BY DEF IInv, Fine, Asked
  <1> QED
    BY <1>1, <1>2, CredsBelong DEF IInv, Fine, Held, Holding, Told, Grant

\* The Device Service serves nobody for a revoked grant once the internal
\* tokens whose exchange had begun are past their life and the tolerance.
THEOREM ServiceEndsCorrect == Spec => []ServiceEndsAfterRevocation
  <1>1. IInv => ServiceEndsAfterRevocation
    <2> SUFFICES ASSUME IInv, NEW r \in Requests, answer[r].kind = "served", Revoked(Grant(r))
                 PROVE  answer[r].at < revokedAt[Grant(r)] + Lag + TokenFor + Tolerance
      BY DEF ServiceEndsAfterRevocation
    <2>1. held[r].exp \in Int /\ held[r].exp <= revokedAt[Grant(r)] + Lag + TokenFor
      BY ServedWith DEF Sound, TokenType
    <2>2. revokedAt[Grant(r)] \in Nat
      BY ServedWith DEF IInv, TypeOK
    <2> QED
      BY <2>1, <2>2, ServedWith, TimesAreNat
  <1> QED
    BY <1>1, Invariance, PTL

\* Nor for a request that came with an expired credential, nor with the token of
\* one, past what rounding, the exchange and the tolerance add.
THEOREM CredentialEndsCorrect == Spec => []ServiceEndsWithCredential
  <1>1. IInv => ServiceEndsWithCredential
    <2> SUFFICES ASSUME IInv, NEW r \in Requests, answer[r].kind = "served"
                 PROVE  /\ req[r].at < Expiry[req[r].cred] + Rounding
                        /\ answer[r].at < Expiry[held[r].cred] + Rounding + Lag + Tolerance
      BY DEF ServiceEndsWithCredential
    <2>1. held[r].exp \in Int /\ held[r].exp <= Expiry[held[r].cred] + Rounding + Lag /\ Expiry[held[r].cred] \in Nat
      BY ServedWith, CredsBelong DEF Sound, TokenType
    <2>2. req[r].at < Expiry[req[r].cred] + Rounding
      BY DEF IInv, Fine, Asked, Admitted
    <2> QED
      BY <2>1, <2>2, ServedWith, TimesAreNat
  <1> QED
    BY <1>1, Invariance, PTL

\* Whoever shares the edge's cache is served with a token of their own grant
\* and of the scope the call needs.
THEOREM OneselfCorrect == Spec => []ServedAsOneself
  <1>1. IInv => ServedAsOneself
    BY ServedWith DEF Sound, ServedAsOneself
  <1> QED
    BY <1>1, Invariance, PTL

\* An internal error means the fresh token too spent its life on the way.
THEOREM LateCorrect == Spec => []RefusedTwiceMeansLate
  <1>1. IInv => RefusedTwiceMeansLate
    <2> SUFFICES ASSUME IInv, NEW r \in Requests, answer[r].kind = "error"
                 PROVE  answer[r].at >= req[r].refusedAt + held[r].life + Tolerance - Rounding
      BY DEF RefusedTwiceMeansLate
    <2>1. held[r] \in TokenType /\ req[r] \in ReqType /\ answer[r] \in [kind : Kinds, at : Nat]
      BY DEF IInv, TypeOK
    <2>2. held[r].exp - held[r].life >= req[r].refusedAt - Rounding /\ answer[r].at >= held[r].exp + Tolerance
      BY DEF IInv, Fine, Held, Holding, Told
    <2> QED
      BY <2>1, <2>2, TimesAreNat DEF TokenType, ReqType
  <1> QED
    BY <1>1, Invariance, PTL
=============================================================================
