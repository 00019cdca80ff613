-------------------------- MODULE TokenStoreProofs --------------------------
(***************************************************************************)
(* Proofs about TokenStore, for any number of codes, grants, pairs and     *)
(* requests, and both kinds of sealed store.                               *)
(*                                                                         *)
(* The argument: a rotation holds the row lock of a token that nothing has *)
(* replaced (Locking), so it is the only one to replace it; the pair it    *)
(* drew is not in the tables (Drawing); what is sealed under the token is  *)
(* nothing, or that pair, from the moment it commits (Sealing).  A request *)
(* about to establish a grant is the only one that spent its code          *)
(* (Establishing).  IInv, their conjunction with the properties, is        *)
(* inductive.                                                              *)
(***************************************************************************)
EXTENDS TokenStore, TLAPS

\* What a rotation's SELECT reads of unlocked rows (rotateRefresh).
LEMMA SnapType ==
  ASSUME NEW a \in BOOLEAN, NEW b \in BOOLEAN, NEW c \in BOOLEAN
  PROVE  [ended |-> a, used |-> b, late |-> c] \in [ended : BOOLEAN, used : BOOLEAN, late : BOOLEAN]
  OBVIOUS

\* The initial tables and idle requests satisfy the inductive invariant.
LEMMA InitInv == Init => IInv
  <1> SUFFICES ASSUME Init PROVE IInv
    OBVIOUS
  <1>1. TypeOK
    BY DEF Init, TypeOK, TablesOK, RequestsOK, Steps, NoSnap
  <1>2. Locals /\ Locking /\ Drawing
    BY DEF Init, Locals, Locking, Drawing, Rotating, Revoking
  <1>3. References /\ Establishing /\ Reading /\ Sealing
    BY DEF Init, References, Establishing, Reading, Sealing
  <1>4. NoFork /\ OneGrantPerCode /\ AnswersAgree /\ EndedGrantAnswersNothing
    BY DEF Init, NoFork, OneGrantPerCode, AnswersAgree, EndedGrantAnswersNothing
  <1>5. HonestDuplicateIsSafe /\ ReplayEndsItsOwnGrant /\ SealedBeforeVisible /\ RevokedIsAnnounced
    BY DEF Init, HonestDuplicateIsSafe, ReplayEndsItsOwnGrant, SealedBeforeVisible, RevokedIsAnnounced
  <1> QED
    BY <1>1, <1>2, <1>3, <1>4, <1>5 DEF IInv

\* The statements of exchangeCode keep the invariant.
LEMMA ExchangeInv == ASSUME IInv, NEW p \in Requests, Exchange(p) PROVE IInv'
  <1> USE NoneIsNoId DEF IInv, TypeOK, TablesOK, RequestsOK, Steps, Locals, Rotating, Revoking, Locking,
          Drawing, References, Establishing, Reading, Sealing, NoFork, OneGrantPerCode,
          AnswersAgree, EndedGrantAnswersNothing, HonestDuplicateIsSafe, ReplayEndsItsOwnGrant,
          SealedBeforeVisible, RevokedIsAnnounced, SuccessorUsed, Goto, Respond, Refuse, ReleaseLocks, NoSnap,
          tables, codeVars, grantVars, pairVars, timeVars, argVars, lockVars
  <1>1. ASSUME NEW c \in Codes, StartExchange(p, c) PROVE IInv'
    BY SMTT(60), <1>1 DEF StartExchange
  \* Nobody is at the point of establishing from this code: it was not spent.
  <1>2. CASE ConsumeFresh(p)
    BY SMTT(60), <1>2 DEF ConsumeFresh, SpareGrants, SpareTokens, Consumable
  <1>3. CASE ConsumeAndRefuse(p)
    BY SMTT(60), <1>3 DEF ConsumeAndRefuse, Consumable
  <1>4. CASE ConsumeMiss(p)
    BY <1>4 DEF ConsumeMiss
  <1>5. CASE LookupUnusable(p)
    BY SMTT(60), <1>5 DEF LookupUnusable
  <1>6. CASE LookupReplay(p)
    BY SMTT(60), <1>6 DEF LookupReplay, Replayed
  <1>7. CASE LookupReplayOfGrant(p)
    BY <1>7 DEF LookupReplayOfGrant, Replayed
  \* The new grant has no pair yet, so its first one is alone in its line.
  <1>8. CASE EstablishGrant(p)
    BY SMTT(60), <1>8 DEF EstablishGrant
  <1> HIDE DEF IInv, TypeOK, TablesOK, RequestsOK, Steps, Locals, Rotating, Revoking, Locking,
          Drawing, References, Establishing, Reading, Sealing, NoFork, OneGrantPerCode,
          AnswersAgree, EndedGrantAnswersNothing, HonestDuplicateIsSafe, ReplayEndsItsOwnGrant,
          SealedBeforeVisible, RevokedIsAnnounced, SuccessorUsed, Goto, Respond, Refuse, ReleaseLocks, NoSnap,
          tables, codeVars, grantVars, pairVars, timeVars, argVars, lockVars
  <1> QED
    BY <1>1, <1>2, <1>3, <1>4, <1>5, <1>6, <1>7, <1>8 DEF Exchange

\* The statements of rotateRefresh keep the invariant.
LEMMA RotateInv == ASSUME IInv, NEW p \in Requests, Rotate(p) PROVE IInv'
  <1> USE NoneIsNoId DEF IInv, TypeOK, TablesOK, RequestsOK, Steps, Locals, Rotating, Revoking, Locking,
          Drawing, References, Establishing, Reading, Sealing, NoFork, OneGrantPerCode,
          AnswersAgree, EndedGrantAnswersNothing, HonestDuplicateIsSafe, ReplayEndsItsOwnGrant,
          SealedBeforeVisible, RevokedIsAnnounced, SuccessorUsed, Goto, Respond, Refuse, ReleaseLocks, NoSnap,
          tables, codeVars, grantVars, pairVars, timeVars, argVars, lockVars
  <1>1. ASSUME NEW t \in Tokens, NEW who \in {"own", "other", "wrongKey"}, StartRotate(p, t, who)
        PROVE  IInv'
    <2> DEFINE read == [ended |-> family[t] \in revoked, used |-> SuccessorUsed(t),
                        late |-> t \in graceOver]
    <2>1. read \in [ended : BOOLEAN, used : BOOLEAN, late : BOOLEAN]
      <3>1. (family[t] \in revoked) \in BOOLEAN /\ (t \in graceOver) \in BOOLEAN
        OBVIOUS
      <3>2. SuccessorUsed(t) \in BOOLEAN
        BY DEF SuccessorUsed
      <3> QED
        BY <3>1, <3>2, SnapType
    <2>2. snap' = [snap EXCEPT ![p] = read]
      BY <1>1 DEF StartRotate
    <2>4. read.late => t \in graceOver
      OBVIOUS
    <2>5. read.used => SuccessorUsed(t)
      OBVIOUS
    <2> HIDE DEF read
    <2>3. snap' \in [Requests -> [ended : BOOLEAN, used : BOOLEAN, late : BOOLEAN]]
      BY <2>1, <2>2
    <2> QED
      BY SMTT(60), <1>1, <2>2, <2>3, <2>4, <2>5 DEF StartRotate
  <1>2. CASE RotateRefused(p)
    BY SMTT(60), <1>2 DEF RotateRefused, HasRefreshRow, RefreshRowFree
  <1>3. CASE RotateReplay(p)
    BY <1>3 DEF RotateReplay, HasRefreshRow, RefreshRowFree
  <1>4. CASE RotateTheft(p)
    BY SMTT(60), <1>4 DEF RotateTheft, HasRefreshRow, RefreshRowFree, BenignDuplicate
  \* The row lock was free: no other rotation holds this token.
  <1>5. CASE RotateAccept(p)
    BY <1>5 DEF RotateAccept, SpareTokens, HasRefreshRow, RefreshRowFree, Dead
  <1>6. CASE IssueTokens(p)
    BY <1>6 DEF IssueTokens
  \* The sealed copy changes only for a token that has not been replaced.
  <1>7. CASE Seal(p)
    BY <1>7 DEF Seal
  \* The token was the head of its line; the drawn pair takes its place.
  <1>8. CASE CommitRotation(p)
    BY SMTT(60), <1>8 DEF CommitRotation
  \* The token was replaced, so what is sealed is its successor, if anything.
  <1>9. CASE Unseal(p)
    BY SMTT(60), <1>9 DEF Unseal
  <1> HIDE DEF IInv, TypeOK, TablesOK, RequestsOK, Steps, Locals, Rotating, Revoking, Locking,
          Drawing, References, Establishing, Reading, Sealing, NoFork, OneGrantPerCode,
          AnswersAgree, EndedGrantAnswersNothing, HonestDuplicateIsSafe, ReplayEndsItsOwnGrant,
          SealedBeforeVisible, RevokedIsAnnounced, SuccessorUsed, Goto, Respond, Refuse, ReleaseLocks, NoSnap,
          tables, codeVars, grantVars, pairVars, timeVars, argVars, lockVars
  <1> QED
    BY <1>1, <1>2, <1>3, <1>4, <1>5, <1>6, <1>7, <1>8, <1>9 DEF Rotate

\* The statements of revokeGrant and its callers keep the invariant.
LEMMA RevokeInv == ASSUME IInv, NEW p \in Requests, Revoke(p) PROVE IInv'
  <1> USE NoneIsNoId DEF IInv, TypeOK, TablesOK, RequestsOK, Steps, Locals, Rotating, Revoking, Locking,
          Drawing, References, Establishing, Reading, Sealing, NoFork, OneGrantPerCode,
          AnswersAgree, EndedGrantAnswersNothing, HonestDuplicateIsSafe, ReplayEndsItsOwnGrant,
          SealedBeforeVisible, RevokedIsAnnounced, SuccessorUsed, Goto, Respond, Refuse, ReleaseLocks, NoSnap,
          tables, codeVars, grantVars, pairVars, timeVars, argVars, lockVars
  <1>1. ASSUME NEW t \in Tokens, StartRevoke(p, t) PROVE IInv'
    BY SMTT(60), <1>1 DEF StartRevoke, ReadRefreshToken, ReadAccessToken
  <1>2. ASSUME NEW g \in Grants, StartDisconnect(p, g) PROVE IInv'
    BY SMTT(60), <1>2 DEF StartDisconnect
  <1>3. CASE LockGrant(p)
    BY <1>3 DEF LockGrant
  <1>4. CASE DisconnectNothing(p)
    BY SMTT(60), <1>4 DEF DisconnectNothing
  <1>5. CASE UpdateGrant(p)
    BY <1>5 DEF UpdateGrant
  <1>6. CASE DeleteAccess(p)
    BY <1>6 DEF DeleteAccess, AccessRowsOf
  <1>7. CASE ScanRefresh(p)
    BY <1>7 DEF ScanRefresh
  <1>8. ASSUME NEW t \in Tokens, UpdateRefresh(p, t) PROVE IInv'
    BY <1>8 DEF UpdateRefresh, RefreshRowFree
  <1>9. CASE Announce(p)
    BY <1>9 DEF Announce
  <1>10. CASE CommitRevoke(p)
    BY SMTT(60), <1>10 DEF CommitRevoke
  <1> HIDE DEF IInv, TypeOK, TablesOK, RequestsOK, Steps, Locals, Rotating, Revoking, Locking,
          Drawing, References, Establishing, Reading, Sealing, NoFork, OneGrantPerCode,
          AnswersAgree, EndedGrantAnswersNothing, HonestDuplicateIsSafe, ReplayEndsItsOwnGrant,
          SealedBeforeVisible, RevokedIsAnnounced, SuccessorUsed, Goto, Respond, Refuse, ReleaseLocks, NoSnap,
          tables, codeVars, grantVars, pairVars, timeVars, argVars, lockVars
  <1> QED
    BY <1>1, <1>2, <1>3, <1>4, <1>5, <1>6, <1>7, <1>8, <1>9, <1>10 DEF Revoke

\* A rollback keeps the invariant: a transaction leaves nothing behind.
LEMMA AbortInv == ASSUME IInv, NEW p \in Requests, Abort(p) PROVE IInv'
  BY SMTT(60), NoneIsNoId DEF Abort, IInv, TypeOK, TablesOK, RequestsOK, Steps, Locals, Rotating, Revoking, Locking,
     Drawing, References, Establishing, Reading, Sealing, NoFork, OneGrantPerCode,
     AnswersAgree, EndedGrantAnswersNothing, HonestDuplicateIsSafe, ReplayEndsItsOwnGrant,
     SealedBeforeVisible, RevokedIsAnnounced, SuccessorUsed, Goto, Respond, Refuse, ReleaseLocks, NoSnap,
     tables, codeVars, grantVars, pairVars, timeVars, argVars, lockVars

\* So does the end of the process, with every request and maybe the seals.
LEMMA RestartInv == ASSUME IInv, Restart PROVE IInv'
  BY NoneIsNoId DEF Restart, IInv, TypeOK, TablesOK, RequestsOK, Steps, Locals, Rotating, Revoking, Locking,
     Drawing, References, Establishing, Reading, Sealing, NoFork, OneGrantPerCode,
     AnswersAgree, EndedGrantAnswersNothing, HonestDuplicateIsSafe, ReplayEndsItsOwnGrant,
     SealedBeforeVisible, RevokedIsAnnounced, SuccessorUsed, Goto, Respond, Refuse, ReleaseLocks, NoSnap,
     tables, codeVars, grantVars, pairVars, timeVars, argVars, lockVars

\* Time and pruning keep the invariant.
LEMMA TimeInv == ASSUME IInv, Time PROVE IInv'
  <1> USE NoneIsNoId DEF IInv, TypeOK, TablesOK, RequestsOK, Steps, Locals, Rotating, Revoking, Locking,
          Drawing, References, Establishing, Reading, Sealing, NoFork, OneGrantPerCode,
          AnswersAgree, EndedGrantAnswersNothing, HonestDuplicateIsSafe, ReplayEndsItsOwnGrant,
          SealedBeforeVisible, RevokedIsAnnounced, SuccessorUsed, Goto, Respond, Refuse, ReleaseLocks, NoSnap,
          tables, codeVars, grantVars, pairVars, timeVars, argVars, lockVars
  <1>1. ASSUME NEW t \in Tokens, CloseGrace(t) PROVE IInv'
    BY <1>1 DEF CloseGrace
  <1>2. ASSUME NEW t \in Tokens, ExpireSeal(t) PROVE IInv'
    BY <1>2 DEF ExpireSeal
  <1>3. ASSUME NEW t \in Tokens, ExpireRefresh(t) PROVE IInv'
    BY <1>3 DEF ExpireRefresh
  <1>4. ASSUME NEW t \in Tokens, PruneAccess(t) PROVE IInv'
    BY <1>4 DEF PruneAccess
  <1>5. ASSUME NEW c \in Codes, ExpireCode(c) PROVE IInv'
    BY <1>5 DEF ExpireCode
  <1>6. CASE PruneRefresh
    BY <1>6 DEF PruneRefresh
  <1>7. CASE PruneCodes
    BY <1>7 DEF PruneCodes
  <1> HIDE DEF IInv, TypeOK, TablesOK, RequestsOK, Steps, Locals, Rotating, Revoking, Locking,
          Drawing, References, Establishing, Reading, Sealing, NoFork, OneGrantPerCode,
          AnswersAgree, EndedGrantAnswersNothing, HonestDuplicateIsSafe, ReplayEndsItsOwnGrant,
          SealedBeforeVisible, RevokedIsAnnounced, SuccessorUsed, Goto, Respond, Refuse, ReleaseLocks, NoSnap,
          tables, codeVars, grantVars, pairVars, timeVars, argVars, lockVars
  <1> QED
    BY <1>1, <1>2, <1>3, <1>4, <1>5, <1>6, <1>7 DEF Time

\* Stuttering keeps the invariant.
LEMMA StutterInv == ASSUME IInv, UNCHANGED vars PROVE IInv'
  BY DEF vars, IInv, TypeOK, TablesOK, RequestsOK, Steps, Locals, Rotating, Revoking, Locking,
     Drawing, References, Establishing, Reading, Sealing, NoFork, OneGrantPerCode,
     AnswersAgree, EndedGrantAnswersNothing, HonestDuplicateIsSafe, ReplayEndsItsOwnGrant,
     SealedBeforeVisible, RevokedIsAnnounced, SuccessorUsed, Goto, Respond, Refuse, ReleaseLocks, NoSnap,
     tables, codeVars, grantVars, pairVars, timeVars, argVars, lockVars

\* Every step keeps the invariant.
LEMMA NextInv == IInv /\ [Next]_vars => IInv'
  BY ExchangeInv, RotateInv, RevokeInv, AbortInv, RestartInv, TimeInv, StutterInv DEF Next, Token

\* The inductive invariant holds in every reachable state.
THEOREM Invariance == Spec => []IInv
  BY InitInv, NextInv, PTL DEF Spec

\* Every variable keeps its type, whatever races, fails or expires.
THEOREM TypeCorrect == Spec => []TypeOK
  <1>1. IInv => TypeOK
    BY DEF IInv
  <1> QED
    BY <1>1, Invariance, PTL

\* Racing rotations never fork a grant's line of refresh tokens (rotateRefresh).
THEOREM LineNeverForks == Spec => []NoFork
  <1>1. IInv => NoFork
    BY DEF IInv
  <1> QED
    BY <1>1, Invariance, PTL

\* Racing redemptions of one code never found two grants (exchangeCode).
THEOREM CodeFoundsOneGrant == Spec => []OneGrantPerCode
  <1>1. IInv => OneGrantPerCode
    BY DEF IInv
  <1> QED
    BY <1>1, Invariance, PTL

\* All answers to one refresh token carry the same pair (rotateRefresh, sealed.ts).
THEOREM DuplicatesAgree == Spec => []AnswersAgree
  <1>1. IInv => AnswersAgree
    BY DEF IInv
  <1> QED
    BY <1>1, Invariance, PTL

\* A refresh begun after the revocation gets no tokens (rotateRefresh).
THEOREM EndedGrantIsSilent == Spec => []EndedGrantAnswersNothing
  <1>1. IInv => EndedGrantAnswersNothing
    BY DEF IInv
  <1> QED
    BY <1>1, Invariance, PTL

\* The owner's duplicate refresh is not taken for theft inside the window while
\* the successor is unused (rotateRefresh).
THEOREM DuplicateIsNoTheft == Spec => []HonestDuplicateIsSafe
  <1>1. IInv => HonestDuplicateIsSafe
    BY DEF IInv
  <1> QED
    BY <1>1, Invariance, PTL

\* A replayed code can only take down the grant it produced (exchangeCode).
THEOREM ReplayRevokesItsOwn == Spec => []ReplayEndsItsOwnGrant
  <1>1. IInv => ReplayEndsItsOwnGrant
    BY DEF IInv
  <1> QED
    BY <1>1, Invariance, PTL

\* With a shared store a duplicate inside the window finds the first response
\* (rotateRefresh seals before it commits).
THEOREM DuplicateFindsSeal == Spec => []SealedBeforeVisible
  <1>1. IInv => SealedBeforeVisible
    BY DEF IInv
  <1> QED
    BY <1>1, Invariance, PTL

\* No revocation commits without its event (revokeGrant).
THEOREM RevocationIsAnnounced == Spec => []RevokedIsAnnounced
  <1>1. IInv => RevokedIsAnnounced
    BY DEF IInv
  <1> QED
    BY <1>1, Invariance, PTL

-----------------------------------------------------------------------------
(* Refinement: only the steps that commit are visible in TokenFamily.      *)

\* The initial states map to initial states of TokenFamily.
LEMMA AtomicInit == Init => Atomic!Init
  BY DEF Init, Atomic!Init

\* A step that leaves the mapped tables alone is a stuttering step there.
LEMMA AtomicStutter ==
  ASSUME UNCHANGED <<spent, origin, revoked, family, replacedBy>>
  PROVE  UNCHANGED Atomic!vars
  BY DEF Atomic!vars

\* Of the statements of an exchange, spending the code and founding the grant show.
LEMMA AtomicExchange == ASSUME IInv, NEW p \in Requests, Exchange(p) PROVE [Atomic!Next]_(Atomic!vars)
  <1>1. CASE ConsumeFresh(p) \/ ConsumeAndRefuse(p)
    <2>1. Atomic!Spend(code[p]) /\ code[p] \in Codes
      BY <1>1, NoneIsNoId DEF IInv, TypeOK, TablesOK, RequestsOK, Locals, ConsumeFresh, ConsumeAndRefuse,
         Consumable, Atomic!Spend, grantVars, pairVars
    <2> QED
      BY <2>1 DEF Atomic!Next
  <1>2. CASE EstablishGrant(p)
    <2>1. Atomic!Found(code[p], grant[p], minted[p])
      BY <1>2 DEF IInv, TypeOK, TablesOK, RequestsOK, Locals, Drawing, Establishing, Rotating,
         EstablishGrant, Atomic!Found
    <2>2. code[p] \in Codes /\ grant[p] \in Grants /\ minted[p] \in Tokens
      BY <1>2 DEF IInv, TypeOK, RequestsOK, Locals, Establishing, Rotating, EstablishGrant
    <2> QED
      BY <2>1, <2>2 DEF Atomic!Next
  <1>3. CASE ~(ConsumeFresh(p) \/ ConsumeAndRefuse(p) \/ EstablishGrant(p))
    <2>1. UNCHANGED <<spent, origin, revoked, family, replacedBy>>
      BY <1>3 DEF Exchange, StartExchange, ConsumeMiss, LookupUnusable, LookupReplay,
         LookupReplayOfGrant, Replayed, tables, codeVars, grantVars, pairVars
    <2> QED
      BY <2>1, AtomicStutter
  <1> QED
    BY <1>1, <1>2, <1>3

\* Of a rotation, only its commit shows.
LEMMA AtomicRotate == ASSUME IInv, NEW p \in Requests, Rotate(p) PROVE [Atomic!Next]_(Atomic!vars)
  <1>1. CASE CommitRotation(p)
    <2>1. Atomic!Advance(tok[p], minted[p])
      BY <1>1 DEF IInv, TypeOK, TablesOK, RequestsOK, Locals, Locking, Drawing, Rotating, CommitRotation,
         Atomic!Advance, codeVars, grantVars
    <2>2. tok[p] \in Tokens /\ minted[p] \in Tokens
      BY <1>1 DEF IInv, TypeOK, RequestsOK, Locals, Rotating, CommitRotation
    <2> QED
      BY <2>1, <2>2 DEF Atomic!Next
  <1>2. CASE ~CommitRotation(p)
    <2>1. UNCHANGED <<spent, origin, revoked, family, replacedBy>>
      BY <1>2 DEF Rotate, StartRotate, RotateRefused, RotateReplay, RotateTheft, RotateAccept, IssueTokens,
         Seal, Unseal, tables, codeVars, grantVars, pairVars
    <2> QED
      BY <2>1, AtomicStutter
  <1> QED
    BY <1>1, <1>2

\* Of a revocation, only its commit shows.
LEMMA AtomicRevoke == ASSUME IInv, NEW p \in Requests, Revoke(p) PROVE [Atomic!Next]_(Atomic!vars)
  <1>1. CASE CommitRevoke(p)
    <2>1. Atomic!End(grant[p]) /\ grant[p] \in Grants
      BY <1>1 DEF IInv, TypeOK, RequestsOK, Locals, Revoking, CommitRevoke, Atomic!End, codeVars
    <2> QED
      BY <2>1 DEF Atomic!Next
  <1>2. CASE ~CommitRevoke(p)
    <2>1. UNCHANGED <<spent, origin, revoked, family, replacedBy>>
      BY <1>2 DEF Revoke, StartRevoke, StartDisconnect, LockGrant, DisconnectNothing, UpdateGrant,
         DeleteAccess, ScanRefresh, UpdateRefresh, Announce, tables, codeVars, grantVars, pairVars
    <2> QED
      BY <2>1, AtomicStutter
  <1> QED
    BY <1>1, <1>2

\* Every step maps to a step or a stutter.
LEMMA AtomicStep == IInv /\ [Next]_vars => [Atomic!Next]_(Atomic!vars)
  <1> SUFFICES ASSUME IInv, [Next]_vars PROVE [Atomic!Next]_(Atomic!vars)
    OBVIOUS
  <1>1. ASSUME NEW p \in Requests, Abort(p) PROVE UNCHANGED <<spent, origin, revoked, family, replacedBy>>
    BY <1>1 DEF Abort, tables, codeVars, grantVars, pairVars
  <1>2. ASSUME Restart PROVE UNCHANGED <<spent, origin, revoked, family, replacedBy>>
    BY <1>2 DEF Restart, tables, codeVars, grantVars, pairVars
  <1>3. ASSUME Time PROVE UNCHANGED <<spent, origin, revoked, family, replacedBy>>
    BY <1>3 DEF Time, CloseGrace, ExpireSeal, ExpireRefresh, PruneAccess, ExpireCode, PruneRefresh,
       PruneCodes, tables, codeVars, grantVars, pairVars
  <1>4. ASSUME UNCHANGED vars PROVE UNCHANGED <<spent, origin, revoked, family, replacedBy>>
    BY <1>4 DEF vars, tables, codeVars, grantVars, pairVars
  <1> QED
    BY <1>1, <1>2, <1>3, <1>4, AtomicExchange, AtomicRotate, AtomicRevoke, AtomicStutter DEF Next, Token

\* The statement-level endpoint implements the atomic one: a code is spent once
\* and founds one grant, a line only ever advances at its head, and an ended
\* grant stays ended, under every interleaving, failure and restart.
THEOREM Refinement == Spec => ImplementsFamily
  BY AtomicInit, AtomicStep, Invariance, PTL DEF Spec, ImplementsFamily, Atomic!Spec
=============================================================================
