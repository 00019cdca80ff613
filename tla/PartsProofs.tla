----------------------------- MODULE PartsProofs -----------------------------
(* Proofs of possession, bodies at the gate and peppers, for any settings    *)
(* that cover each other: see the headings below.                            *)
EXTENDS MCParts, Sequences, FiniteSetTheorems, TLAPS

USE PeriodsCover, BoundsAreNat

-----------------------------------------------------------------------------
(* ProofOfPossession.  A proof is first claimed no earlier than its iat     *)
(* allows on the clock that is furthest ahead, and last no later than it    *)
(* allows on the one furthest behind, and Delay more (Young).  An id        *)
(* accepted is remembered from the first of these times on (Remembers), past the *)
(* last: that is what PeriodsCover is for.                                  *)

\* When a presentation is past its check, the proof was young enough on some
\* clock, no more than Delay ago.
Young ==
  \A c \in checked :
    /\ now <= c.due
    /\ iat[c.proof] - ClockTolerance - Skew <= now
    /\ c.due <= iat[c.proof] + MaxAge + ClockTolerance + Skew + Delay

\* The ids of the proofs accepted are remembered for long enough.
Remembers ==
  \A p \in Proofs : accepted[p] > 0 /\ ~forgot =>
    /\ accepted[p] = 1
    /\ iat[p] - ClockTolerance - Skew + Remembered <= until[p]

PInv == Possession!TypeOK /\ Young /\ Remembers

\* Nothing is presented at first.
LEMMA ProofInit == ASSUME Possession!Init PROVE PInv
  <1>1. Possession!TypeOK
    <2>1. iat \in [Proofs -> Int]
      BY DEF Possession!Init
    <2>2. until \in [Proofs -> Int] /\ accepted \in [Proofs -> Nat]
      BY DEF Possession!Init
    <2>3. kind \in {"memory", "redis"} /\ now \in Int /\ ahead \in [Requests -> -Skew..Skew]
      BY DEF Possession!Init
    <2>4. checked \subseteq [proof : Proofs, due : Int]
      BY DEF Possession!Init
    <2>5. forgot \in BOOLEAN
      BY Zenon DEF Possession!Init
    <2> QED
      BY <2>1, <2>2, <2>3, <2>4, <2>5, Zenon DEF Possession!TypeOK
  <1>2. Young /\ Remembers
    BY DEF Possession!Init, Young, Remembers
  <1> QED
    BY <1>1, <1>2 DEF PInv

\* A check that passes is of a proof that is young enough (verifyDpopProof).
LEMMA ProofCheck ==
  ASSUME PInv, NEW p \in Proofs, NEW s \in Requests, Possession!Check(p, s)
  PROVE  PInv'
  <1> DEFINE new == [proof |-> p, due |-> now + Delay]
  <1>1. new \in [proof : Proofs, due : Int] /\ now \in Int /\ iat[p] \in Int
    BY DEF PInv, Possession!TypeOK
  <1>2. ahead[s] \in Int /\ -Skew <= ahead[s] /\ ahead[s] <= Skew
    BY DEF PInv, Possession!TypeOK
  <1>3. now <= now + Delay /\ iat[p] - ClockTolerance - Skew <= now
        /\ now + Delay <= iat[p] + MaxAge + ClockTolerance + Skew + Delay
    BY <1>1, <1>2 DEF Possession!Check, Possession!AgeValid, Possession!Clock
  <1>4. Possession!TypeOK'
    BY <1>1 DEF PInv, Possession!TypeOK, Possession!Check
  <1>5. Young'
    BY <1>3 DEF PInv, Young, Possession!Check
  <1>6. Remembers'
    BY DEF PInv, Remembers, Possession!Check
  <1> QED
    BY <1>4, <1>5, <1>6 DEF PInv

\* An id is taken only when it is not remembered, and then never again
\* (MemoryReplayStore.claim).
LEMMA ProofClaim ==
  ASSUME PInv, NEW c \in checked, Possession!Claim(c)
  PROVE  PInv'
  <1> DEFINE p == c.proof
  <1>1. /\ p \in Proofs /\ c.due \in Int /\ now \in Int
        /\ iat[p] \in Int /\ until[p] \in Int /\ accepted[p] \in Nat
    BY DEF PInv, Possession!TypeOK
  <1>2. /\ now <= c.due /\ iat[p] - ClockTolerance - Skew <= now
        /\ c.due <= iat[p] + MaxAge + ClockTolerance + Skew + Delay
    BY DEF PInv, Young
  <1>3. checked' \subseteq checked /\ UNCHANGED <<kind, now, ahead, iat, forgot>>
    BY DEF Possession!Claim
  <1>4. Young'
    BY <1>3 DEF PInv, Young
  <1>5. CASE now < until[p]
    <2>1. UNCHANGED <<until, accepted>>
      BY <1>5 DEF Possession!Claim
    <2> QED
      BY <1>3, <1>4, <2>1 DEF PInv, Possession!TypeOK, Remembers
  <1>6. CASE ~(now < until[p])
    <2>1. /\ until' = [until EXCEPT ![p] = now + Remembered]
          /\ accepted' = [accepted EXCEPT ![p] = @ + 1]
      BY <1>6 DEF Possession!Claim, Possession!ForgottenAt
    <2>2. Possession!TypeOK'
      BY <1>1, <1>3, <2>1 DEF PInv, Possession!TypeOK
    <2>3. ~forgot => accepted[p] = 0
      BY <1>1, <1>2, <1>6 DEF PInv, Remembers
    <2>4. until'[p] = now + Remembered /\ accepted'[p] = accepted[p] + 1
      BY <1>1, <2>1 DEF PInv, Possession!TypeOK
    <2>5. iat[p] - ClockTolerance - Skew + Remembered <= now + Remembered
      BY <1>1, <1>2
    <2>6. ASSUME NEW q \in Proofs, q # p
          PROVE  until'[q] = until[q] /\ accepted'[q] = accepted[q]
      BY <2>1, <2>6 DEF PInv, Possession!TypeOK
    <2>7. Remembers'
      BY <1>3, <2>3, <2>4, <2>5, <2>6 DEF PInv, Remembers
    <2> QED
      BY <1>4, <2>2, <2>7 DEF PInv
  <1> QED
    BY <1>5, <1>6

\* A claim whose answer is lost may have taken the id; it is remembered for no
\* less long (guarded).
LEMMA ProofClaimFails ==
  ASSUME PInv, NEW c \in checked, Possession!ClaimFails(c)
  PROVE  PInv'
  <1> DEFINE p == c.proof
  <1>1. p \in Proofs /\ now \in Int /\ until[p] \in Int /\ iat[p] \in Int
    BY DEF PInv, Possession!TypeOK
  <1>2. checked' \subseteq checked /\ UNCHANGED <<kind, now, ahead, iat, accepted, forgot>>
    BY DEF Possession!ClaimFails
  <1>3. Young'
    BY <1>2 DEF PInv, Young
  <1>4. CASE until' = until
    BY <1>2, <1>3, <1>4 DEF PInv, Possession!TypeOK, Remembers
  <1>5. CASE until' # until
    <2>1. until' = [until EXCEPT ![p] = now + Remembered] /\ ~(now < until[p])
      BY <1>5 DEF Possession!ClaimFails, Possession!ForgottenAt
    <2>2. Possession!TypeOK'
      BY <1>1, <1>2, <2>1 DEF PInv, Possession!TypeOK
    <2>3. until[p] <= until'[p]
      BY <1>1, <2>1 DEF PInv, Possession!TypeOK
    <2>4. ASSUME NEW q \in Proofs PROVE until[q] <= until'[q] /\ until[q] \in Int /\ until'[q] \in Int /\ iat[q] \in Int
      BY <1>1, <2>1, <2>2, <2>3 DEF PInv, Possession!TypeOK
    <2>5. Remembers'
      BY <1>2, <2>4 DEF PInv, Remembers
    <2> QED
      BY <1>3, <2>2, <2>5 DEF PInv
  <1> QED
    BY <1>4, <1>5

\* Time passes only while no presentation is due.
LEMMA ProofTick == ASSUME PInv, Possession!Tick PROVE PInv'
  <1>1. Possession!TypeOK'
    BY DEF PInv, Possession!TypeOK, Possession!Tick
  <1>2. Young'
    BY DEF PInv, Possession!TypeOK, Young, Possession!Tick
  <1>3. Remembers'
    BY DEF PInv, Remembers, Possession!Tick
  <1> QED
    BY <1>1, <1>2, <1>3 DEF PInv

\* A restart with the ids kept in the process forgets them.
LEMMA ProofRestart == ASSUME PInv, Possession!Restart PROVE PInv'
  BY DEF PInv, Possession!TypeOK, Young, Remembers, Possession!Restart

\* The invariant holds in every state, whatever the servers, their clocks and
\* the periods, as long as an id is remembered for long enough.
THEOREM ProofInvariant == Possession!Spec => []PInv
  <1>1. Possession!Init => PInv
    BY ProofInit
  <1>2. PInv /\ [Possession!Next]_(Possession!vars) => PInv'
    <2> SUFFICES ASSUME PInv, [Possession!Next]_(Possession!vars) PROVE PInv'
      OBVIOUS
    <2>1. ASSUME NEW p \in Proofs, NEW s \in Requests, Possession!Check(p, s) PROVE PInv'
      BY <2>1, ProofCheck
    <2>2. ASSUME NEW c \in checked, Possession!Claim(c) PROVE PInv'
      BY <2>2, ProofClaim
    <2>3. ASSUME NEW c \in checked, Possession!ClaimFails(c) PROVE PInv'
      BY <2>3, ProofClaimFails
    <2>4. CASE Possession!Tick
      BY <2>4, ProofTick
    <2>5. CASE Possession!Restart
      BY <2>5, ProofRestart
    <2>6. CASE UNCHANGED Possession!vars
      BY <2>6 DEF PInv, Possession!TypeOK, Young, Remembers, Possession!vars
    <2> QED
      BY <2>1, <2>2, <2>3, <2>4, <2>5, <2>6 DEF Possession!Next
  <1> QED
    BY <1>1, <1>2, PTL DEF Possession!Spec

\* A proof is accepted once unless ids were forgotten (verifyDpopProof and the
\* replay stores).
THEOREM ProofsAreGoodOnce == Possession!Spec => []NoProofTwice
  <1>1. PInv => NoProofTwice
    BY DEF PInv, Possession!TypeOK, Remembers, NoProofTwice, Possession!NoProofTwice
  <1> QED
    BY <1>1, ProofInvariant, PTL

-----------------------------------------------------------------------------
(* McpGate.  A caller is verified only when the token allows every call of  *)
(* the body, and past the proof; from then on neither the body nor the token*)
(* of the request changes, whatever tokens come and go for its grant.       *)

\* What makes a request good for the whole of its body.
Allows(q) == q.token # None /\ Gate!NeededBy(q.calls, Gate!ProtectedIn(q.calls)) \subseteq q.token
Proven(q) == bound => q.proof

\* How far a request has come, and what is known of it by then.
Passed(r) ==
  /\ greq[r].verified = "ok" => Allows(greq[r])
  /\ gpc[r] = "verify" => greq[r].token # None
  /\ gpc[r] = "decide" /\ greq[r].verified = "ok" => Proven(greq[r])
  /\ greq[r].caller = "verified" => Allows(greq[r]) /\ Proven(greq[r])
  /\ done[r].performed # {} => Allows(greq[r]) /\ Proven(greq[r])

GInv == Gate!TypeOK /\ \A r \in Posts : Passed(r)

\* A step of one request that keeps what is known of it.
LEMMA GateMove ==
  ASSUME GInv, NEW r \in Posts, Gate!TypeOK', Passed(r)', bound' = bound,
         \A q \in Posts \ {r} : gpc'[q] = gpc[q] /\ greq'[q] = greq[q] /\ done'[q] = done[q]
  PROVE  GInv'
  <1>1. \A q \in Posts \ {r} : Passed(q)'
    BY DEF GInv, Passed, Proven, Allows
  <1> QED
    BY <1>1 DEF GInv

\* At first nothing is posted.
LEMMA GateInit == ASSUME Gate!Init PROVE GInv
  <1>1. Gate!NoReq \in [calls : Gate!Bodies \cup {<<>>}, token : TokenScopes \cup {None}, proof : BOOLEAN, trusted : BOOLEAN,
          verified : {None, "ok", "invalid_token", "insufficient_scope"}, caller : {"anonymous", "verified"}]
    BY DEF Gate!NoReq
  <1>2. Gate!Nothing \in [answered : SUBSET (1..MaxCalls), performed : SUBSET (1..MaxCalls)]
    BY DEF Gate!Nothing
  <1>3. bound \in BOOLEAN /\ unrevoked \in BOOLEAN
    BY Zenon DEF Gate!Init
  <1>4. Gate!TypeOK
    BY <1>1, <1>2, <1>3 DEF Gate!Init, Gate!TypeOK
  <1>5. ASSUME NEW r \in Posts PROVE Passed(r)
    BY NoneIsNoValue DEF Gate!Init, Passed, Gate!NoReq, Gate!Nothing
  <1> QED
    BY <1>4, <1>5 DEF GInv

PostType ==
  [calls : Gate!Bodies \cup {<<>>}, token : TokenScopes \cup {None}, proof : BOOLEAN, trusted : BOOLEAN,
   verified : {None, "ok", "invalid_token", "insufficient_scope"}, caller : {"anonymous", "verified"}]
DoneType == [answered : SUBSET (1..MaxCalls), performed : SUBSET (1..MaxCalls)]

\* A request begins with nothing known of it (McpGate's handler).
LEMMA GateArrive ==
  ASSUME GInv, NEW r \in Posts, NEW calls \in Gate!Bodies, NEW token \in TokenScopes \cup {None},
         NEW proof \in BOOLEAN, NEW trusted \in BOOLEAN, Gate!Arrive(r, calls, token, proof, trusted)
  PROVE  GInv'
  <1> DEFINE new == [Gate!NoReq EXCEPT !.calls = calls, !.token = token, !.proof = proof, !.trusted = trusted]
  <1>1. new \in PostType /\ new.token = token /\ new.verified = None /\ new.caller = "anonymous"
    BY DEF PostType, Gate!NoReq
  <1>2. Gate!Nothing \in DoneType /\ Gate!Nothing.performed = {}
    BY DEF DoneType, Gate!Nothing
  <1>3. greq' = [greq EXCEPT ![r] = new] /\ done' = [done EXCEPT ![r] = Gate!Nothing]
        /\ gpc' = [gpc EXCEPT ![r] = IF token = None THEN "count" ELSE "verify"]
        /\ UNCHANGED <<bound, unrevoked, scopes>>
    BY DEF Gate!Arrive, Gate!Goto
  <1> HIDE DEF new
  <1>4. Gate!TypeOK'
    BY <1>1, <1>2, <1>3 DEF GInv, Gate!TypeOK, PostType, DoneType
  <1>5. greq'[r] = new /\ done'[r] = Gate!Nothing /\ (gpc'[r] = "verify" => token # None) /\ gpc'[r] # "decide"
    BY <1>3 DEF GInv, Gate!TypeOK
  <1>6. Passed(r)'
    BY <1>1, <1>2, <1>5, NoneIsNoValue DEF Passed
  <1>7. \A q \in Posts \ {r} : gpc'[q] = gpc[q] /\ greq'[q] = greq[q] /\ done'[q] = done[q]
    BY <1>3 DEF GInv, Gate!TypeOK
  <1> QED
    BY <1>3, <1>4, <1>6, <1>7, GateMove

\* A token that is good for every call of the body is verified (verify).
LEMMA GateVerify == ASSUME GInv, NEW r \in Posts, Gate!Verify(r) PROVE GInv'
  <1> DEFINE new == [greq[r] EXCEPT !.verified = Gate!Verified(greq[r])]
  <1>0. greq[r] \in PostType
    BY DEF GInv, Gate!TypeOK, PostType
  <1>1. Gate!Verified(greq[r]) \in {"ok", "invalid_token", "insufficient_scope"}
    BY DEF Gate!Verified
  <1>2. /\ new \in PostType
        /\ new.token = greq[r].token /\ new.calls = greq[r].calls /\ new.proof = greq[r].proof
        /\ new.caller = greq[r].caller /\ new.verified = Gate!Verified(greq[r])
    BY <1>0, <1>1 DEF PostType
  <1>3. greq' = [greq EXCEPT ![r] = new] /\ gpc' = [gpc EXCEPT ![r] = "count"] /\ gpc[r] = "verify"
        /\ UNCHANGED <<bound, unrevoked, scopes, done>>
    BY DEF Gate!Verify, Gate!Goto
  <1>4. new.verified = "ok" => Allows(new)
    BY <1>2, <1>3 DEF Gate!Verified, Gate!ScopesIn, Allows, GInv, Passed
  <1> HIDE DEF new
  <1>5. Gate!TypeOK'
    BY <1>2, <1>3 DEF GInv, Gate!TypeOK, PostType
  <1>6. greq'[r] = new /\ done'[r] = done[r] /\ gpc'[r] = "count"
    BY <1>3 DEF GInv, Gate!TypeOK
  <1>7. Passed(r)'
    BY <1>2, <1>3, <1>4, <1>6 DEF GInv, Passed, Allows, Proven
  <1>8. \A q \in Posts \ {r} : gpc'[q] = gpc[q] /\ greq'[q] = greq[q] /\ done'[q] = done[q]
    BY <1>3 DEF GInv, Gate!TypeOK
  <1> QED
    BY <1>3, <1>5, <1>7, <1>8, GateMove

\* A verified request goes on with its proof, when its grant is bound (gate).
LEMMA GatePass ==
  ASSUME GInv, NEW r \in Posts, Gate!Count(r) \/ Gate!Prove(r) \/ Gate!Respond(r)
  PROVE  GInv'
  <1>1. UNCHANGED <<bound, unrevoked, scopes, greq, done>>
    BY DEF Gate!Count, Gate!Prove, Gate!Respond
  <1>2. PICK step \in {"prove", "idle", "decide"} : gpc' = [gpc EXCEPT ![r] = step]
                                 /\ (step = "decide" => ~(greq[r].verified = "ok" /\ bound /\ ~greq[r].proof))
    BY DEF Gate!Count, Gate!Prove, Gate!Respond, Gate!Goto
  <1>3. Gate!TypeOK'
    BY <1>1, <1>2 DEF GInv, Gate!TypeOK
  <1>4. gpc'[r] = step /\ (\A q \in Posts \ {r} : gpc'[q] = gpc[q])
    BY <1>2 DEF GInv, Gate!TypeOK
  <1>5. Passed(r)'
    BY <1>1, <1>2, <1>4 DEF GInv, Passed, Allows, Proven
  <1> QED
    BY <1>1, <1>3, <1>4, <1>5, GateMove

\* Its caller is who the token was verified for, or nobody (gate).
LEMMA GateDecide == ASSUME GInv, NEW r \in Posts, Gate!Decide(r) PROVE GInv'
  <1> DEFINE caller == IF greq[r].verified = "ok" THEN "verified" ELSE "anonymous"
  <1> DEFINE new == [greq[r] EXCEPT !.caller = caller]
  <1>0. greq[r] \in PostType
    BY DEF GInv, Gate!TypeOK, PostType
  <1>2. /\ new \in PostType
        /\ new.token = greq[r].token /\ new.calls = greq[r].calls /\ new.proof = greq[r].proof
        /\ new.verified = greq[r].verified /\ (new.caller = "verified" => greq[r].verified = "ok")
    BY <1>0 DEF PostType
  <1>3. greq' = [greq EXCEPT ![r] = new] /\ gpc[r] = "decide" /\ UNCHANGED <<bound, unrevoked, scopes, done>>
    BY DEF Gate!Decide
  <1>4. PICK step \in {"run", "idle"} : gpc' = [gpc EXCEPT ![r] = step]
    BY DEF Gate!Decide, Gate!Goto
  <1> HIDE DEF new
  <1>5. Gate!TypeOK'
    BY <1>2, <1>3, <1>4 DEF GInv, Gate!TypeOK, PostType
  <1>6. greq'[r] = new /\ done'[r] = done[r] /\ gpc'[r] = step
    BY <1>3, <1>4 DEF GInv, Gate!TypeOK
  <1>7. Passed(r)'
    BY <1>2, <1>3, <1>4, <1>6 DEF GInv, Passed, Allows, Proven
  <1>8. \A q \in Posts \ {r} : gpc'[q] = gpc[q] /\ greq'[q] = greq[q] /\ done'[q] = done[q]
    BY <1>3, <1>4 DEF GInv, Gate!TypeOK
  <1> QED
    BY <1>3, <1>5, <1>7, <1>8, GateMove

\* A call is performed for a verified caller only (the handlers of tools.ts).
LEMMA GateCall ==
  ASSUME GInv, NEW r \in Posts, NEW i \in 1..MaxCalls,
         Gate!ReadTool(r, i) \/ Gate!WriteTool(r, i) \/ Gate!PublicTool(r, i) \/ Gate!UnknownTool(r, i)
  PROVE  GInv'
  <1>1. UNCHANGED <<bound, unrevoked, gpc, greq>>
    BY DEF Gate!ReadTool, Gate!WriteTool, Gate!PublicTool, Gate!UnknownTool, Gate!Calling
  <1>2. PICK performed \in BOOLEAN : Gate!Answer(r, i, performed) /\ (performed => greq[r].caller = "verified")
    BY DEF Gate!ReadTool, Gate!WriteTool, Gate!PublicTool, Gate!UnknownTool, Gate!OnDevices, Gate!NotPerformed
  <1>3. scopes' \subseteq Gate!ToolScopes
    <2>1. ASSUME NEW scope \in Gate!ToolScopes, Gate!OnDevices(r, i, scope)
          PROVE  scopes' \subseteq Gate!ToolScopes
      BY <2>1 DEF GInv, Gate!TypeOK, Gate!OnDevices, Gate!Held, Gate!Exchange, Gate!Refused
    <2>2. CASE Gate!ReadTool(r, i)
      <3>1. "devices:read" \in Gate!ToolScopes
        BY DEF Gate!ToolScopes
      <3> QED
        BY <2>1, <2>2, <3>1 DEF GInv, Gate!TypeOK, Gate!ReadTool, Gate!NotPerformed
    <2>3. CASE Gate!WriteTool(r, i)
      <3>1. greq[r].calls[i] \in {"control_device", "add_device"}
        BY <2>3 DEF Gate!WriteTool, Gate!Calling
      <3>2. Gate!TOOL_POLICY[greq[r].calls[i]] \in Gate!ToolScopes
        BY <3>1 DEF Gate!ToolScopes, Gate!TOOL_POLICY
      <3> QED
        BY <2>1, <2>3, <3>2 DEF GInv, Gate!TypeOK, Gate!WriteTool, Gate!NotPerformed
    <2>4. CASE Gate!PublicTool(r, i) \/ Gate!UnknownTool(r, i)
      BY <2>4 DEF GInv, Gate!TypeOK, Gate!PublicTool, Gate!UnknownTool, Gate!NotPerformed
    <2> QED
      BY <2>2, <2>3, <2>4
  <1> DEFINE new == [answered  |-> done[r].answered \cup {i},
                     performed |-> done[r].performed \cup (IF performed THEN {i} ELSE {})]
  <1>4. done' = [done EXCEPT ![r] = new]
    BY <1>2 DEF Gate!Answer
  <1>5. new \in DoneType /\ new.performed = done[r].performed \cup (IF performed THEN {i} ELSE {})
    <2>1. done[r] \in DoneType
      BY DEF GInv, Gate!TypeOK, DoneType
    <2> QED
      BY <2>1 DEF DoneType
  <1> HIDE DEF new
  <1>6. Gate!TypeOK'
    BY <1>1, <1>3, <1>4, <1>5 DEF GInv, Gate!TypeOK, DoneType
  <1>7. done'[r] = new /\ (\A q \in Posts \ {r} : done'[q] = done[q])
    BY <1>4 DEF GInv, Gate!TypeOK
  <1>8. Passed(r)'
    BY <1>1, <1>2, <1>5, <1>7 DEF GInv, Passed, Allows, Proven
  <1> QED
    BY <1>1, <1>6, <1>7, <1>8, GateMove

\* Tokens held for the grant come and go, and no request is touched.
LEMMA GateElse ==
  ASSUME GInv, Gate!Revoke \/ (\E scope \in scopes : Gate!Expire(scope)) \/ UNCHANGED Gate!vars
  PROVE  GInv'
  <1>1. UNCHANGED <<bound, gpc, greq, done>> /\ scopes' \subseteq scopes
    BY DEF Gate!Revoke, Gate!Expire, Gate!vars
  <1>2. unrevoked' \in BOOLEAN
    BY Zenon DEF Gate!Revoke, Gate!Expire, Gate!vars, GInv, Gate!TypeOK
  <1>3. Gate!TypeOK'
    BY <1>1, <1>2 DEF GInv, Gate!TypeOK
  <1>4. \A r \in Posts : Passed(r)'
    BY <1>1 DEF GInv, Passed, Allows, Proven
  <1> QED
    BY <1>3, <1>4 DEF GInv

\* However many requests, tools, tokens and calls there are.
LEMMA GateInvariant == Gate!Spec => []GInv
  <1>1. Gate!Init => GInv
    BY GateInit
  <1>2. GInv /\ [Gate!Next]_(Gate!vars) => GInv'
    <2> SUFFICES ASSUME GInv, [Gate!Next]_(Gate!vars) PROVE GInv'
      OBVIOUS
    <2>1. ASSUME NEW r \in Posts, NEW calls \in Gate!Bodies, NEW token \in TokenScopes \cup {None},
                 NEW proof \in BOOLEAN, NEW trusted \in BOOLEAN, Gate!Arrive(r, calls, token, proof, trusted)
          PROVE  GInv'
      BY <2>1, GateArrive
    <2>2. ASSUME NEW r \in Posts, Gate!Verify(r) PROVE GInv'
      BY <2>2, GateVerify
    <2>3. ASSUME NEW r \in Posts, Gate!Count(r) \/ Gate!Prove(r) \/ Gate!Respond(r) PROVE GInv'
      BY <2>3, GatePass
    <2>4. ASSUME NEW r \in Posts, Gate!Decide(r) PROVE GInv'
      BY <2>4, GateDecide
    <2>5. ASSUME NEW r \in Posts, NEW i \in 1..MaxCalls,
                 Gate!ReadTool(r, i) \/ Gate!WriteTool(r, i) \/ Gate!PublicTool(r, i) \/ Gate!UnknownTool(r, i)
          PROVE  GInv'
      BY <2>5, GateCall
    <2>6. CASE Gate!Revoke \/ (\E scope \in scopes : Gate!Expire(scope)) \/ UNCHANGED Gate!vars
      BY <2>6, GateElse
    <2> QED
      BY <2>1, <2>2, <2>3, <2>4, <2>5, <2>6 DEF Gate!Next
  <1> QED
    BY <1>1, <1>2, PTL DEF Gate!Spec

\* A body runs as a whole or not at all: no call of it is performed on a token
\* that may not make every other, or on a bound token without its proof (gate).
THEOREM BodiesRunAsAWhole == Gate!Spec => []NothingRidesAlong
  <1>1. GInv => NothingRidesAlong
    BY DEF GInv, Passed, Allows, Proven, NothingRidesAlong, Gate!NothingRidesAlong
  <1> QED
    BY <1>1, GateInvariant, PTL
-----------------------------------------------------------------------------
(* KeyRotation.  While no command writes over another's change, a process   *)
(* has read the file as it is, or as it was before the last rotation, whose *)
(* pepper the file still holds second.  A rotation that is under way was    *)
(* begun when all that runs or lives was at the first pepper (Due), and it  *)
(* remains so until the file is written.                                    *)

KeyFiles == Seq(Nat)
Made(s) == \A i \in 1..Len(s) : s[i] <= made

FileTypes ==
  /\ file \in KeyFiles /\ made \in Nat
  /\ loaded \in [Processes -> KeyFiles] /\ opening \in [Processes -> Nat \cup {None}]
  /\ cmd \in [Requests -> [does : {"nothing", "rotate-pepper", "rotate-signing"}, read : KeyFiles]]
  /\ overlapped \in BOOLEAN

\* Peppers are numbered in the order they are made.
AllMade ==
  /\ Made(file)
  /\ \A p \in Processes : opening[p] # None => opening[p] <= made
  /\ \A c \in Requests : Made(cmd[c].read)

\* Before there is a file, nothing has been read of it.
FileFirst ==
  file = <<>> => /\ alive = {}
                 /\ \A p \in Processes : loaded[p] = <<>>
                 /\ \A c \in Requests : cmd[c] = Peppers!Idle

ReadsAre == \A c \in Requests : cmd[c] # Peppers!Idle => cmd[c].read # <<>>

OneBehind ==
  \A p \in Processes :
    loaded[p] # <<>> => loaded[p] = file \/ (Len(file) >= 2 /\ loaded[p][1] = file[2])

Stored == \A k \in alive : \E i \in 1..Len(file) : i <= 2 /\ file[i] = k

DueStill ==
  \A c \in Requests :
    cmd[c].does = "rotate-pepper" /\ cmd[c].read = file
      => /\ \A k \in alive : k = file[1]
         /\ \A p \in Processes : loaded[p] # <<>> => loaded[p][1] = file[1]

KInv == FileTypes /\ AllMade /\ FileFirst /\ ReadsAre /\ (~overlapped => OneBehind /\ Stored /\ DueStill)

\* There is no file at first.
LEMMA KeysInit == ASSUME Peppers!Init PROVE KInv
  <1>1. Peppers!Idle \in [does : {"nothing", "rotate-pepper", "rotate-signing"}, read : KeyFiles]
        /\ Peppers!Idle.read = <<>> /\ <<>> \in KeyFiles
    BY DEF Peppers!Idle, KeyFiles
  <1>2. FileTypes
    <2>1. overlapped \in BOOLEAN
      BY Zenon DEF Peppers!Init
    <2> QED
      BY <1>1, <2>1 DEF Peppers!Init, FileTypes
  <1>3. AllMade /\ FileFirst /\ ReadsAre
    BY <1>1 DEF Peppers!Init, AllMade, FileFirst, ReadsAre, Made
  <1>4. OneBehind /\ Stored /\ DueStill
    BY <1>1 DEF Peppers!Init, OneBehind, Stored, DueStill, Peppers!Idle
  <1> QED
    BY <1>2, <1>3, <1>4 DEF KInv

\* A process reads the file as it is (openEnvelope).
LEMMA KeysOpen == ASSUME KInv, NEW p \in Processes, Peppers!Open(p) PROVE KInv'
  <1>1. UNCHANGED <<file, cmd, alive, overlapped>>
    BY DEF Peppers!Open
  <1>2. CASE file = <<>>
    <2>1. made' = made + 1 /\ opening' = [opening EXCEPT ![p] = made + 1] /\ UNCHANGED loaded
      BY <1>2 DEF Peppers!Open
    <2>2. FileTypes'
      BY <1>1, <2>1 DEF KInv, FileTypes
    <2>3. AllMade'
      BY <1>1, <2>1 DEF KInv, FileTypes, AllMade, Made, KeyFiles
    <2> QED
      BY <1>1, <2>1, <2>2, <2>3 DEF KInv, FileFirst, ReadsAre, OneBehind, Stored, DueStill
  <1>3. CASE file # <<>>
    <2>1. loaded' = [loaded EXCEPT ![p] = file] /\ UNCHANGED <<made, opening>>
      BY <1>3 DEF Peppers!Open
    <2>2. FileTypes'
      BY <1>1, <2>1 DEF KInv, FileTypes
    <2>3. \A q \in Processes : loaded'[q] = IF q = p THEN file ELSE loaded[q]
      BY <2>1 DEF KInv, FileTypes
    <2>4. AllMade' /\ FileFirst' /\ ReadsAre'
      BY <1>1, <1>3, <2>1 DEF KInv, AllMade, Made, FileFirst, ReadsAre
    <2>5. ~overlapped => OneBehind' /\ Stored' /\ DueStill'
      BY <1>1, <2>3 DEF KInv, OneBehind, Stored, DueStill
    <2> QED
      BY <1>1, <2>2, <2>4, <2>5 DEF KInv
  <1> QED
    BY <1>2, <1>3

\* The first file is made once (createEnvelope).
LEMMA KeysCreate == ASSUME KInv, NEW p \in Processes, Peppers!Create(p) PROVE KInv'
  <1>1. UNCHANGED <<made, cmd, alive, overlapped>> /\ opening' = [opening EXCEPT ![p] = None] /\ opening[p] # None
    BY DEF Peppers!Create
  <1>2. opening[p] \in Nat
    BY <1>1 DEF KInv, FileTypes
  <1>3. CASE file = <<>>
    <2>1. file' = <<opening[p]>> /\ loaded' = [loaded EXCEPT ![p] = file']
      BY <1>3 DEF Peppers!Create
    <2>2. file' \in KeyFiles /\ Len(file') = 1 /\ file'[1] = opening[p] /\ file' # <<>>
      BY <1>2, <2>1 DEF KeyFiles
    <2>3. FileTypes'
      BY <1>1, <2>1, <2>2 DEF KInv, FileTypes
    <2>4. AllMade' /\ FileFirst' /\ ReadsAre'
      BY <1>1, <2>2 DEF KInv, FileTypes, AllMade, Made, FileFirst, ReadsAre
    <2>5. \A q \in Processes : loaded'[q] = file' \/ loaded'[q] = <<>>
      BY <1>3, <2>1 DEF KInv, FileTypes, FileFirst
    <2>6. OneBehind' /\ Stored'
      BY <1>1, <1>3, <2>5 DEF KInv, FileFirst, OneBehind, Stored
    <2>7. DueStill'
      BY <1>1, <1>3 DEF KInv, FileFirst, DueStill, Peppers!Idle
    <2> QED
      BY <2>3, <2>4, <2>6, <2>7 DEF KInv
  <1>4. CASE file # <<>>
    <2>1. UNCHANGED <<file, loaded>>
      BY <1>4 DEF Peppers!Create
    <2>2. FileTypes'
      BY <1>1, <2>1 DEF KInv, FileTypes
    <2>3. AllMade'
      BY <1>1, <2>1 DEF KInv, FileTypes, AllMade, Made
    <2> QED
      BY <1>1, <2>1, <2>2, <2>3 DEF KInv, FileFirst, ReadsAre, OneBehind, Stored, DueStill
  <1> QED
    BY <1>3, <1>4

\* A process that stops has read nothing.
LEMMA KeysStop == ASSUME KInv, NEW p \in Processes, Peppers!Stop(p) PROVE KInv'
  <1>1. UNCHANGED <<file, made, opening, cmd, alive, overlapped>> /\ loaded' = [loaded EXCEPT ![p] = <<>>]
    BY DEF Peppers!Stop
  <1>2. FileTypes'
    BY <1>1 DEF KInv, FileTypes, KeyFiles
  <1>3. \A q \in Processes : loaded'[q] = IF q = p THEN <<>> ELSE loaded[q]
    BY <1>1 DEF KInv, FileTypes
  <1> QED
    BY <1>1, <1>2, <1>3 DEF KInv, AllMade, Made, FileFirst, ReadsAre, OneBehind, Stored, DueStill

\* A token is stored under the first pepper of what its process has read
\* (tokenDigest).
LEMMA KeysMint == ASSUME KInv, NEW p \in Processes, Peppers!Mint(p) PROVE KInv'
  <1>1. UNCHANGED <<file, made, loaded, opening, cmd, overlapped>> /\ alive' = alive \cup {Head(loaded[p])}
        /\ loaded[p] # <<>>
    BY DEF Peppers!Mint
  <1>2. loaded[p] \in KeyFiles /\ file \in KeyFiles
    BY DEF KInv, FileTypes
  <1>3. Head(loaded[p]) = loaded[p][1] /\ Len(loaded[p]) >= 1
    BY <1>1, <1>2 DEF KeyFiles
  <1>4. FileTypes' /\ AllMade' /\ FileFirst' /\ ReadsAre'
    BY <1>1 DEF KInv, FileTypes, AllMade, Made, FileFirst, ReadsAre
  <1>5. ASSUME ~overlapped PROVE OneBehind' /\ Stored' /\ DueStill'
    <2>1. \E i \in 1..Len(file) : i <= 2 /\ file[i] = loaded[p][1]
      <3>1. CASE loaded[p] = file
        BY <1>2, <1>3, <3>1 DEF KeyFiles
      <3>2. CASE Len(file) >= 2 /\ loaded[p][1] = file[2]
        BY <1>2, <3>2 DEF KeyFiles
      <3> QED
        BY <1>1, <1>5, <3>1, <3>2 DEF KInv, OneBehind
    <2>2. Stored'
      BY <1>1, <1>3, <1>5, <2>1 DEF KInv, Stored
    <2>3. OneBehind'
      BY <1>1, <1>5 DEF KInv, OneBehind
    <2>4. DueStill'
      BY <1>1, <1>3, <1>5 DEF KInv, DueStill
    <2> QED
      BY <2>2, <2>3, <2>4
  <1> QED
    BY <1>1, <1>4, <1>5 DEF KInv

\* What has expired is not looked up.
LEMMA KeysExpire == ASSUME KInv, NEW k \in alive, Peppers!Expire(k) PROVE KInv'
  <1>1. UNCHANGED <<file, made, loaded, opening, cmd, overlapped>> /\ alive' \subseteq alive
    BY DEF Peppers!Expire
  <1>2. FileTypes' /\ AllMade' /\ ReadsAre'
    BY <1>1 DEF KInv, FileTypes, AllMade, Made, ReadsAre
  <1>3. FileFirst'
    BY <1>1 DEF KInv, FileFirst
  <1>4. ~overlapped => OneBehind' /\ Stored' /\ DueStill'
    BY <1>1 DEF KInv, OneBehind, Stored, DueStill
  <1> QED
    BY <1>1, <1>2, <1>3, <1>4 DEF KInv

\* A command that is to rotate begins when a rotation is due (tools/keys).
LEMMA KeysRun ==
  ASSUME KInv, NEW c \in Requests, NEW does \in {"rotate-pepper", "rotate-signing"}, Peppers!Run(c, does)
  PROVE  KInv'
  <1> DEFINE new == [does |-> does, read |-> file]
  <1>1. UNCHANGED <<file, made, loaded, opening, alive, overlapped>> /\ cmd' = [cmd EXCEPT ![c] = new] /\ file # <<>>
    BY DEF Peppers!Run
  <1>2. new.does = does /\ new.read = file
        /\ new \in [does : {"nothing", "rotate-pepper", "rotate-signing"}, read : KeyFiles]
    BY DEF KInv, FileTypes
  <1> HIDE DEF new
  <1>3. FileTypes'
    BY <1>1, <1>2 DEF KInv, FileTypes
  <1>4. cmd'[c] = new /\ (\A d \in Requests \ {c} : cmd'[d] = cmd[d])
    BY <1>1 DEF KInv, FileTypes
  <1>5. AllMade'
    BY <1>1, <1>2, <1>4 DEF KInv, AllMade, Made
  <1>6. FileFirst' /\ ReadsAre'
    BY <1>1, <1>2, <1>4 DEF KInv, FileFirst, ReadsAre
  <1>7. OneBehind' /\ Stored' <=> OneBehind /\ Stored
    BY <1>1 DEF OneBehind, Stored
  <1>8. ASSUME ~overlapped PROVE DueStill'
    <2>1. file \in KeyFiles /\ (\A p \in Processes : loaded[p] \in KeyFiles)
      BY DEF KInv, FileTypes
    <2>2. Head(file) = file[1] /\ (\A p \in Processes : loaded[p] # <<>> => Head(loaded[p]) = loaded[p][1])
      BY <1>1, <2>1 DEF KeyFiles
    <2>3. does = "rotate-pepper" => Peppers!Due
      BY DEF Peppers!Run
    <2>4. does = "rotate-pepper" => /\ \A k \in alive : k = file[1]
                                    /\ \A p \in Processes : loaded[p] # <<>> => loaded[p][1] = file[1]
      BY <2>2, <2>3 DEF Peppers!Due
    <2> QED
      BY <1>1, <1>2, <1>4, <1>8, <2>4 DEF KInv, DueStill
  <1> QED
    BY <1>1, <1>3, <1>5, <1>6, <1>7, <1>8 DEF KInv

\* A rotation puts its pepper before the one that all are at, when the file is
\* the one it has read (rotateTokenPepper).
LEMMA KeysWrite == ASSUME KInv, NEW c \in Requests, Peppers!Write(c) PROVE KInv'
  <1> DEFINE read == cmd[c].read
  <1>1. UNCHANGED <<loaded, opening, alive>> /\ cmd' = [cmd EXCEPT ![c] = Peppers!Idle] /\ cmd[c] # Peppers!Idle
    BY DEF Peppers!Write
  <1>2. read \in KeyFiles /\ read # <<>> /\ Made(read) /\ made \in Nat /\ file \in KeyFiles
    BY <1>1 DEF KInv, FileTypes, ReadsAre, AllMade
  <1>3. Peppers!Idle \in [does : {"nothing", "rotate-pepper", "rotate-signing"}, read : KeyFiles]
        /\ Peppers!Idle.read = <<>> /\ Peppers!Idle.does = "nothing"
    BY DEF Peppers!Idle, KeyFiles
  <1>4. cmd'[c] = Peppers!Idle /\ (\A d \in Requests \ {c} : cmd'[d] = cmd[d])
    BY <1>1 DEF KInv, FileTypes
  <1>5. overlapped' \in BOOLEAN /\ (~overlapped' => ~overlapped /\ read = file)
    BY Zenon DEF Peppers!Write, KInv, FileTypes
  <1>6. file # <<>>
    BY <1>1 DEF KInv, FileFirst
  <1>7. CASE cmd[c].does = "rotate-pepper"
    <2>1. made' = made + 1 /\ file' = <<made + 1, Head(read)>>
      BY <1>7 DEF Peppers!Write, Peppers!Rotated
    <2>2. Head(read) = read[1] /\ read[1] \in Nat /\ read[1] <= made
      BY <1>2 DEF KeyFiles, Made
    <2>3. /\ file' \in KeyFiles /\ Len(file') = 2 /\ file' # <<>>
          /\ file'[1] = made + 1 /\ file'[2] = read[1]
      BY <1>2, <2>1, <2>2 DEF KeyFiles
    <2>4. FileTypes'
      BY <1>1, <1>2, <1>3, <1>5, <2>1, <2>3 DEF KInv, FileTypes
    <2>5. AllMade'
      <3>1. Made(file)'
        BY <1>2, <2>1, <2>2, <2>3 DEF Made
      <3>2. ASSUME NEW d \in Requests PROVE Made(cmd[d].read)'
        <4>1. cmd'[d].read = <<>> \/ cmd'[d].read = cmd[d].read
          BY <1>3, <1>4
        <4>2. cmd[d].read \in KeyFiles /\ Made(cmd[d].read)
          BY DEF KInv, FileTypes, AllMade
        <4>3. \A i \in 1..Len(cmd[d].read) : cmd[d].read[i] \in Nat
          BY <4>2 DEF KeyFiles
        <4> QED
          BY <1>2, <2>1, <4>1, <4>2, <4>3 DEF Made
      <3>3. \A p \in Processes : opening'[p] # None => opening'[p] <= made'
        BY <1>1, <1>2, <2>1 DEF KInv, FileTypes, AllMade
      <3> QED
        BY <3>1, <3>2, <3>3 DEF AllMade
    <2>6. FileFirst' /\ ReadsAre'
      BY <1>4, <2>3 DEF KInv, FileFirst, ReadsAre
    <2>7. ASSUME ~overlapped' PROVE OneBehind' /\ Stored' /\ DueStill'
      <3>1. /\ \A k \in alive : k = file[1]
            /\ \A p \in Processes : loaded[p] # <<>> => loaded[p][1] = file[1]
        BY <1>5, <1>7, <2>7 DEF KInv, DueStill
      <3>2. file'[2] = file[1]
        BY <1>5, <2>3, <2>7
      <3>3. OneBehind' /\ Stored'
        BY <1>1, <2>3, <3>1, <3>2 DEF OneBehind, Stored
      <3>4. ASSUME NEW d \in Requests PROVE cmd'[d].read # file'
        <4>1. cmd'[d].read \in KeyFiles
          BY <2>4 DEF FileTypes
        <4>2. Made(cmd'[d].read)
          BY <1>2, <1>3, <1>4 DEF KInv, AllMade, Made
        <4> QED
          BY <1>2, <2>3, <4>1, <4>2 DEF Made
      <3>5. DueStill'
        BY <3>4 DEF DueStill
      <3> QED
        BY <3>3, <3>5
    <2> QED
      BY <2>4, <2>5, <2>6, <2>7 DEF KInv
  <1>8. CASE cmd[c].does # "rotate-pepper"
    <2>1. file' = read /\ made' = made
      BY <1>8 DEF Peppers!Write
    <2>2. FileTypes'
      BY <1>1, <1>2, <1>3, <1>5, <2>1 DEF KInv, FileTypes
    <2>3. AllMade'
      BY <1>1, <1>2, <1>3, <1>4, <2>1 DEF KInv, FileTypes, AllMade, Made, KeyFiles
    <2>4. FileFirst' /\ ReadsAre'
      BY <1>2, <1>4, <2>1 DEF KInv, FileFirst, ReadsAre
    <2>5. ASSUME ~overlapped' PROVE OneBehind' /\ Stored' /\ DueStill'
      <3>1. file' = file /\ OneBehind /\ Stored /\ DueStill
        BY <1>5, <2>1, <2>5 DEF KInv
      <3>2. OneBehind' /\ Stored'
        BY <1>1, <3>1 DEF OneBehind, Stored
      <3>3. DueStill'
        BY <1>1, <1>3, <1>4, <3>1 DEF DueStill
      <3> QED
        BY <3>2, <3>3
    <2> QED
      BY <2>2, <2>3, <2>4, <2>5 DEF KInv
  <1> QED
    BY <1>7, <1>8

\* However many processes, commands and peppers there are.
LEMMA KeysInvariant == Peppers!Spec => []KInv
  <1>1. Peppers!Init => KInv
    BY KeysInit
  <1>2. KInv /\ [Peppers!Next]_(Peppers!vars) => KInv'
    <2> SUFFICES ASSUME KInv, [Peppers!Next]_(Peppers!vars) PROVE KInv'
      OBVIOUS
    <2>1. ASSUME NEW p \in Processes, Peppers!Open(p) \/ Peppers!Create(p) \/ Peppers!Stop(p) \/ Peppers!Mint(p)
          PROVE  KInv'
      BY <2>1, KeysOpen, KeysCreate, KeysStop, KeysMint
    <2>2. ASSUME NEW k \in alive, Peppers!Expire(k) PROVE KInv'
      BY <2>2, KeysExpire
    <2>3. ASSUME NEW c \in Requests, Peppers!Write(c) PROVE KInv'
      BY <2>3, KeysWrite
    <2>4. ASSUME NEW c \in Requests, NEW does \in {"rotate-pepper", "rotate-signing"}, Peppers!Run(c, does)
          PROVE  KInv'
      BY <2>4, KeysRun
    <2>5. CASE UNCHANGED Peppers!vars
      BY <2>5 DEF Peppers!vars, KInv, FileTypes, AllMade, Made, FileFirst, ReadsAre, OneBehind, Stored, DueStill
    <2> QED
      BY <2>1, <2>2, <2>3, <2>4, <2>5 DEF Peppers!Next
  <1> QED
    BY <1>1, <1>2, PTL DEF Peppers!Spec

\* A process finds every token that lives, except that one not yet restarted
\* after a rotation misses those stored under the newest pepper, as long as no
\* command writes over another's change (tokenDigestCandidates).
THEOREM LiveTokensAreFound == Peppers!Spec => []LoadedVerifies
  <1>1. ASSUME KInv PROVE LoadedVerifies
    <2> SUFFICES ASSUME NEW p \in Processes, loaded[p] # <<>>, ~overlapped
                 PROVE  alive \subseteq Peppers!Candidates(p) \cup (IF loaded[p] = file THEN {} ELSE {Head(file)})
      BY DEF LoadedVerifies, Peppers!LoadedVerifies
    <2> SUFFICES ASSUME NEW k \in alive, loaded[p] = file \/ k # Head(file)
                 PROVE  k \in Peppers!Candidates(p)
      OBVIOUS
    <2>1. file \in KeyFiles /\ loaded[p] \in KeyFiles
      BY <1>1 DEF KInv, FileTypes
    <2>2. \A i \in 1..Len(loaded[p]) : loaded[p][i] \in Peppers!Candidates(p)
      BY <2>1 DEF KeyFiles, Peppers!Candidates, Peppers!ToSet
    <2>3. PICK i \in 1..Len(file) : i <= 2 /\ file[i] = k
      BY <1>1 DEF KInv, Stored
    <2>4. CASE loaded[p] = file
      BY <2>2, <2>3, <2>4
    <2>5. CASE loaded[p] # file
      <3>1. Len(file) >= 2 /\ loaded[p][1] = file[2] /\ Len(loaded[p]) >= 1
        BY <1>1, <2>1, <2>5 DEF KInv, OneBehind, KeyFiles
      <3>2. Head(file) = file[1]
        BY <2>1, <3>1 DEF KeyFiles
      <3>3. i = 2
        BY <2>3, <2>5, <3>2
      <3> QED
        BY <2>1, <2>2, <2>3, <3>1, <3>3 DEF KeyFiles
    <2> QED
      BY <2>4, <2>5
  <1> QED
    BY <1>1, KeysInvariant, PTL

=============================================================================
