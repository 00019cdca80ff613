------------------------------ MODULE McpGate ------------------------------
(***************************************************************************)
(* What a body of JSON-RPC calls may do: mcp/gate.ts and the handlers of   *)
(* mcp/tools.ts, for the tokens of one grant.  A refresh may narrow the    *)
(* scope of the tokens after it, and the internal tokens the adapter holds *)
(* are the grant's, not the token's (exchange-client.ts).                  *)
(*                                                                         *)
(* Whether a window or a budget has room is left open (see WriteLimits), as*)
(* is what makes a proof good (ProofOfPossession).  How a revocation       *)
(* reaches the adapter is in GrantCaches; it is at once here.              *)
(***************************************************************************)
EXTENDS Naturals, Sequences

CONSTANTS
  Requests, None,
  Tools,   \* the names that bodies call
  Tokens,  \* the scopes that tokens of the grant have
  MaxCalls \* bound: calls in one body

\* What each tool requires, None for a public one.
TOOL_POLICY ==
  [list_devices |-> "devices:read", get_device |-> "devices:read",
   control_device |-> "devices:control", add_device |-> "devices:create",
   get_auth_status |-> None, show_auth |-> None, show_add_device |-> None]
ToolScopes == {"devices:read", "devices:control", "devices:create"}

VARIABLES
  bound, \* the grant is bound to a key
  live,  \* and not revoked
  held,  \* the scopes of the internal tokens held for it
  pc,
  req,   \* calls, token (its scopes, or None), proof (good), trusted (wantsToolChallenge), caller, verified
  done   \* per request, the calls answered, and those performed on the devices

vars == <<bound, live, held, pc, req, done>>

Bodies == UNION {[1..n -> Tools] : n \in 1..MaxCalls}
NoReq == [calls |-> <<>>, token |-> None, proof |-> FALSE, trusted |-> FALSE, verified |-> None, caller |-> "anonymous"]
Nothing == [answered |-> {}, performed |-> {}]

TypeOK ==
  /\ bound \in BOOLEAN /\ live \in BOOLEAN
  /\ held \subseteq ToolScopes
  /\ pc \in [Requests -> {"idle", "verify", "count", "prove", "decide", "run"}]
  /\ req \in [Requests ->
       [calls : Bodies \cup {<<>>}, token : Tokens \cup {None}, proof : BOOLEAN, trusted : BOOLEAN,
        verified : {None, "ok", "invalid_token", "insufficient_scope"}, caller : {"anonymous", "verified"}]]
  /\ done \in [Requests -> [answered : SUBSET (1..MaxCalls), performed : SUBSET (1..MaxCalls)]]

Init ==
  /\ bound \in BOOLEAN /\ live = TRUE /\ held = {}
  /\ pc = [r \in Requests |-> "idle"] /\ req = [r \in Requests |-> NoReq]
  /\ done = [r \in Requests |-> Nothing]

Goto(r, step) == pc' = [pc EXCEPT ![r] = step]
Known(name) == name \in DOMAIN TOOL_POLICY
Public(name) == Known(name) /\ TOOL_POLICY[name] = None

\* protectedCallsIn: an unknown name is protected, but needs no scope.
ProtectedIn(calls) == {i \in DOMAIN calls : ~Public(calls[i])}
NeededBy(calls, some) == {TOOL_POLICY[calls[i]] : i \in {j \in some : Known(calls[j])}}

\* Slip: the scope of the first protected call.
FirstScopeIn(calls) ==
  NeededBy(calls, {i \in ProtectedIn(calls) : \A j \in ProtectedIn(calls) : i <= j})

ScopesIn(calls) == NeededBy(calls, ProtectedIn(calls))

Arrive(r, calls, token, proof, trusted) ==
  /\ pc[r] = "idle"
  /\ req' = [req EXCEPT ![r] = [NoReq EXCEPT !.calls = calls, !.token = token, !.proof = proof, !.trusted = trusted]]
  /\ done' = [done EXCEPT ![r] = Nothing]
  /\ Goto(r, IF token = None THEN "count" ELSE "verify")
  /\ UNCHANGED <<bound, live, held>>

Verified(q) ==
  IF ~live THEN "invalid_token"
  ELSE IF ScopesIn(q.calls) \subseteq q.token THEN "ok" ELSE "insufficient_scope"

Verify(r) ==
  /\ pc[r] = "verify"
  /\ req' = [req EXCEPT ![r].verified = Verified(req[r])]
  /\ Goto(r, "count")
  /\ UNCHANGED <<bound, live, held, done>>

\* perGrant or perAddress; RATE_LIMITED ends the request.
Count(r) ==
  /\ pc[r] = "count"
  /\ \E step \in {"prove", "idle"} : Goto(r, step)
  /\ UNCHANGED <<bound, live, held, req, done>>

\* dpopChallenge ends it too.
Prove(r) ==
  /\ pc[r] = "prove"
  /\ Goto(r, IF req[r].verified = "ok" /\ bound /\ ~req[r].proof THEN "idle" ELSE "decide")
  /\ UNCHANGED <<bound, live, held, req, done>>

\* What remains when a protected call has no verified caller is a 401 or 403,
\* or the body with nobody as its caller.
Decide(r) ==
  LET q == req[r] IN
  /\ pc[r] = "decide"
  /\ req' = [req EXCEPT ![r].caller = IF q.verified = "ok" THEN "verified" ELSE "anonymous"]
  /\ Goto(r, IF ProtectedIn(q.calls) = {} \/ q.verified = "ok" \/ q.trusted THEN "run" ELSE "idle")
  /\ UNCHANGED <<bound, live, held, done>>

Answer(r, i, performed) ==
  done' = [done EXCEPT ![r] = [answered |-> @.answered \cup {i},
                               performed |-> @.performed \cup (IF performed THEN {i} ELSE {})]]

Calling(r, i, names) ==
  /\ pc[r] = "run" /\ i \in DOMAIN req[r].calls \ done[r].answered
  /\ req[r].calls[i] \in names
  /\ UNCHANGED <<bound, live, pc, req>>

\* tokenFor and run: the token held for the grant, or, when there is none or the
\* devices refuse it, one exchanged for the caller's.
Held(scope) == scope \in held /\ UNCHANGED held
Exchange(q, scope) == live /\ scope \in q.token /\ held' = held \cup {scope}
Refused(scope) == held' = held \ {scope}
OnDevices(r, i, scope) ==
  \/ /\ Held(scope) \/ Exchange(req[r], scope)
     /\ \E performed \in BOOLEAN : Answer(r, i, performed)
  \/ /\ ~live \/ scope \notin req[r].token
     /\ Refused(scope) /\ Answer(r, i, FALSE)

NotPerformed(r, i) == Answer(r, i, FALSE) /\ UNCHANGED held

ReadTool(r, i) ==
  /\ Calling(r, i, {"list_devices", "get_device"})
  /\ IF req[r].caller = "verified" THEN OnDevices(r, i, "devices:read") ELSE NotPerformed(r, i)

\* The budget refuses before a token is asked for.
WriteTool(r, i) ==
  /\ Calling(r, i, {"control_device", "add_device"})
  /\ \/ NotPerformed(r, i)
     \/ req[r].caller = "verified" /\ OnDevices(r, i, TOOL_POLICY[req[r].calls[i]])

PublicTool(r, i) == Calling(r, i, {"get_auth_status", "show_auth", "show_add_device"}) /\ NotPerformed(r, i)

\* The SDK's answer.
UnknownTool(r, i) == Calling(r, i, Tools \ DOMAIN TOOL_POLICY) /\ NotPerformed(r, i)

Respond(r) ==
  /\ pc[r] = "run" /\ done[r].answered = DOMAIN req[r].calls
  /\ Goto(r, "idle")
  /\ UNCHANGED <<bound, live, held, req, done>>

\* REUSE_MARGIN_MS before a held token would expire.
Expire(scope) ==
  /\ held' = held \ {scope}
  /\ UNCHANGED <<bound, live, pc, req, done>>

Revoke ==
  /\ live
  /\ live' = FALSE /\ held' = {}
  /\ UNCHANGED <<bound, pc, req, done>>

Next ==
  \/ \E r \in Requests :
       \/ \E calls \in Bodies, token \in Tokens \cup {None}, proof, trusted \in BOOLEAN :
            Arrive(r, calls, token, proof, trusted)
       \/ Verify(r) \/ Count(r) \/ Prove(r) \/ Decide(r) \/ Respond(r)
       \/ \E i \in 1..MaxCalls : ReadTool(r, i) \/ WriteTool(r, i) \/ PublicTool(r, i) \/ UnknownTool(r, i)
  \/ \E scope \in held : Expire(scope)
  \/ Revoke

Spec == Init /\ [][Next]_vars

-----------------------------------------------------------------------------
(* Correctness.                                                            *)

\* A body runs as a whole or not at all: no call of it is performed on a token
\* that may not make every other, whatever the adapter holds for its grant from
\* tokens with more scope, or on a bound token without its proof (gate).
NothingRidesAlong ==
  \A r \in Requests :
    done[r].performed # {}
      => /\ req[r].token # None
         /\ NeededBy(req[r].calls, ProtectedIn(req[r].calls)) \subseteq req[r].token
         /\ bound => req[r].proof
=============================================================================
