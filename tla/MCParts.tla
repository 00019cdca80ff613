------------------------------ MODULE MCParts ------------------------------
(* Instances for TLC of GrantCaches in profile S, and of five modules beside *)
(* it.  None of them shares state with another, so a behaviour is of one of *)
(* them, `part', and the rest stays as it began.                            *)
EXTENDS GrantCaches, FiniteSets, TLC

CONSTANTS c2, c3, g1, g2

CONSTANTS
  \* ProofOfPossession, in units of ten seconds
  Proofs, Skew, MaxAge, ClockTolerance, Remembered, Delay, MaxTime,
  \* KeyRotation
  Processes, MaxPeppers,
  \* McpGate: what is posted to it, the names called, the scopes of tokens
  Posts, Tools, TokenScopes, MaxCalls,
  \* MobileSession, DeviceViews
  MaxRotations, Devices, Calls, MaxVersion

\* No outcome, no step and no name is the value for nothing.
ASSUME NoneIsNoValue ==
  /\ None \notin Requests \cup Processes \cup Posts \cup Devices \cup Calls \cup Proofs
  /\ None \notin {"ok", "error", "lost", "conflict", "list", "control", "read", "add", "first", "row", "detail", "form"}
  /\ None \notin [device : Devices, version : Nat]
  /\ None \notin [grant : Grants, n : Nat] /\ None \notin [grant : Grants, aged : BOOLEAN]

\* The settings of oauth/dpop.ts and security/replay.ts: an id is remembered past
\* the last time any server takes its proof.
ASSUME PeriodsCover ==
  /\ Skew \in Nat /\ MaxAge \in Nat /\ ClockTolerance \in Nat /\ Delay \in Nat
  /\ Remembered \in Nat /\ MaxTime \in Nat
  /\ Remembered > MaxAge + 2 * ClockTolerance + 2 * Skew + Delay

ASSUME BoundsAreNat == MaxPeppers \in Nat /\ MaxCalls \in Nat /\ MaxRotations \in Nat /\ MaxVersion \in Nat

TwoGrants == [c \in Creds |-> IF c = c3 THEN g2 ELSE g1]
Lifetimes == [c \in Creds |-> 20]

VARIABLES
  part,
  kind, ahead, iat, until, checked, accepted, forgot,
  file, made, loaded, opening, cmd, alive, overlapped,
  bound, unrevoked, scopes, gpc, greq, done,
  newest, grace, over, refreshToken, access, kept, refreshTask, task, mpc, mcall, leaving, entering, strays, lost, dropped, slips,
  version, rows, screen, loadSequence, hasLoaded, pendingIntents, detail, detailIntent, dcall

proofVars == <<ahead, iat, until, checked, accepted, forgot>>
pepperVars == <<file, made, loaded, opening, cmd, alive, overlapped>>
gateVars == <<bound, unrevoked, scopes, gpc, greq, done>>
appVars == <<newest, grace, over, refreshToken, access, kept, refreshTask, task, mpc, mcall, leaving, entering, strays, lost,
             dropped, slips>>
viewVars == <<version, rows, screen, loadSequence, hasLoaded, pendingIntents, detail, detailIntent, dcall>>

Possession == INSTANCE ProofOfPossession WITH Servers <- Requests, Tolerance <- ClockTolerance

Peppers == INSTANCE KeyRotation WITH Commands <- Requests, live <- alive

Gate == INSTANCE McpGate WITH
  Requests <- Posts, Tokens <- TokenScopes, live <- unrevoked, held <- scopes, pc <- gpc, req <- greq

App == INSTANCE MobileSession WITH Callers <- Requests, pc <- mpc, call <- mcall

\* Whose app it is, of MobileSession.
SignedIn == IF refreshToken = None THEN None ELSE refreshToken.grant
Bearer == IF access = None THEN None ELSE access.grant
Past == {g \in Grants : newest[g] > 0 /\ g # SignedIn /\ g # entering}

Account == INSTANCE AppAccount WITH signedIn <- SignedIn, bearer <- Bearer, past <- Past

Screens == INSTANCE DeviceViews WITH phase <- screen, call <- dcall

Parts == {"caches", "possession", "peppers", "gate", "app", "screens"}

\* A part at rest begins in one of its initial states.
MCInit ==
  /\ part \in Parts
  /\ Init /\ Possession!Init /\ Peppers!Init /\ Gate!Init /\ App!Init /\ Screens!Init
  /\ part # "possession" => kind = "memory" /\ ahead = [s \in Requests |-> 0] /\ iat = [p \in Proofs |-> 0]
  /\ part # "gate" => ~bound
  /\ part # "screens" => version = [d \in Devices |-> 0]

\* Bounds, of grants that are alike: the caches see g2 revoked and not g1, the app
\* signs in with g1 first, rotates only tokens of g1, and one of its grants at most
\* is revoked.
Within ==
  /\ part = "caches" => phase[g1] = "live"
  /\ part = "app" => /\ newest[g2] > 0 => newest[g1] > 0
                     /\ Cardinality({g \in Grants : over[g] = "revoked"}) <= 1
                     /\ newest[g2] <= 1

MCNext ==
  /\ UNCHANGED part
  /\ \/ /\ part = "caches" /\ Next
        /\ UNCHANGED <<kind, proofVars, pepperVars, gateVars, appVars, viewVars>>
     \/ /\ part = "possession" /\ Possession!Next
        /\ UNCHANGED <<grantVars, cacheVars, pc, req, held, answer, pepperVars, gateVars, appVars, viewVars>>
     \/ /\ part = "peppers" /\ Peppers!Next
        /\ UNCHANGED <<vars, kind, proofVars, gateVars, appVars, viewVars>>
     \/ /\ part = "gate" /\ Gate!Next
        /\ UNCHANGED <<vars, kind, proofVars, pepperVars, appVars, viewVars>>
     \/ /\ part = "app" /\ App!Next
        /\ UNCHANGED <<vars, kind, proofVars, pepperVars, gateVars, viewVars>>
     \/ /\ part = "screens" /\ Screens!Next
        /\ UNCHANGED <<vars, kind, proofVars, pepperVars, gateVars, appVars>>
  /\ Within'

MCSpec ==
  MCInit /\ [][MCNext]_<<vars, part, kind, proofVars, pepperVars, gateVars, appVars, viewVars>>

NoProofTwice == Possession!NoProofTwice
LoadedVerifies == Peppers!LoadedVerifies
NothingRidesAlong == Gate!NothingRidesAlong
TheftNeedsLoss == App!TheftNeedsLoss

\* However refreshes, restarts, log-outs and sign-ins fall together, no answer
\* brings a session back that is over, puts another account in the place of the one
\* signed in, or leaves the app an access token that is not the session's; and a
\* restart does so only after the keychain failed to delete the session's item, or
\* to hand it out (store, clearSession, adopt, init).
ImplementsAccount == Account!Spec

ShownNeverGoesBack == Screens!ShownNeverGoesBack

Symmetry == Permutations(Requests) \cup Permutations(Calls) \cup Permutations(Devices)
=============================================================================
