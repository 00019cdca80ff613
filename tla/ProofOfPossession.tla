------------------------- MODULE ProofOfPossession -------------------------
(***************************************************************************)
(* A proof of possession is good once: oauth/dpop.ts against               *)
(* security/replay.ts and stores/redis.ts, on servers whose clocks differ. *)
(* A presentation is a check of the proof's age on one server's clock, and,*)
(* some time later, a claim of its id on the store's.  A nonce narrows when*)
(* a proof passes its check, and is left out.                              *)
(***************************************************************************)
EXTENDS Integers, FiniteSets

CONSTANTS
  Proofs,       \* ids (jti) of the proofs of one key
  Servers,
  Skew,         \* a server's clock is at most this far from the store's
  MaxAge,       \* maxTokenAge
  Tolerance,    \* clockTolerance
  Remembered,   \* JTI_TTL_SECONDS
  Delay,        \* a check is followed by its claim within this (COMMAND_TIMEOUT_MS)
  MaxTime       \* bound: the time of the run

VARIABLES
  kind,     \* Infrastructure.kind: "memory", with one process, or "redis"
  now,      \* the store's clock
  ahead,    \* how far each server's clock is ahead of it
  iat,      \* the issue time the client has written in each proof
  until,    \* the expiry of each id remembered
  checked,  \* presentations past their check: [proof, due]
  accepted, \* history: how often each proof was accepted
  forgot    \* history: a process without a shared store has restarted

vars == <<kind, now, ahead, iat, until, checked, accepted, forgot>>

TypeOK ==
  /\ kind \in {"memory", "redis"}
  /\ now \in Int
  /\ ahead \in [Servers -> -Skew..Skew]
  /\ iat \in [Proofs -> Int]
  /\ until \in [Proofs -> Int]
  /\ checked \subseteq [proof : Proofs, due : Int]
  /\ accepted \in [Proofs -> Nat]
  /\ forgot \in BOOLEAN

Init ==
  /\ kind \in {"memory", "redis"}
  /\ now = 0
  /\ ahead \in [Servers -> -Skew..Skew]
  /\ kind = "memory" => \A s, t \in Servers : ahead[s] = ahead[t]
  /\ iat \in [Proofs -> -MaxAge..MaxTime]
  /\ until = [p \in Proofs |-> 0]
  /\ checked = {}
  /\ accepted = [p \in Proofs |-> 0]
  /\ forgot = FALSE

Clock(s) == now + ahead[s]

\* jwtVerify, with maxTokenAge and clockTolerance.
AgeValid(p, s) ==
  /\ Clock(s) - iat[p] <= MaxAge + Tolerance
  /\ iat[p] <= Clock(s) + Tolerance

Check(p, s) ==
  /\ AgeValid(p, s)
  /\ checked' = checked \cup {[proof |-> p, due |-> now + Delay]}
  /\ UNCHANGED <<kind, now, ahead, iat, until, accepted, forgot>>

\* Slip: an id is remembered as long as a proof may be old.
ForMaxAge(p) == now + MaxAge

ForgottenAt(p) == now + Remembered

\* MemoryReplayStore.claim, or SET NX EX.
Claim(c) ==
  LET p == c.proof IN
  /\ c \in checked
  /\ checked' = checked \ {c}
  /\ IF now < until[p]
     THEN UNCHANGED <<until, accepted>>
     ELSE /\ until' = [until EXCEPT ![p] = ForgottenAt(p)]
          /\ accepted' = [accepted EXCEPT ![p] = @ + 1]
  /\ UNCHANGED <<kind, now, ahead, iat, forgot>>

\* guarded: an error or a timeout refuses the request, claimed or not.
ClaimFails(c) ==
  /\ kind = "redis" /\ c \in checked
  /\ checked' = checked \ {c}
  /\ until' \in {until, IF now < until[c.proof] THEN until ELSE [until EXCEPT ![c.proof] = ForgottenAt(c.proof)]}
  /\ UNCHANGED <<kind, now, ahead, iat, accepted, forgot>>

\* Bound: once.
Restart ==
  /\ kind = "memory" /\ ~forgot
  /\ until' = [p \in Proofs |-> now] /\ checked' = {} /\ forgot' = TRUE
  /\ UNCHANGED <<kind, now, ahead, iat, accepted>>

Tick ==
  /\ now < MaxTime
  /\ \A c \in checked : now < c.due
  /\ now' = now + 1
  /\ UNCHANGED <<kind, ahead, iat, until, checked, accepted, forgot>>

Next ==
  \/ \E p \in Proofs, s \in Servers : Check(p, s)
  \/ \E c \in checked : Claim(c) \/ ClaimFails(c)
  \/ Restart \/ Tick

Spec == Init /\ [][Next]_vars

-----------------------------------------------------------------------------
(* Correctness.                                                            *)

\* A proof is accepted once, whichever servers it is presented to and however
\* their clocks differ: its id is remembered for longer than it is young
\* enough anywhere.  Only a process that keeps the ids to itself and restarts
\* may accept one again (verifyProof, ReplayStore).
NoProofTwice == \A p \in Proofs : accepted[p] > 1 => forgot
=============================================================================
