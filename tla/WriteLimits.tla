---------------------------- MODULE WriteLimits ----------------------------
(***************************************************************************)
(* Fixed windows and the two budgets of a change of a device:              *)
(* security/rate-limit.ts, stores/redis.ts and write-budgets.ts.           *)
(*                                                                         *)
(* A step is a hit on a window, or the reading of its answer.  In memory   *)
(* the answer is the window itself, and is read in a later microtask; that *)
(* of Redis is a copy, and is read up to Latency later.                    *)
(***************************************************************************)
EXTENDS Integers, Sequences

CONSTANTS
  Grants, Devices, Requests, None,
  PerGrant, PerDevice, \* the limits of WriteBudgets
  Window,              \* windowMs
  Latency,             \* how long an answer of Redis may take, COMMAND_TIMEOUT_MS
  MaxTime, MaxHits     \* bounds: the time of the run, the hits of a window

VARIABLES
  kind,   \* Infrastructure.kind, "memory" or "redis"
  now,
  window, \* per key, the running total and when it starts again
  pc, req,
  writes, \* history: the times at which a change of each device was let through
  lost    \* history: how often the windows were forgotten

vars == <<kind, now, window, pc, req, writes, lost>>

Buckets == Grants \cup Devices
\* refused: a budget is spent; count, hitAt: what the hit answered, when it is a
\* copy, and when it was made.
NoReq == [grant |-> None, device |-> None, refused |-> FALSE, count |-> 0, hitAt |-> 0]
Steps == {"idle", "hitGrant", "readGrant", "hitDevice", "readDevice"}

TypeOK ==
  /\ kind \in {"memory", "redis"}
  /\ now \in 0..MaxTime
  /\ window \in [Buckets -> [count : Nat, resetAt : Nat]]
  /\ pc \in [Requests -> Steps]
  /\ req \in [Requests -> [grant : Grants \cup {None}, device : Devices \cup {None}, refused : BOOLEAN,
                       count : Nat, hitAt : Nat]]
  /\ writes \in [Devices -> Seq(0..MaxTime)]
  /\ lost \in Nat

Init ==
  /\ kind \in {"memory", "redis"}
  /\ now = 0
  /\ window = [k \in Buckets |-> [count |-> 0, resetAt |-> 0]]
  /\ pc = [r \in Requests |-> "idle"] /\ req = [r \in Requests |-> NoReq]
  /\ writes = [d \in Devices |-> <<>>]
  /\ lost = 0

Goto(r, step) == pc' = [pc EXCEPT ![r] = step]
Finish(r) == Goto(r, "idle") /\ req' = [req EXCEPT ![r] = NoReq]

\* spend('control', grant, device).
Spend(r, g, d) ==
  /\ pc[r] = "idle"
  /\ \A k \in {g, d} : window[k].count < MaxHits \/ window[k].resetAt <= now
  /\ req' = [req EXCEPT ![r] = [NoReq EXCEPT !.grant = g, !.device = d]]
  /\ Goto(r, "hitGrant")
  /\ UNCHANGED <<kind, now, window, writes, lost>>

\* MemoryBucketStore.hit, and the script HIT.
Hit(k) ==
  IF window[k].resetAt <= now
  THEN [count |-> 1, resetAt |-> now + Window]
  ELSE [window[k] EXCEPT !.count = @ + 1]

HitKey(r, k, next) ==
  /\ window' = [window EXCEPT ![k] = Hit(k)]
  /\ req' = [req EXCEPT ![r].count = Hit(k).count, ![r].hitAt = now]
  /\ Goto(r, next)
  /\ UNCHANGED <<kind, now, writes, lost>>

HitGrant(r)  == pc[r] = "hitGrant" /\ HitKey(r, req[r].grant, "readGrant")
HitDevice(r) == pc[r] = "hitDevice" /\ HitKey(r, req[r].device, "readDevice")

\* Slip: the total before this hit.
TotalBefore(r, k) == (IF kind = "memory" THEN window[k].count ELSE req[r].count) - 1

\* What bucket() finds in the answer: in memory, hits since are in it too.
Total(r, k) == IF kind = "memory" THEN window[k].count ELSE req[r].count

\* The second window is hit whatever the first has answered.
ReadGrant(r) ==
  /\ pc[r] = "readGrant"
  /\ req' = [req EXCEPT ![r].refused = Total(r, req[r].grant) > PerGrant]
  /\ Goto(r, "hitDevice")
  /\ UNCHANGED <<kind, now, window, writes, lost>>

ReadDevice(r) ==
  LET d == req[r].device IN
  /\ pc[r] = "readDevice"
  /\ writes' = IF req[r].refused \/ Total(r, d) > PerDevice
               THEN writes ELSE [writes EXCEPT ![d] = Append(@, now)]
  /\ Finish(r)
  /\ UNCHANGED <<kind, now, window, lost>>

\* guarded: no answer from Redis in time is a refusal, whether or not the hit
\* counts, and it may count long after.
StoreFails(r) ==
  /\ kind = "redis"
  /\ \/ /\ pc[r] \in {"hitGrant", "hitDevice"}
        /\ LET k == IF pc[r] = "hitGrant" THEN req[r].grant ELSE req[r].device
           IN window' \in {window, [window EXCEPT ![k] = Hit(k)]}
     \/ pc[r] \in {"readGrant", "readDevice"} /\ UNCHANGED window
  /\ Finish(r)
  /\ UNCHANGED <<kind, now, writes, lost>>

\* A process of its own forgets its windows.  Bound: once.
Restart ==
  /\ kind = "memory" /\ lost = 0
  /\ window' = [k \in Buckets |-> [count |-> 0, resetAt |-> now]] /\ lost' = 1
  /\ pc' = [r \in Requests |-> "idle"] /\ req' = [r \in Requests |-> NoReq]
  /\ UNCHANGED <<kind, now, writes>>

\* Microtasks come before the clock is seen to move.  Redis may be as long in
\* making a hit as it likes, but answers, once it has, in time or in vain.
Tick ==
  /\ now < MaxTime
  /\ \A r \in Requests :
       IF kind = "memory" THEN pc[r] = "idle"
       ELSE pc[r] \in {"readGrant", "readDevice"} => now < req[r].hitAt + Latency
  /\ now' = now + 1
  /\ UNCHANGED <<kind, window, pc, req, writes, lost>>

Next ==
  \/ \E r \in Requests :
       \/ \E g \in Grants, d \in Devices : Spend(r, g, d)
       \/ HitGrant(r) \/ ReadGrant(r) \/ HitDevice(r) \/ ReadDevice(r) \/ StoreFails(r)
  \/ Restart \/ Tick

Spec == Init /\ [][Next]_vars

-----------------------------------------------------------------------------
(* Correctness.                                                            *)

\* What an answer's way takes from the distance of two changes.
Slack == IF kind = "memory" THEN 0 ELSE Latency

\* In no stretch of time as long as a window, less what an answer of Redis takes,
\* is a device changed more than twice the limit, by whatever grants, and a limit
\* more when the windows were forgotten in between: the first and the last of
\* more changes are so far apart (WriteBudgets, BucketStore).
AtMostTwice ==
  \A d \in Devices : \A i, j \in 1..Len(writes[d]) :
    j = i + (2 + lost) * PerDevice => writes[d][j] + Slack >= writes[d][i] + Window
=============================================================================
