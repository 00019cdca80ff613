--------------------------- MODULE ClientRegistry ---------------------------
(***************************************************************************)
(* Who an application is: oauth/clients.ts.  Dynamic registration under    *)
(* its cap, the eviction of unused clients, and metadata documents cached  *)
(* while they change at the client's host.  A step is one statement, or    *)
(* the exchange with the host.                                             *)
(***************************************************************************)
EXTENDS Integers, FiniteSets

CONSTANTS Ids,       \* client ids registerClient may draw
          Requests, None,
          Cap,       \* MAX_REGISTERED_CLIENTS
          Ttl,       \* cimdCacheSeconds, the longest
          Delay,     \* bound: time from the host's answer to the INSERT
          MaxNow     \* bound: the clock

VARIABLES
  registered, \* oauth_clients with source = 'dcr'
  unused,     \* registered over UNUSED_CLIENT_TTL_SECONDS ago
  granted,    \* clients that have a row in oauth_grants
  now,
  changed,    \* changed[n]: when the host replaced the n-th document
  cache,      \* cimd_cache of the one client_id
  pc, doc, at \* a request: its step, the document it has, and since when

regVars == <<registered, unused, granted>>
vars    == <<registered, unused, granted, now, changed, cache, pc, doc, at>>

Steps == {"idle", "count", "insert", "budget", "lookup", "fetch", "keep", "resolved"}

TypeOK ==
  /\ registered \subseteq Ids /\ unused \subseteq registered /\ granted \subseteq Ids
  /\ now \in 0..MaxNow /\ changed \in [1..MaxNow -> -1..MaxNow]
  /\ cache \in [doc : 0..MaxNow, until : 0..MaxNow + Ttl]
  /\ pc \in [Requests -> Steps]
  /\ doc \in [Requests -> 0..MaxNow] /\ at \in [Requests -> 0..MaxNow]

Init ==
  /\ registered = {} /\ unused = {} /\ granted = {}
  /\ now = 0 /\ changed = [n \in 1..MaxNow |-> -1]
  /\ cache = [doc |-> 0, until |-> 0]
  /\ pc = [r \in Requests |-> "idle"]
  /\ doc = [r \in Requests |-> 0] /\ at = [r \in Requests |-> 0]

Goto(r, step) == pc' = [pc EXCEPT ![r] = step]

-----------------------------------------------------------------------------
(* registerClient.                                                         *)

Evictable == unused \ granted

\* registerClient, once the form of what was sent is accepted, which changes
\* nothing: evictUnusedClients is one DELETE, and sees the grants committed
\* before it.
Evict(r) ==
  /\ pc[r] = "idle"
  /\ registered' = registered \ Evictable /\ unused' = unused \ Evictable
  /\ Goto(r, "count")
  /\ UNCHANGED <<granted, now, changed, cache, doc, at>>

\* Slip: the cap itself is let through.
RoomAtCap == Cardinality(registered) <= Cap

Room == Cardinality(registered) < Cap

Count(r) ==
  /\ pc[r] = "count"
  /\ Goto(r, IF Room THEN "insert" ELSE "idle")
  /\ UNCHANGED <<regVars, now, changed, cache, doc, at>>

Insert(r, c) ==
  /\ pc[r] = "insert" /\ c \notin registered \cup granted
  /\ registered' = registered \cup {c}
  /\ Goto(r, "idle")
  /\ UNCHANGED <<unused, granted, now, changed, cache, doc, at>>

\* A day goes by since the registration.
Stale(c) ==
  /\ c \in registered \ unused
  /\ unused' = unused \cup {c}
  /\ UNCHANGED <<registered, granted, now, changed, cache, pc, doc, at>>

\* establishGrant: oauth_grants does not reference oauth_clients, so a client
\* evicted while its authorization was under way founds a grant all the same.
Authorized(c) ==
  /\ c \in Ids \ granted
  /\ granted' = granted \cup {c}
  /\ UNCHANGED <<registered, unused, now, changed, cache, pc, doc, at>>

-----------------------------------------------------------------------------
(* resolveMetadataDocument.                                                *)

\* Slip: the row is used whatever its age.
CacheHitAlways == cache.until > 0

\* cachedDocument.
CacheHit == cache.until > now

UseCached(r) ==
  /\ pc[r] = "idle" /\ CacheHit
  /\ doc' = [doc EXCEPT ![r] = cache.doc] /\ at' = [at EXCEPT ![r] = now]
  /\ Goto(r, "resolved")
  /\ UNCHANGED <<regVars, now, changed, cache>>

Miss(r) ==
  /\ pc[r] = "idle" /\ ~CacheHit
  /\ Goto(r, "budget")
  /\ UNCHANGED <<regVars, now, changed, cache, doc, at>>

\* cimdFetchAllowed: the fetches of this minute from the host may be used up.
TakeFetch(r) ==
  /\ pc[r] = "budget"
  /\ \E step \in {"lookup", "idle"} : Goto(r, step)
  /\ UNCHANGED <<regVars, now, changed, cache, doc, at>>

\* resolvePinnedAddress: the host's name has no address, or one not public.
Lookup(r) ==
  /\ pc[r] = "lookup"
  /\ \E step \in {"fetch", "idle"} : Goto(r, step)
  /\ UNCHANGED <<regVars, now, changed, cache, doc, at>>

\* The document the host serves: the number of those it has replaced.
Served == Cardinality({n \in 1..MaxNow : changed[n] >= 0})

\* The host answers.
Fetch(r) ==
  /\ pc[r] = "fetch"
  /\ doc' = [doc EXCEPT ![r] = Served] /\ at' = [at EXCEPT ![r] = now]
  /\ Goto(r, "keep")
  /\ UNCHANGED <<regVars, now, changed, cache>>

\* fetchPinned has no answer in time, a redirect, or too long an answer; or the
\* answer is no valid document.
FetchFailed(r) ==
  /\ pc[r] = "fetch"
  /\ Goto(r, "idle")
  /\ UNCHANGED <<regVars, now, changed, cache, doc, at>>

\* Slip: the row found is only given more time.
UpsertExpiry(d, ttl) == cache' = [doc |-> IF cache.until = 0 THEN d ELSE cache.doc, until |-> now + ttl]

\* The last INSERT wins, whichever document is the newer.
Upsert(d, ttl) == cache' = [doc |-> d, until |-> now + ttl]

\* cimdCacheSeconds: as the answer asks, within its limits; 0 is not to be kept.
CacheLifetimes == 0..Ttl

Keep(r, ttl) ==
  /\ pc[r] = "keep"
  /\ IF ttl > 0 THEN Upsert(doc[r], ttl) ELSE UNCHANGED cache
  /\ at' = [at EXCEPT ![r] = now]
  /\ Goto(r, "resolved")
  /\ UNCHANGED <<regVars, now, changed, doc>>

\* The authorization goes on with the document.
Leave(r) ==
  /\ pc[r] = "resolved"
  /\ Goto(r, "idle")
  /\ doc' = [doc EXCEPT ![r] = 0] /\ at' = [at EXCEPT ![r] = 0]
  /\ UNCHANGED <<regVars, now, changed, cache>>

ReplaceDocument ==
  /\ Served < MaxNow
  /\ changed' = [changed EXCEPT ![Served + 1] = now]
  /\ UNCHANGED <<regVars, now, cache, pc, doc, at>>

\* An answer waits no longer than Delay to be stored; a resolved request leaves
\* at once.
Tick ==
  /\ now < MaxNow
  /\ \A r \in Requests : pc[r] # "resolved" /\ (pc[r] = "keep" => now < at[r] + Delay)
  /\ now' = now + 1
  /\ UNCHANGED <<regVars, changed, cache, pc, doc, at>>

RegisterClient(r) == Evict(r) \/ Count(r) \/ \E c \in Ids : Insert(r, c)

Register ==
  \/ \E r \in Requests : RegisterClient(r)
  \/ \E c \in Ids : Stale(c) \/ Authorized(c)

ResolveMetadataDocument(r) ==
  \/ UseCached(r) \/ Miss(r) \/ TakeFetch(r) \/ Lookup(r) \/ Fetch(r) \/ FetchFailed(r)
  \/ \E ttl \in CacheLifetimes : Keep(r, ttl)

Resolve ==
  \/ \E r \in Requests : ResolveMetadataDocument(r) \/ Leave(r)
  \/ ReplaceDocument
  \/ Tick

Next == Register \/ Resolve

Spec == Init /\ [][Next]_vars

-----------------------------------------------------------------------------
(* Correctness.                                                            *)

\* Registrations that have counted and not yet inserted can pass the cap, by
\* no more than one less than there are at once (registerClient).
CapNearlyHolds == Cardinality(registered) < Cap + Cardinality(Requests)

\* A document an authorization is decided by was still served less than the
\* cache's longest lifetime, and the time to store it, ago: an older fetch
\* that is stored over a newer one included (resolveMetadataDocument).
DocumentIsRecent ==
  \A r \in Requests : pc[r] = "resolved" /\ doc[r] < Served =>
    now <= changed[doc[r] + 1] + Ttl + Delay
=============================================================================
