---------------------------- MODULE MCAuthorize -----------------------------
(* Instances of Authorize and of ClientRegistry for TLC.  The two have no   *)
(* variable in common (what Authorize sees of the registry is Resolved), so *)
(* a behaviour is of one of them.                                           *)
(*   "race": two authorizations for one client, remembered or ours, handled *)
(*           by requests that overlap, once signed in;                      *)
(*   "row":  as many as there are ids, one request at a time;               *)
(*   "guests": two accounts in turn, one request at a time, and rows that   *)
(*           expire under it;                                               *)
(*   "clients", "documents": the halves of the registry.                    *)
EXTENDS Authorize, FiniteSets, TLC

CONSTANTS
  first,                        \* the account, but for guests
  Ids, Cap, Ttl, Delay, MaxNow  \* ClientRegistry

ASSUME RegistryBounds ==
  /\ IsFiniteSet(Requests)
  /\ Cap \in Nat \ {0} /\ Ttl \in Nat /\ Delay \in Nat /\ MaxNow \in Nat

VARIABLES part, asking,   \* asking: the client of the behaviour
          registered, unused, granted, now, changed, cache, rpc, doc, at

registry == <<registered, unused, granted, now, changed, cache, rpc, doc, at>>

Registry == INSTANCE ClientRegistry WITH pc <- rpc

Opened2 == Cardinality({p \in Pendings : pending'[p].life # "free"}) <= 2

Within ==
  /\ \A p \in Pendings : pending'[p].client \in {asking, None}
  /\ \A q \in Pushes : pushed'[q].client \in {asking, None}
  /\ part = "race" =>
       /\ Opened2
       /\ \A p \in Pendings : pending'[p].scopes \in {{}, {Reading}, Scopes}
       /\ recent' = approved'   \* no approval lapses
       /\ \A b \in Browsers : session'[b] = session[b] \/ session'[b].recently
  /\ part # "race" =>
       /\ \A r, s \in Requests : pc'[r] # "idle" /\ pc'[s] # "idle" => r = s
       /\ UNCHANGED pushed
  /\ part # "guests" => \A p \in Pendings : pending'[p].life # "expired"
  /\ IF part = "guests" THEN Opened2 ELSE \A b \in Browsers : session'[b].acct \in {first, None}

MCInit ==
  /\ Init /\ Registry!Init
  /\ \/ part = "row" /\ asking \in Clients
     \/ part = "guests" /\ asking \in Cimd \cup Dcr
     \/ part = "race" /\ asking \in Cimd \cup {App}
     \/ part \in {"clients", "documents"} /\ asking = None

MCNext ==
  /\ UNCHANGED <<part, asking>>
  /\ \/ part \notin {"clients", "documents"} /\ Next /\ Within /\ UNCHANGED registry
     \/ part = "clients" /\ Registry!Register /\ UNCHANGED vars
     \/ part = "documents" /\ Registry!Resolve /\ UNCHANGED vars

MCSpec == MCInit /\ [][MCNext]_<<vars, registry, part, asking>>

CapNearlyHolds == Registry!CapNearlyHolds
DocumentIsRecent == Registry!DocumentIsRecent

Symmetry == Permutations(Requests) \cup Permutations(Pendings)
=============================================================================
