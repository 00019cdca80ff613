--------------------------- MODULE MCGrantCaches ----------------------------
(* Instances for TLC of GrantCaches in profile M, where c1 and c2 are       *)
(* credentials of g1 and the first expires early, and of Database, on whose *)
(* transactions the revocations run.  They share no state: a behaviour is of*)
(* one, the `part', and the other stays as it began.  Of GrantCaches a      *)
(* behaviour is about the end of the grant or of a credential.              *)
EXTENDS GrantCaches, TLC

CONSTANTS
  c1, g1,
  Sessions, Migrations, MaxWork   \* Database

ASSUME DatabaseBounds == Migrations \in Nat /\ MaxWork \in Nat /\ None \notin Sessions

OneGrant == [c \in Creds |-> g1]
Lifetimes == [c \in Creds |-> IF c = c1 THEN 1 ELSE 20]

VARIABLES part, kept, session, lock, client, statement, job, begun, sent

baseVars == <<kept, session, lock, client, statement, job, begun, sent>>

Base == INSTANCE Database WITH Processes <- Requests, pc <- statement

\* Bounds: a grant that ends does so before the clock is at 2, is used with the
\* credential that does not expire, and is told exact times; what is about the
\* expiry of a credential, at 1, is over one tick earlier.
Exact(r) ==
  /\ pc[r] = "introspect" /\ pc'[r] = "introspected" => held'[r].life \in {-1, Expiry[req[r].cred] - now}
  /\ pc[r] = "minting" /\ pc'[r] = "exchanged" => held'[r].exp = now + held[r].life

Within ==
  /\ part = "revoked" => /\ now' < 2 \/ phase'[g1] \in {"committed", "revoked"}
                         /\ \A r \in Requests : req'[r].cred # c1 /\ Exact(r)
  /\ part = "expired" => phase' = phase /\ now' < MaxClock

MCInit == Init /\ Base!Init /\ part \in {"revoked", "expired", "database"}
MCNext ==
  /\ UNCHANGED part
  /\ \/ part # "database" /\ Next /\ UNCHANGED baseVars
     \/ part = "database" /\ Base!Next /\ UNCHANGED vars
  /\ Within
MCSpec == MCInit /\ [][MCNext]_<<vars, baseVars, part>>

MigrationsInTurn == Base!MigrationsInTurn
NothingCommitsLater == Base!NothingCommitsLater

Symmetry == Permutations(Requests) \cup Permutations(Sessions)
=============================================================================
