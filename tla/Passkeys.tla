------------------------------ MODULE Passkeys ------------------------------
(***************************************************************************)
(* Passkeys: oauth/passkeys.ts.  Challenges are handed out, answered by an *)
(* authenticator and taken once; a response that reaches a handler is one  *)
(* its authenticator did sign, with the counter it chose: the library's    *)
(* verification is taken as given.  A step is one statement.               *)
(***************************************************************************)
EXTENDS Naturals, Sequences, FiniteSets

CONSTANTS Challenges, Accounts, Browsers, Requests, None,
          Keys,      \* credentials an authenticator has made
          Maker,     \* Maker[k]: the account it made k for
          Cap,       \* MAX_PASSKEYS
          MaxCount   \* bound: the counters

VARIABLES
  challenge, \* webauthn_challenges
  passkey,   \* passkeys: the counter of a row
  rows,      \* the credentials that have a row
  pc, req,
  accepted   \* history: the sign-ins of a passkey since it was registered

vars == <<challenge, passkey, rows, pc, req, accepted>>

Owners == Accounts \cup Browsers
NoReq  == [challenge |-> None, owner |-> None, key |-> None, count |-> 0, stored |-> 0]

Steps == {"idle", "count", "insert", "read", "verify", "update"}

TypeOK ==
  /\ challenge \in [Challenges -> Owners \cup {"free", "gone"}]
  /\ passkey \in [Keys -> 0..MaxCount] /\ rows \subseteq Keys
  /\ pc \in [Requests -> Steps]
  /\ req \in [Requests -> [challenge : Challenges \cup {None}, owner : Owners \cup {None},
                           key : Keys \cup {None}, count : 0..MaxCount, stored : 0..MaxCount]]
  /\ accepted \in [Keys -> Seq([challenge : Challenges, count : 0..MaxCount])]

Init ==
  /\ challenge = [c \in Challenges |-> "free"]
  /\ passkey = [k \in Keys |-> 0] /\ rows = {}
  /\ pc = [r \in Requests |-> "idle"] /\ req = [r \in Requests |-> NoReq]
  /\ accepted = [k \in Keys |-> <<>>]

Goto(r, step) == pc' = [pc EXCEPT ![r] = step]
Finish(r) == Goto(r, "idle") /\ req' = [req EXCEPT ![r] = NoReq]
Held(a) == {k \in rows : Maker[k] = a}

\* storeChallenge.
Offer(c, owner) ==
  /\ challenge[c] = "free"
  /\ challenge' = [challenge EXCEPT ![c] = owner]
  /\ UNCHANGED <<passkey, rows, pc, req, accepted>>

RegistrationOptions(c) == \E a \in Accounts : Offer(c, a)
AuthenticationOptions(c) == \E b \in Browsers : Offer(c, b)

Expire(c) ==
  /\ challenge[c] \in Owners
  /\ challenge' = [challenge EXCEPT ![c] = "gone"]
  /\ UNCHANGED <<passkey, rows, pc, req, accepted>>

\* Slip: the challenge is read and stays.
LookAt(c) == UNCHANGED challenge

\* takeChallenge: DELETE ... RETURNING, by owner; an account's are for
\* registering, a browser's for signing in.
TakeChallenge(c) == challenge' = [challenge EXCEPT ![c] = "gone"]

\* A response to c, signed by k with counter n, arrives for its owner.
Respond(r, c, owner, k, n) ==
  /\ pc[r] = "idle" /\ challenge[c] = owner
  /\ owner \in Accounts => Maker[k] = owner
  /\ TakeChallenge(c)
  /\ req' = [req EXCEPT ![r] = [challenge |-> c, owner |-> owner, key |-> k, count |-> n, stored |-> 0]]
  /\ Goto(r, IF owner \in Accounts THEN "count" ELSE "read")
  /\ UNCHANGED <<passkey, rows, accepted>>

\* Slip: the account is refused only once it is past the cap.
RoomAtCap(a) == Cardinality(Held(a)) <= Cap

Room(a) == Cardinality(Held(a)) < Cap

\* finishRegistration.
Count(r) ==
  /\ pc[r] = "count"
  /\ IF Room(req[r].owner) THEN Goto(r, "insert") /\ UNCHANGED req ELSE Finish(r)
  /\ UNCHANGED <<challenge, passkey, rows, accepted>>

\* ON CONFLICT (id) DO NOTHING.
Insert(r) ==
  LET k == req[r].key IN
  /\ pc[r] = "insert"
  /\ rows' = rows \cup {k}
  /\ passkey' = IF k \in rows THEN passkey ELSE [passkey EXCEPT ![k] = req[r].count]
  /\ accepted' = IF k \in rows THEN accepted ELSE [accepted EXCEPT ![k] = <<>>]
  /\ Finish(r)
  /\ UNCHANGED challenge

Delete(k) ==
  /\ k \in rows
  /\ rows' = rows \ {k}
  /\ UNCHANGED <<challenge, passkey, pc, req, accepted>>

\* finishAuthentication.
Read(r) ==
  LET k == req[r].key IN
  /\ pc[r] = "read"
  /\ IF k \in rows
     THEN req' = [req EXCEPT ![r].stored = passkey[k]] /\ Goto(r, "verify")
     ELSE Finish(r)
  /\ UNCHANGED <<challenge, passkey, rows, accepted>>

\* verifyAuthenticationResponse refuses a counter that does not pass the one read.
Verify(r) ==
  /\ pc[r] = "verify"
  /\ IF req[r].count > req[r].stored \/ (req[r].count = 0 /\ req[r].stored = 0)
     THEN Goto(r, "update") /\ UNCHANGED req
     ELSE Finish(r)
  /\ UNCHANGED <<challenge, passkey, rows, accepted>>

\* Slip: the library has compared the counters already.
AdvancesOnceRead(k, n) == k \in rows

\* The WHERE clause of the UPDATE.
Advances(k, n) == k \in rows /\ (passkey[k] < n \/ (passkey[k] = 0 /\ n = 0))

Update(r) ==
  LET k == req[r].key IN
  /\ pc[r] = "update"
  /\ IF Advances(k, req[r].count)
     THEN /\ passkey' = [passkey EXCEPT ![k] = req[r].count]
          /\ accepted' = [accepted EXCEPT ![k] =
               Append(@, [challenge |-> req[r].challenge, count |-> req[r].count])]
     ELSE UNCHANGED <<passkey, accepted>>
  /\ Finish(r)
  /\ UNCHANGED <<challenge, rows>>

Next ==
  \/ \E c \in Challenges : RegistrationOptions(c) \/ AuthenticationOptions(c) \/ Expire(c)
  \/ \E k \in Keys : Delete(k)
  \/ \E r \in Requests :
       \/ \E c \in Challenges, o \in Owners, k \in Keys, n \in 0..MaxCount : Respond(r, c, o, k, n)
       \/ Count(r) \/ Insert(r) \/ Read(r) \/ Verify(r) \/ Update(r)

Spec == Init /\ [][Next]_vars

-----------------------------------------------------------------------------
(* Correctness.                                                            *)

\* The sign-ins accepted from one passkey answered different challenges, and
\* their counters rose, or the passkey never counts; sign-ins that read the
\* counter at the same time included (finishAuthentication).
AcceptedInOrder ==
  \A k \in Keys : \A i, j \in 1..Len(accepted[k]) : i < j =>
    LET x == accepted[k][i]
        y == accepted[k][j]
    IN x.challenge # y.challenge /\ (x.count < y.count \/ (x.count = 0 /\ y.count = 0))

\* Registrations that have counted and not yet inserted can pass the cap, by
\* no more than one less than there are at once (finishRegistration).
CapNearlyHolds == \A a \in Accounts : Cardinality(Held(a)) < Cap + Cardinality(Requests)
=============================================================================
