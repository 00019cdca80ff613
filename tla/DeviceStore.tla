---------------------------- MODULE DeviceStore -----------------------------
(***************************************************************************)
(* addDevice and controlDevice of domain/devices.ts.  Each request is a    *)
(* process and a step is one SQL statement at READ COMMITTED: it reads     *)
(* what is committed when it starts.  The statements after which nothing   *)
(* can fail the request but the database, and whose rows nobody else can   *)
(* see or wait for, are one step with the commit.                          *)
(***************************************************************************)
EXTENDS Naturals, Sequences, FiniteSets

CONSTANTS Accounts,
          Ids,         \* device ids newDeviceId() may draw
          Names,       \* normalized names
          Keys,        \* idempotency keys
          Requests,    \* requests in flight at once
          None,        \* NULL, no row, or no Idempotency-Key header
          Cap,         \* MAX_DEVICES_PER_ACCOUNT
          MaxVersion,  \* bound: no version above it is reached
          Adders       \* bound: the accounts that create devices

ASSUME NoneIsNothing ==
  None \notin Accounts \cup Ids \cup Names \cup Keys \cup Requests \cup {"on", "off"}
ASSUME BoundsAreNat == Cap \in Nat /\ MaxVersion \in Nat

VARIABLES
  \* devices
  owner, name, state,
  version,     \* 0 while there is no such device
  \* idempotency_keys
  keyed,       \* keyed[a][k]: device_id
  keyName,     \* keyName[a][k]: request_fingerprint
  \* audit_events
  trail,       \* trail[d]: the old and new states of its accepted events
  rejections,  \* the rejected ones, as <<device, old, new>>
  \* the requests
  pc,
  req,         \* its arguments; known: there was a device of the version it expects
  locks,       \* the account whose row it has FOR UPDATE
  answer

devVars == <<owner, name, state, version>>
keyVars == <<keyed, keyName>>
logVars == <<trail, rejections>>
vars    == <<devVars, keyVars, logVars, pc, req, locks, answer>>

States == {"on", "off"}

Steps == {"idle", "findKey", "lockAccount", "count", "insert", "findAgain",
          "update", "readBack", "auditRejection"}

NoReq == [acct |-> None, name |-> None, key |-> None, dev |-> None, want |-> "off", expect |-> 0,
          known |-> FALSE]

Said(kind, d, s, v) == [kind |-> kind, dev |-> d, state |-> s, version |-> v]
NoAnswer == Said("none", None, "off", 0)

Kinds == {"none", "ok", "limit", "nameTaken", "keyReused", "notFound", "conflict", "error"}

ReqType == [acct : Accounts \cup {None}, name : Names \cup {None}, key : Keys \cup {None},
            dev : Ids \cup {None}, want : States, expect : Nat, known : BOOLEAN]

AnswerType == [kind : Kinds, dev : Ids \cup {None}, state : States, version : Nat]

TrailType == Seq([old : States \cup {None}, new : States])

TypeOK ==
  /\ owner \in [Ids -> Accounts \cup {None}]
  /\ name \in [Ids -> Names \cup {None}]
  /\ state \in [Ids -> States]
  /\ version \in [Ids -> Nat]
  /\ keyed \in [Accounts -> [Keys -> Ids \cup {None}]]
  /\ keyName \in [Accounts -> [Keys -> Names \cup {None}]]
  /\ trail \in [Ids -> TrailType]
  /\ rejections \subseteq Ids \X States \X States
  /\ pc \in [Requests -> Steps]
  /\ req \in [Requests -> ReqType]
  /\ locks \in [Requests -> Accounts \cup {None}]
  /\ answer \in [Requests -> AnswerType]

Init ==
  /\ owner = [d \in Ids |-> None]
  /\ name = [d \in Ids |-> None]
  /\ state = [d \in Ids |-> "off"]
  /\ version = [d \in Ids |-> 0]
  /\ keyed = [a \in Accounts |-> [k \in Keys |-> None]]
  /\ keyName = [a \in Accounts |-> [k \in Keys |-> None]]
  /\ trail = [d \in Ids |-> <<>>]
  /\ rejections = {}
  /\ pc = [p \in Requests |-> "idle"]
  /\ req = [p \in Requests |-> NoReq]
  /\ locks = [p \in Requests |-> None]
  /\ answer = [p \in Requests |-> NoAnswer]

Devices(a) == {d \in Ids : owner[d] = a}

Goto(p, s) == pc' = [pc EXCEPT ![p] = s]

\* The request is over: its locks go with its transaction.
Answer(p, said) ==
  /\ Goto(p, "idle")
  /\ locks' = [locks EXCEPT ![p] = None]
  /\ answer' = [answer EXCEPT ![p] = said]

Refuse(p, kind) == Answer(p, Said(kind, None, "off", 0))

Begin(p, r, s) ==
  /\ pc[p] = "idle"
  /\ req' = [req EXCEPT ![p] = r]
  /\ answer' = [answer EXCEPT ![p] = NoAnswer]
  /\ Goto(p, s)
  /\ UNCHANGED <<devVars, keyVars, logVars, locks>>

-----------------------------------------------------------------------------
(* addDevice.                                                              *)

StartAdd(p, a, n, k) ==
  /\ a \in Adders
  /\ Begin(p, [NoReq EXCEPT !.acct = a, !.name = n, !.key = k],
           IF k = None THEN "lockAccount" ELSE "findKey")

KeyKnown(p) == req[p].key # None /\ keyed[req[p].acct][req[p].key] # None

\* Slip: the fingerprint is not compared.
KeyAnswersAny(p) ==
  LET d == keyed[req[p].acct][req[p].key] IN
  /\ KeyKnown(p)
  /\ Answer(p, Said("ok", d, state[d], version[d]))
  /\ UNCHANGED <<devVars, keyVars, logVars, req>>

\* findByIdempotencyKey answers: the key's device, or a refusal when the key
\* was used for another name.
KeyAnswers(p) ==
  LET d == keyed[req[p].acct][req[p].key] IN
  /\ KeyKnown(p)
  /\ Answer(p, IF keyName[req[p].acct][req[p].key] = req[p].name
               THEN Said("ok", d, state[d], version[d])
               ELSE Said("keyReused", None, "off", 0))
  /\ UNCHANGED <<devVars, keyVars, logVars, req>>

\* The first look-up, before the account is locked.
FindKey(p) == pc[p] = "findKey" /\ KeyAnswers(p)

FindNoKey(p) ==
  /\ pc[p] = "findKey"
  /\ ~KeyKnown(p)
  /\ Goto(p, "lockAccount")
  /\ UNCHANGED <<devVars, keyVars, logVars, req, locks, answer>>

\* Slip: the owner's row is read without FOR UPDATE.
LockAccountNot(p) ==
  /\ pc[p] = "lockAccount"
  /\ Goto(p, "count")
  /\ UNCHANGED <<devVars, keyVars, logVars, req, locks, answer>>

LockAccount(p) ==
  /\ pc[p] = "lockAccount"
  /\ \A q \in Requests : locks[q] # req[p].acct
  /\ locks' = [locks EXCEPT ![p] = req[p].acct]
  /\ Goto(p, "count")
  /\ UNCHANGED <<devVars, keyVars, logVars, req, answer>>

CountFull(p) ==
  /\ pc[p] = "count"
  /\ Cardinality(Devices(req[p].acct)) >= Cap
  /\ Refuse(p, "limit")
  /\ UNCHANGED <<devVars, keyVars, logVars, req>>

CountBelow(p) ==
  /\ pc[p] = "count"
  /\ Cardinality(Devices(req[p].acct)) < Cap
  /\ Goto(p, "insert")
  /\ UNCHANGED <<devVars, keyVars, logVars, req, locks, answer>>

\* devices_owner_name_key lets the row in.
NameFree(p) == \A d \in Devices(req[p].acct) : name[d] # req[p].name

\* The device, its key (ON CONFLICT DO NOTHING) and its audit event commit
\* together.
Insert(p, d) ==
  LET r == req[p] IN
  /\ pc[p] = "insert"
  /\ owner[d] = None
  /\ NameFree(p)
  /\ owner' = [owner EXCEPT ![d] = r.acct]
  /\ name' = [name EXCEPT ![d] = r.name]
  /\ version' = [version EXCEPT ![d] = 1]
  /\ keyed' = IF r.key = None \/ KeyKnown(p) THEN keyed ELSE [keyed EXCEPT ![r.acct][r.key] = d]
  /\ keyName' = IF r.key = None \/ KeyKnown(p) THEN keyName ELSE [keyName EXCEPT ![r.acct][r.key] = r.name]
  /\ trail' = [trail EXCEPT ![d] = <<[old |-> None, new |-> "off"]>>]
  /\ Answer(p, Said("ok", d, "off", 1))
  /\ UNCHANGED <<state, rejections, req>>

InsertConflict(p) ==
  /\ pc[p] = "insert"
  /\ ~NameFree(p)
  /\ Goto(p, "findAgain")
  /\ UNCHANGED <<devVars, keyVars, logVars, req, locks, answer>>

\* The loser of two identical creates looks its key up again.
FindAgain(p) == pc[p] = "findAgain" /\ KeyAnswers(p)

NameTaken(p) ==
  /\ pc[p] = "findAgain"
  /\ ~KeyKnown(p)
  /\ Refuse(p, "nameTaken")
  /\ UNCHANGED <<devVars, keyVars, logVars, req>>

-----------------------------------------------------------------------------
(* controlDevice.                                                          *)

\* Any positive version is taken, read or guessed.
StartControl(p, a, d, s, v) ==
  /\ v < MaxVersion
  /\ Begin(p, [NoReq EXCEPT !.acct = a, !.dev = d, !.want = s, !.expect = v, !.known = v <= version[d]],
           "update")

\* Slip: the UPDATE also matches a device already in the requested state.
MatchesNoOp(r) == owner[r.dev] = r.acct /\ version[r.dev] = r.expect

\* Slip: the UPDATE does not look at the version.
MatchesAnyVersion(r) == owner[r.dev] = r.acct /\ state[r.dev] # r.want

\* The WHERE clause of the UPDATE.
Matches(r) == owner[r.dev] = r.acct /\ version[r.dev] = r.expect /\ state[r.dev] # r.want

\* The change and its audit event commit together.
Apply(p) ==
  LET r == req[p] IN
  /\ pc[p] = "update"
  /\ Matches(r)
  /\ state' = [state EXCEPT ![r.dev] = r.want]
  /\ version' = [version EXCEPT ![r.dev] = @ + 1]
  /\ trail' = [trail EXCEPT ![r.dev] =
                 Append(@, [old |-> IF r.want = "on" THEN "off" ELSE "on", new |-> r.want])]
  /\ Answer(p, Said("ok", r.dev, r.want, version[r.dev] + 1))
  /\ UNCHANGED <<owner, name, keyVars, rejections, req>>

\* No row matched; a SELECT, with a snapshot of its own, tells why.
Miss(p) ==
  /\ pc[p] = "update"
  /\ ~Matches(req[p])
  /\ Goto(p, "readBack")
  /\ UNCHANGED <<devVars, keyVars, logVars, req, locks, answer>>

NotFound(p) ==
  /\ pc[p] = "readBack"
  /\ owner[req[p].dev] # req[p].acct
  /\ Refuse(p, "notFound")
  /\ UNCHANGED <<devVars, keyVars, logVars, req>>

\* Slip: a caller that is behind is told the current state as if it were its own.
NoChangeStale(p) ==
  LET r == req[p] IN
  /\ pc[p] = "readBack"
  /\ owner[r.dev] = r.acct
  /\ Answer(p, Said("ok", r.dev, state[r.dev], version[r.dev]))
  /\ UNCHANGED <<devVars, keyVars, logVars, req>>

\* The version is the expected one: the device is returned as it is.
NoChange(p) ==
  LET r == req[p] IN
  /\ pc[p] = "readBack"
  /\ owner[r.dev] = r.acct /\ version[r.dev] = r.expect
  /\ Answer(p, Said("ok", r.dev, state[r.dev], version[r.dev]))
  /\ UNCHANGED <<devVars, keyVars, logVars, req>>

\* A conflict is audited in a transaction of its own, with the state just read.
Conflict(p) ==
  LET r == req[p] IN
  /\ pc[p] = "readBack"
  /\ owner[r.dev] = r.acct /\ version[r.dev] # r.expect
  /\ Goto(p, "auditRejection")
  /\ answer' = [answer EXCEPT ![p].state = state[r.dev]]
  /\ UNCHANGED <<devVars, keyVars, logVars, req, locks>>

AuditRejection(p) ==
  /\ pc[p] = "auditRejection"
  /\ rejections' = rejections \cup {<<req[p].dev, answer[p].state, req[p].want>>}
  /\ Refuse(p, "conflict")
  /\ UNCHANGED <<devVars, keyVars, trail, req>>

\* The database fails a statement, or the process dies.
Abort(p) ==
  /\ pc[p] # "idle"
  /\ Refuse(p, "error")
  /\ UNCHANGED <<devVars, keyVars, logVars, req>>

-----------------------------------------------------------------------------
Add(p) ==
  \/ \E a \in Accounts, n \in Names, k \in Keys \cup {None} : StartAdd(p, a, n, k)
  \/ FindKey(p) \/ FindNoKey(p) \/ LockAccount(p) \/ CountFull(p) \/ CountBelow(p)
  \/ \E d \in Ids : Insert(p, d)
  \/ InsertConflict(p) \/ FindAgain(p) \/ NameTaken(p)

Control(p) ==
  \/ \E a \in Accounts, d \in Ids, s \in States, v \in 1..MaxVersion : StartControl(p, a, d, s, v)
  \/ Apply(p) \/ Miss(p) \/ NotFound(p) \/ NoChange(p) \/ Conflict(p) \/ AuditRejection(p)

Next == \E p \in Requests : Add(p) \/ Control(p) \/ Abort(p)

Spec == Init /\ [][Next]_vars

-----------------------------------------------------------------------------
(* Correctness.                                                            *)

\* Its control was answered with a version of its own.
Changed(p) ==
  /\ pc[p] = "idle" /\ answer[p].kind = "ok" /\ req[p].dev # None
  /\ answer[p].version > req[p].expect

\* The audit trail of a device is its history: one event per version, each
\* starting from the state the one before left, the last one leaving the
\* current state (controlDevice writes the old state from what was asked, not
\* from what it read).
TrailIsHistory ==
  \A d \in Ids :
    /\ Len(trail[d]) = version[d]
    /\ \A i \in 1 .. Len(trail[d]) - 1 : trail[d][i + 1].old = trail[d][i].new
    /\ version[d] > 0 => trail[d][version[d]].new = state[d]
    /\ \A i \in 1 .. Len(trail[d]) : trail[d][i].old # trail[d][i].new

\* Callers holding the same version cannot both change the device
\* (controlDevice: "whoever arrives second matches no row").
OneChangePerVersion ==
  \A p, q \in Requests :
    p # q /\ Changed(p) /\ Changed(q) /\ req[p].dev = req[q].dev => req[p].expect # req[q].expect

\* A control answered with the device tells the state asked for, when it changed
\* the device, and when it did not but its caller had read the version it sends
\* (controlDevice: "Right version, already in the requested state").  Of a version
\* that was guessed, the SELECT may find what the UPDATE missed, in the other state.
AcceptedIsInState ==
  \A p \in Requests :
    /\ pc[p] = "idle" /\ answer[p].kind = "ok" /\ req[p].dev # None
    /\ Changed(p) \/ req[p].known
    => answer[p].state = req[p].want

\* Repeats of one keyed create, racing or not, are answered with one device,
\* which has the name and the owner asked for (addDevice).
RepeatsAgree ==
  \A p, q \in Requests :
    /\ pc[p] = "idle" /\ answer[p].kind = "ok" /\ req[p].dev = None
    /\ pc[q] = "idle" /\ answer[q].kind = "ok" /\ req[q].dev = None
    => /\ name[answer[p].dev] = req[p].name /\ owner[answer[p].dev] = req[p].acct
       /\ req[p].key # None /\ req[q] = req[p] => answer[p].dev = answer[q].dev

\* The statements of the requests implement the atomic register.
Register == INSTANCE DeviceRegister
ImplementsRegister == Register!Spec

-----------------------------------------------------------------------------
(* The inductive invariant behind them (proved in DeviceStoreProofs).      *)

Adding      == {"findKey", "lockAccount", "count", "insert", "findAgain"}
Controlling == {"update", "readBack", "auditRejection"}

\* A request has the arguments of its operation, and past the account's lock
\* nobody else holds it.
Locking ==
  /\ \A p \in Requests : pc[p] \in Adding =>
       req[p].acct # None /\ req[p].name # None /\ req[p].dev = None
  /\ \A p \in Requests : pc[p] \in Controlling => req[p].acct # None /\ req[p].dev # None
  /\ \A p \in Requests : pc[p] \in {"count", "insert", "findAgain"} => locks[p] = req[p].acct
  /\ \A p, q \in Requests : p # q /\ locks[p] # None => locks[p] # locks[q]

\* The count a create has made stays right until its insert.
Counting ==
  \A p \in Requests : pc[p] = "insert" => Cardinality(Devices(req[p].acct)) < Cap

Rows ==
  /\ \A d \in Ids : owner[d] = None <=> version[d] = 0
  /\ \A d \in Ids : owner[d] = None => state[d] = "off"
  /\ \A d, e \in Ids : owner[d] # None /\ owner[d] = owner[e] /\ name[d] = name[e] => d = e
  /\ \A a \in Accounts, k \in Keys : keyed[a][k] # None =>
       owner[keyed[a][k]] = a /\ name[keyed[a][k]] = keyName[a][k]

\* What was answered, or read back, does not run ahead of the device.
Answers ==
  /\ \A p \in Requests : answer[p].kind = "ok" => pc[p] = "idle" /\ answer[p].dev # None
  /\ \A p \in Requests : answer[p].kind = "ok" /\ req[p].dev = None =>
       name[answer[p].dev] = req[p].name /\ owner[answer[p].dev] = req[p].acct
       /\ req[p].acct # None
  /\ \A p \in Requests : Changed(p) => req[p].expect < version[req[p].dev]
  /\ \A p \in Requests : req[p].known => req[p].dev # None /\ req[p].expect <= version[req[p].dev]
  /\ \A p \in Requests : req[p].dev # None => 1 <= req[p].expect
  /\ \A p \in Requests : pc[p] = "readBack" /\ req[p].known =>
       \/ owner[req[p].dev] # req[p].acct
       \/ version[req[p].dev] > req[p].expect
       \/ state[req[p].dev] = req[p].want

IInv ==
  /\ TypeOK
  /\ Locking
  /\ Counting
  /\ Rows
  /\ Answers
  /\ TrailIsHistory
  /\ OneChangePerVersion
  /\ RepeatsAgree
  /\ AcceptedIsInState
=============================================================================
