-------------------------- MODULE DeviceStoreProofs -------------------------
(***************************************************************************)
(* Proofs about DeviceStore, for any number of accounts, devices, names,   *)
(* keys and requests, and any cap.                                         *)
(*                                                                         *)
(* The argument: between its count and its insert a create holds the lock  *)
(* of its account, so no other create changes what it counted (Counting);  *)
(* a device's version only grows, and what a caller was answered, or read   *)
(* and sends, is at most the current one (Answers).  Only Insert and Apply change the *)
(* tables, so the rest of a request leaves rows and trails as they are.    *)
(***************************************************************************)
EXTENDS DeviceStore, TLAPS

\* What a request may be told (every operation of devices.ts).
LEMMA SaidType ==
  ASSUME NEW k \in Kinds, NEW d \in Ids \cup {None}, NEW s \in States, NEW v \in Nat
  PROVE  Said(k, d, s, v) \in AnswerType
  BY DEF Said, AnswerType

\* Ending a request keeps the types of what it writes.
LEMMA AnswerKeepsTypes ==
  ASSUME TypeOK, NEW p \in Requests, NEW said \in AnswerType, Answer(p, said)
  PROVE  /\ pc' \in [Requests -> Steps]
         /\ locks' \in [Requests -> Accounts \cup {None}]
         /\ answer' \in [Requests -> AnswerType]
  BY DEF TypeOK, Answer, Goto, Steps, AnswerType

\* A refusal is an answer without a device.
LEMMA RefuseKeepsTypes ==
  ASSUME TypeOK, NEW p \in Requests, NEW kind \in Kinds, Refuse(p, kind)
  PROVE  /\ pc' \in [Requests -> Steps]
         /\ locks' \in [Requests -> Accounts \cup {None}]
         /\ answer' \in [Requests -> AnswerType]
  BY AnswerKeepsTypes, SaidType DEF Refuse, States

\* Starting a request keeps the types of what it writes.
LEMMA BeginKeepsTypes ==
  ASSUME TypeOK, NEW p \in Requests, NEW r \in ReqType, NEW s \in Steps, Begin(p, r, s)
  PROVE  TypeOK'
  <1>1. NoAnswer \in AnswerType
    BY SaidType DEF NoAnswer, Kinds, States
  <1>2. answer' \in [Requests -> AnswerType]
    BY <1>1 DEF TypeOK, Begin, AnswerType
  <1>3. req' \in [Requests -> ReqType] /\ pc' \in [Requests -> Steps]
    BY DEF TypeOK, Begin, Goto, ReqType
  <1> QED
    BY <1>2, <1>3 DEF TypeOK, Begin, ReqType, AnswerType, devVars, keyVars, logVars

\* The initial tables and idle requests satisfy the inductive invariant.
LEMMA InitInv == Init => IInv
  <1> SUFFICES ASSUME Init PROVE IInv
    OBVIOUS
  <1>1. TypeOK
    <2>1. NoReq \in ReqType /\ NoAnswer \in AnswerType
      BY DEF NoReq, ReqType, NoAnswer, AnswerType, Said, States, Kinds
    <2>2. <<>> \in TrailType
      BY DEF TrailType
    <2> QED
      BY <2>1, <2>2 DEF Init, TypeOK, States, Steps
  <1>2. Locking /\ Counting /\ Rows
    BY NoneIsNothing DEF Init, Locking, Counting, Rows, Adding, Controlling, NoReq
  <1>3. Answers /\ OneChangePerVersion /\ RepeatsAgree /\ AcceptedIsInState
    BY DEF Init, Answers, OneChangePerVersion, RepeatsAgree, AcceptedIsInState, Changed, NoReq, NoAnswer, Said
  <1>4. TrailIsHistory
    BY DEF Init, TrailIsHistory
  <1> QED
    BY <1>1, <1>2, <1>3, <1>4 DEF IInv

\* Every statement keeps the types.
LEMMA TypeInv == ASSUME IInv, [Next]_vars PROVE TypeOK'
  <1> USE DEF devVars, keyVars, logVars
  <1> TypeOK
    BY DEF IInv
  <1>1. ASSUME NEW p \in Requests, NEW a \in Accounts, NEW n \in Names, NEW k \in Keys \cup {None},
               StartAdd(p, a, n, k)
        PROVE  TypeOK'
    <2>1. Begin(p, [NoReq EXCEPT !.acct = a, !.name = n, !.key = k],
                IF k = None THEN "lockAccount" ELSE "findKey")
      BY <1>1 DEF StartAdd
    <2>2. (IF k = None THEN "lockAccount" ELSE "findKey") \in Steps
      BY DEF Steps
    <2>3. 0 \in Nat /\ [NoReq EXCEPT !.acct = a, !.name = n, !.key = k] \in ReqType
      BY DEF NoReq, ReqType, States
    <2> QED
      BY <2>1, <2>2, <2>3, BeginKeepsTypes
  <1>2. ASSUME NEW p \in Requests, NEW a \in Accounts, NEW d \in Ids, NEW s \in States,
               NEW v \in 1..MaxVersion, StartControl(p, a, d, s, v)
        PROVE  TypeOK'
    <2>1. "update" \in Steps /\ v \in Nat
      BY BoundsAreNat DEF Steps
    <2> DEFINE b == v <= version[d]
               r == [NoReq EXCEPT !.acct = a, !.dev = d, !.want = s, !.expect = v, !.known = b]
    <2>2. b \in BOOLEAN
      OBVIOUS
    <2>3. Begin(p, r, "update")
      BY <1>2 DEF StartControl
    <2> HIDE DEF b
    <2>4. r \in ReqType
      BY <2>1, <2>2 DEF NoReq, ReqType, States
    <2> HIDE DEF r
    <2> QED
      BY <2>1, <2>3, <2>4, BeginKeepsTypes
  \* The key's device is a device, answered with its state and version.
  <1>3. ASSUME NEW p \in Requests, FindKey(p) \/ FindAgain(p) PROVE TypeOK'
    <2> DEFINE d == keyed[req[p].acct][req[p].key]
    <2>1. req[p].acct \in Accounts
      BY <1>3 DEF IInv, TypeOK, ReqType, Locking, Adding, FindKey, FindAgain
    <2>2. d \in Ids
      BY SMTT(60), <1>3, <2>1 DEF TypeOK, ReqType, FindKey, FindAgain, KeyAnswers, KeyKnown
    <2>3. Said("ok", d, state[d], version[d]) \in AnswerType
      BY <2>2, SaidType DEF TypeOK, Kinds
    <2>4. Said("keyReused", None, "off", 0) \in AnswerType
      BY SaidType DEF Kinds, States
    <2>5. \E said \in AnswerType : Answer(p, said)
      BY <1>3, <2>3, <2>4 DEF FindKey, FindAgain, KeyAnswers
    <2> QED
      BY <1>3, <2>5, AnswerKeepsTypes DEF TypeOK, FindKey, FindAgain, KeyAnswers
  <1>4. ASSUME NEW p \in Requests,
               \/ FindNoKey(p) \/ LockAccount(p) \/ CountBelow(p) \/ InsertConflict(p) \/ Miss(p)
        PROVE  TypeOK'
    <2>1. pc' \in [Requests -> Steps]
      BY <1>4 DEF TypeOK, Steps, Goto, FindNoKey, LockAccount, CountBelow, InsertConflict, Miss
    <2>2. locks' \in [Requests -> Accounts \cup {None}]
      BY <1>4 DEF TypeOK, ReqType, FindNoKey, LockAccount, CountBelow, InsertConflict, Miss
    <2> QED
      BY <1>4, <2>1, <2>2 DEF TypeOK, FindNoKey, LockAccount, CountBelow, InsertConflict, Miss
  <1>5. ASSUME NEW p \in Requests,
               CountFull(p) \/ NameTaken(p) \/ NotFound(p) \/ Abort(p)
        PROVE  TypeOK'
    <2>1. \E kind \in Kinds : Refuse(p, kind)
      BY <1>5 DEF CountFull, NameTaken, NotFound, Abort, Kinds
    <2> QED
      BY <1>5, <2>1, RefuseKeepsTypes DEF TypeOK, CountFull, NameTaken, NotFound, Abort
  <1>6. ASSUME NEW p \in Requests, NEW d \in Ids, Insert(p, d) PROVE TypeOK'
    <2> DEFINE event == [old |-> None, new |-> "off"]
    <2>1. req[p].acct \in Accounts /\ req[p].name \in Names /\ req[p].key \in Keys \cup {None}
      BY <1>6 DEF IInv, TypeOK, ReqType, Locking, Adding, Insert
    <2>2. <<event>> \in TrailType
      BY DEF TrailType, States
    <2>3. trail' \in [Ids -> TrailType]
      BY <1>6, <2>2 DEF TypeOK, Insert
    <2>4. Said("ok", d, "off", 1) \in AnswerType
      BY SaidType DEF Kinds, States
    <2>5. keyed' \in [Accounts -> [Keys -> Ids \cup {None}]]
      BY <1>6, <2>1 DEF TypeOK, Insert
    <2>6. keyName' \in [Accounts -> [Keys -> Names \cup {None}]]
      BY <1>6, <2>1 DEF TypeOK, Insert
    <2>7. owner' \in [Ids -> Accounts \cup {None}] /\ name' \in [Ids -> Names \cup {None}]
          /\ version' \in [Ids -> Nat]
      BY <1>6, <2>1 DEF TypeOK, Insert
    <2> QED
      BY <1>6, <2>3, <2>4, <2>5, <2>6, <2>7, AnswerKeepsTypes DEF TypeOK, Insert
  <1>7. ASSUME NEW p \in Requests, Apply(p) PROVE TypeOK'
    <2> DEFINE d == req[p].dev
               event == [old |-> IF req[p].want = "on" THEN "off" ELSE "on", new |-> req[p].want]
    <2>1. d \in Ids /\ req[p].want \in States
      BY <1>7 DEF IInv, TypeOK, ReqType, Locking, Controlling, Apply
    <2>2. Append(trail[d], event) \in TrailType
      <3>1. event \in [old : States \cup {None}, new : States]
        BY <2>1 DEF States
      <3>2. trail[d] \in Seq([old : States \cup {None}, new : States])
        BY <2>1 DEF TypeOK, TrailType
      <3> HIDE DEF event, d
      <3> QED
        BY <3>1, <3>2 DEF TrailType
    <2>3. trail' = [trail EXCEPT ![d] = Append(@, event)]
      BY <1>7 DEF Apply
    <2>4. trail' \in [Ids -> TrailType]
      BY <2>1, <2>2, <2>3 DEF TypeOK
    <2>5. Said("ok", d, req[p].want, version[d] + 1) \in AnswerType
      BY <2>1, SaidType DEF TypeOK, Kinds
    <2>6. version' \in [Ids -> Nat] /\ state' \in [Ids -> States]
      BY <1>7, <2>1 DEF TypeOK, Apply
    <2> QED
      BY <1>7, <2>4, <2>5, <2>6, AnswerKeepsTypes DEF TypeOK, Apply
  <1>8. ASSUME NEW p \in Requests, NoChange(p) PROVE TypeOK'
    <2>1. req[p].dev \in Ids
      BY <1>8 DEF IInv, TypeOK, ReqType, Locking, Controlling, NoChange
    <2>2. Said("ok", req[p].dev, state[req[p].dev], version[req[p].dev]) \in AnswerType
      BY <2>1, SaidType DEF TypeOK, Kinds
    <2> QED
      BY <1>8, <2>2, AnswerKeepsTypes DEF TypeOK, NoChange
  <1>9. ASSUME NEW p \in Requests, Conflict(p) PROVE TypeOK'
    <2>1. state[req[p].dev] \in States
      BY <1>9 DEF IInv, TypeOK, ReqType, Locking, Controlling, Conflict
    <2>2. answer' \in [Requests -> AnswerType]
      BY ZenonT(60), <1>9, <2>1 DEF TypeOK, AnswerType, Conflict
    <2>3. pc' \in [Requests -> Steps]
      BY <1>9 DEF TypeOK, Steps, Conflict, Goto
    <2> QED
      BY <1>9, <2>2, <2>3 DEF TypeOK, Conflict
  <1>10. ASSUME NEW p \in Requests, AuditRejection(p) PROVE TypeOK'
    <2>1. <<req[p].dev, answer[p].state, req[p].want>> \in Ids \X States \X States
      BY <1>10 DEF IInv, TypeOK, ReqType, AnswerType, Locking, Controlling, AuditRejection
    <2>2. rejections' \subseteq Ids \X States \X States
      BY <1>10, <2>1 DEF TypeOK, AuditRejection
    <2>3. "conflict" \in Kinds
      BY DEF Kinds
    <2> QED
      BY <1>10, <2>2, <2>3, RefuseKeepsTypes DEF TypeOK, AuditRejection
  <1>11. CASE UNCHANGED vars
    BY <1>11 DEF TypeOK, vars
  <1> QED
    BY <1>1, <1>2, <1>3, <1>4, <1>5, <1>6, <1>7, <1>8, <1>9, <1>10, <1>11 DEF Next, Add, Control

\* An account's lock has one holder, and requests keep their arguments.
LEMMA LockingInv == ASSUME IInv, [Next]_vars PROVE Locking'
  <1> USE NoneIsNothing DEF IInv, TypeOK, ReqType, Steps, Locking, Adding, Controlling, Goto, Answer, Refuse,
          devVars, keyVars, logVars
  <1>1. ASSUME NEW p \in Requests, NEW a \in Accounts, NEW n \in Names, NEW k \in Keys \cup {None},
               StartAdd(p, a, n, k)
        PROVE  Locking'
    BY <1>1 DEF StartAdd, Begin, NoReq
  <1>2. ASSUME NEW p \in Requests, NEW a \in Accounts, NEW d \in Ids, NEW s \in States,
               NEW v \in 1..MaxVersion, StartControl(p, a, d, s, v)
        PROVE  Locking'
    <2>1. req'[p].acct = a /\ req'[p].dev = d /\ \A q \in Requests \ {p} : req'[q] = req[q]
      BY <1>2 DEF StartControl, Begin, NoReq
    <2> QED
      BY <1>2, <2>1 DEF StartControl, Begin
  \* The lock was free.
  <1>3. ASSUME NEW p \in Requests, LockAccount(p) PROVE Locking'
    BY <1>3 DEF LockAccount
  <1>4. ASSUME NEW p \in Requests,
               FindNoKey(p) \/ CountBelow(p) \/ InsertConflict(p) \/ Miss(p) \/ Conflict(p)
        PROVE  Locking'
    BY <1>4 DEF FindNoKey, CountBelow, InsertConflict, Miss, Conflict
  \* A request that ends gives its lock back and keeps what it asked.
  <1>5. ASSUME NEW p \in Requests, NEW said, Answer(p, said), req' = req PROVE Locking'
    BY <1>5
  <1>7. CASE UNCHANGED vars
    BY <1>7 DEF vars
  <1> HIDE DEF IInv, TypeOK, ReqType, Steps, Locking, Adding, Controlling, Goto, Answer, Refuse,
          devVars, keyVars, logVars
  <1>6. ASSUME NEW p \in Requests,
               \/ FindKey(p) \/ FindAgain(p) \/ CountFull(p) \/ NameTaken(p) \/ NotFound(p)
               \/ NoChange(p) \/ AuditRejection(p) \/ Abort(p) \/ Apply(p) \/ \E d \in Ids : Insert(p, d)
        PROVE  Locking'
    <2>1. req' = req /\ \E said : Answer(p, said)
      BY <1>6 DEF FindKey, FindAgain, KeyAnswers, CountFull, NameTaken, NotFound, NoChange,
         AuditRejection, Abort, Apply, Insert, Refuse
    <2> QED
      BY <2>1, <1>5
  <1> QED
    BY <1>1, <1>2, <1>3, <1>4, <1>6, <1>7 DEF Next, Add, Control

\* What a request counted, its insert finds: only a create of the same account
\* could change it, and that one would hold the lock.
LEMMA CountingInv == ASSUME IInv, [Next]_vars PROVE Counting'
  <1> USE DEF IInv, TypeOK, Locking, Counting
  <1>1. ASSUME NEW p \in Requests, NEW d \in Ids, Insert(p, d) PROVE Counting'
    <2> SUFFICES ASSUME NEW q \in Requests, pc'[q] = "insert"
                 PROVE  Cardinality(Devices(req[q].acct))' < Cap
      BY DEF Counting
    <2>1. q # p /\ pc[q] = "insert" /\ req'[q] = req[q]
      BY <1>1 DEF Insert, Answer, Goto
    <2>2. req[q].acct # req[p].acct
      BY <1>1, <2>1, NoneIsNothing DEF Insert, Adding, ReqType
    <2>3. Devices(req[q].acct)' = Devices(req[q].acct)
      BY <1>1, <2>1, <2>2, NoneIsNothing DEF Insert, Devices, ReqType, Adding
    <2> QED
      BY <2>1, <2>3
  <1>2. ASSUME NEW p \in Requests, CountBelow(p) PROVE Counting'
    <2>1. \A a : Devices(a)' = Devices(a)
      BY <1>2 DEF CountBelow, Devices, devVars
    <2>2. \A q \in Requests : pc'[q] = "insert" => Cardinality(Devices(req[q].acct)) < Cap
      BY <1>2 DEF CountBelow, Goto
    <2>3. req' = req
      BY <1>2 DEF CountBelow
    <2> QED
      BY <2>1, <2>2, <2>3
  <1>3. ASSUME owner' = owner, \A q \in Requests : pc'[q] = "insert" => pc[q] = "insert" /\ req'[q] = req[q]
        PROVE  Counting'
    <2>1. \A a : Devices(a)' = Devices(a)
      BY <1>3 DEF Devices
    <2> QED
      BY <1>3, <2>1
  <1> HIDE DEF Counting, Locking, IInv
  <1>4. ASSUME NEW p \in Requests, Add(p) \/ Control(p) \/ Abort(p), ~CountBelow(p),
               ~\E d \in Ids : Insert(p, d)
        PROVE  owner' = owner /\ \A q \in Requests : pc'[q] = "insert" => pc[q] = "insert" /\ req'[q] = req[q]
    <2> USE DEF IInv, TypeOK, Steps, Goto, Answer, Refuse, devVars
    <2>1. CASE Add(p)
      BY <1>4, <2>1 DEF Add, StartAdd, Begin, FindKey, FindNoKey, LockAccount, CountFull, InsertConflict,
         FindAgain, NameTaken, KeyAnswers
    <2>2. CASE Control(p)
      BY <1>4, <2>2 DEF Control, StartControl, Begin, Apply, Miss, NotFound, NoChange, Conflict, AuditRejection
    <2>3. CASE Abort(p)
      BY <2>3 DEF Abort
    <2> QED
      BY <1>4, <2>1, <2>2, <2>3
  <1>5. CASE UNCHANGED vars
    BY <1>5, <1>3 DEF vars, devVars
  <1> QED
    BY <1>1, <1>2, <1>3, <1>4, <1>5 DEF Next, Add

\* Statements that leave the tables alone leave rows and trails as they are.
LEMMA TablesFrame == ASSUME IInv, UNCHANGED <<devVars, keyVars, trail>> PROVE Rows' /\ TrailIsHistory'
  BY DEF IInv, Rows, TrailIsHistory, devVars, keyVars

\* Which statements those are: all but an insert and a change.
LEMMA OthersFrame ==
  ASSUME [Next]_vars, ~\E p \in Requests : Apply(p) \/ \E d \in Ids : Insert(p, d)
  PROVE  UNCHANGED <<devVars, keyVars, trail>>
  BY ZenonT(60) DEF Next, Add, Control, StartAdd, StartControl, Begin, FindKey, FindNoKey, LockAccount, CountFull,
     CountBelow, InsertConflict, FindAgain, NameTaken, KeyAnswers, Miss, NotFound, NoChange, Conflict,
     AuditRejection, Abort, vars, logVars

\* A device has one name in its account, and a key names a device of its own.
LEMMA RowsInv == ASSUME IInv, [Next]_vars PROVE Rows'
  <1>1. ASSUME NEW p \in Requests, NEW d \in Ids, Insert(p, d) PROVE Rows'
    BY SMTT(60), <1>1, NoneIsNothing DEF IInv, TypeOK, ReqType, Locking, Adding, Rows, Insert, NameFree, Devices
  <1>2. ASSUME NEW p \in Requests, Apply(p) PROVE Rows'
    BY <1>2, NoneIsNothing DEF IInv, TypeOK, ReqType, Locking, Controlling, Rows, Apply, Matches, keyVars
  <1> QED
    BY <1>1, <1>2, TablesFrame, OthersFrame

\* A change takes up the trail where the last one left it: its old state is the
\* one stored, since the row was not yet in the state asked for.
LEMMA TrailInv == ASSUME IInv, [Next]_vars PROVE TrailIsHistory'
  <1>1. ASSUME NEW p \in Requests, NEW d \in Ids, Insert(p, d) PROVE TrailIsHistory'
    <2>1. ASSUME NEW e \in Ids, e # d PROVE trail'[e] = trail[e] /\ version'[e] = version[e] /\ state'[e] = state[e]
      BY <1>1, <2>1 DEF IInv, TypeOK, Insert
    <2>2. trail'[d] = <<[old |-> None, new |-> "off"]>> /\ version'[d] = 1 /\ state'[d] = "off"
      BY <1>1 DEF IInv, TypeOK, Rows, Insert
    <2>3. Len(trail'[d]) = 1 /\ trail'[d][1].old = None /\ trail'[d][1].new = "off" /\ None # "off"
      BY <2>2, NoneIsNothing
    <2> QED
      <3> SUFFICES ASSUME NEW e \in Ids
                   PROVE  /\ Len(trail'[e]) = version'[e]
                          /\ \A i \in 1 .. Len(trail'[e]) - 1 : trail'[e][i + 1].old = trail'[e][i].new
                          /\ version'[e] > 0 => trail'[e][version'[e]].new = state'[e]
                          /\ \A i \in 1 .. Len(trail'[e]) : trail'[e][i].old # trail'[e][i].new
        BY DEF TrailIsHistory
      <3>1. CASE e = d
        BY <3>1, <2>2, <2>3
      <3>2. CASE e # d
        BY <3>2, <2>1 DEF IInv, TrailIsHistory
      <3> QED
        BY <3>1, <3>2
  <1>2. ASSUME NEW p \in Requests, Apply(p) PROVE TrailIsHistory'
    <2> DEFINE d == req[p].dev
               event == [old |-> IF req[p].want = "on" THEN "off" ELSE "on", new |-> req[p].want]
    <2>1. d \in Ids /\ req[p].want \in States /\ state[d] \in States /\ state[d] # req[p].want
      BY <1>2 DEF IInv, TypeOK, ReqType, Locking, Controlling, Apply, Matches
    <2>2. event.old = state[d] /\ event.new = req[p].want
      BY <2>1 DEF States
    <2>3. version[d] \in Nat /\ version[d] > 0 /\ trail[d] \in Seq([old : States \cup {None}, new : States])
      <3>1. owner[d] # None
        BY <1>2, <2>1 DEF IInv, Locking, Controlling, Apply, Matches
      <3>2. version[d] \in Nat /\ version[d] # 0
        BY <2>1, <3>1 DEF IInv, TypeOK, Rows
      <3>3. trail[d] \in Seq([old : States \cup {None}, new : States])
        BY <2>1 DEF IInv, TypeOK, TrailType
      <3> QED
        BY <3>2, <3>3
    <2>4. \A e \in Ids : e # d => trail'[e] = trail[e] /\ version'[e] = version[e] /\ state'[e] = state[e]
      BY <1>2 DEF IInv, TypeOK, Apply
    <2>5. trail'[d] = Append(trail[d], event) /\ version'[d] = version[d] + 1 /\ state'[d] = req[p].want
      BY <1>2, <2>1 DEF IInv, TypeOK, Apply
    <2>6. /\ Len(trail[d]) = version[d]
          /\ \A i \in 1 .. Len(trail[d]) - 1 : trail[d][i + 1].old = trail[d][i].new
          /\ trail[d][version[d]].new = state[d]
          /\ \A i \in 1 .. Len(trail[d]) : trail[d][i].old # trail[d][i].new
      BY <2>1, <2>3 DEF IInv, TrailIsHistory
    <2> HIDE DEF event, d
    <2>7. /\ Len(trail'[d]) = version'[d]
          /\ trail'[d][version'[d]] = event
          /\ \A i \in 1 .. version[d] : trail'[d][i] = trail[d][i]
      BY <2>3, <2>5, <2>6
    <2>8. \A i \in 1 .. Len(trail'[d]) - 1 : trail'[d][i + 1].old = trail'[d][i].new
      <3> SUFFICES ASSUME NEW i \in 1 .. version[d] PROVE trail'[d][i + 1].old = trail'[d][i].new
        BY <2>3, <2>5, <2>7
      <3>1. CASE i = version[d]
        BY <3>1, <2>2, <2>3, <2>5, <2>6, <2>7
      <3>2. CASE i # version[d]
        <4>1. i \in 1 .. Len(trail[d]) - 1 /\ i + 1 \in 1 .. version[d]
          BY <3>2, <2>3, <2>6
        <4>2. trail[d][i + 1].old = trail[d][i].new
          BY <4>1, <2>6
        <4> QED
          BY <4>1, <4>2, <2>7
      <3> QED
        BY <3>1, <3>2
    <2>9. \A i \in 1 .. Len(trail'[d]) : trail'[d][i].old # trail'[d][i].new
      BY <2>1, <2>2, <2>3, <2>5, <2>6, <2>7
    <2>10. trail'[d][version'[d]].new = state'[d]
      BY <2>2, <2>5, <2>7
    <2> QED
      <3> SUFFICES ASSUME NEW e \in Ids
                   PROVE  /\ Len(trail'[e]) = version'[e]
                          /\ \A i \in 1 .. Len(trail'[e]) - 1 : trail'[e][i + 1].old = trail'[e][i].new
                          /\ version'[e] > 0 => trail'[e][version'[e]].new = state'[e]
                          /\ \A i \in 1 .. Len(trail'[e]) : trail'[e][i].old # trail'[e][i].new
        BY DEF TrailIsHistory
      <3>1. CASE e = d
        BY <3>1, <2>7, <2>8, <2>9, <2>10
      <3>2. CASE e # d
        BY <3>2, <2>4 DEF IInv, TrailIsHistory
      <3> QED
        BY <3>1, <3>2
  <1> QED
    BY <1>1, <1>2, TablesFrame, OthersFrame

\* A create that is answered leaves the other requests' answers as they were,
\* and tells of a device that is there under its name.
LEMMA CreateAnswered ==
  ASSUME IInv, NEW p \in Requests, pc[p] \in Adding, NEW said \in AnswerType, Answer(p, said),
         UNCHANGED <<owner, name, state, version, req>>,
         said.kind = "ok" =>
           said.dev # None /\ name[said.dev] = req[p].name /\ owner[said.dev] = req[p].acct
  PROVE  Answers'
  <1>1. req[p].dev = None /\ req[p].acct # None
    BY DEF IInv, Locking
  <1>2. pc'[p] = "idle" /\ answer'[p] = said
    BY DEF IInv, TypeOK, Answer, Goto
  <1>3. \A q \in Requests : q # p => pc'[q] = pc[q] /\ answer'[q] = answer[q]
    BY DEF IInv, TypeOK, Answer, Goto
  <1>4. req' = req /\ name' = name /\ owner' = owner /\ version' = version /\ state' = state
    OBVIOUS
  <1>5. Answers
    BY DEF IInv
  <1>6. \A q \in Requests : answer'[q].kind = "ok" => pc'[q] = "idle" /\ answer'[q].dev # None
    BY <1>2, <1>3, <1>5 DEF Answers
  <1>7. \A q \in Requests : answer'[q].kind = "ok" /\ req'[q].dev = None =>
          name'[answer'[q].dev] = req'[q].name /\ owner'[answer'[q].dev] = req'[q].acct /\ req'[q].acct # None
    <2> TAKE q \in Requests
    <2>1. CASE q = p
      BY <2>1, <1>1, <1>2, <1>4
    <2>2. CASE q # p
      BY <2>2, <1>3, <1>4, <1>5 DEF Answers
    <2> QED
      BY <2>1, <2>2
  <1>8. \A q \in Requests : Changed(q)' => req'[q].expect < version'[req'[q].dev]
    <2> TAKE q \in Requests
    <2>1. CASE q = p
      BY <2>1, <1>1, <1>4 DEF Changed
    <2>2. CASE q # p
      <3>1. Changed(q)' <=> Changed(q)
        BY <2>2, <1>3, <1>4 DEF Changed
      <3> QED
        BY <3>1, <1>4, <1>5 DEF Answers
    <2> QED
      BY <2>1, <2>2
  <1>9. \A q \in Requests :
          /\ req'[q].known => req'[q].dev # None /\ req'[q].expect <= version'[req'[q].dev]
          /\ req'[q].dev # None => 1 <= req'[q].expect
    BY <1>4, <1>5 DEF Answers
  <1>10. \A q \in Requests : pc'[q] = "readBack" /\ req'[q].known =>
           \/ owner'[req'[q].dev] # req'[q].acct
           \/ version'[req'[q].dev] > req'[q].expect
           \/ state'[req'[q].dev] = req'[q].want
    BY <1>2, <1>3, <1>4, <1>5 DEF Answers
  <1> QED
    BY <1>6, <1>7, <1>8, <1>9, <1>10 DEF Answers

\* What a create finds under its key is a device of its account, with the name
\* the key was recorded with.
LEMMA KeyAnswered ==
  ASSUME IInv, NEW p \in Requests, pc[p] \in Adding, KeyAnswers(p)
  PROVE  Answers'
  <1> DEFINE d == keyed[req[p].acct][req[p].key]
             same == keyName[req[p].acct][req[p].key] = req[p].name
  <1>1. req[p].acct \in Accounts /\ req[p].key \in Keys /\ d \in Ids
    BY SMTT(60) DEF IInv, TypeOK, ReqType, Locking, KeyAnswers, KeyKnown
  <1>2. d # None /\ owner[d] = req[p].acct /\ name[d] = keyName[req[p].acct][req[p].key]
    <2>1. Rows
      BY DEF IInv
    <2>2. d # None
      BY DEF KeyAnswers, KeyKnown
    <2> QED
      BY <1>1, <2>1, <2>2 DEF Rows
  <1>3. UNCHANGED <<owner, name, state, version, req>>
    BY DEF KeyAnswers, devVars
  <1>4. state[d] \in States /\ version[d] \in Nat
    BY <1>1 DEF IInv, TypeOK
  <1>5. CASE same
    <2>1. Answer(p, Said("ok", d, state[d], version[d]))
      BY <1>5 DEF KeyAnswers
    <2>2. Said("ok", d, state[d], version[d]) \in AnswerType
      BY <1>1, <1>4, SaidType DEF Kinds
    <2>3. Said("ok", d, state[d], version[d]).dev = d
      BY DEF Said
    <2> QED
      BY <1>2, <1>3, <1>5, <2>1, <2>2, <2>3, CreateAnswered
  <1>6. CASE ~same
    <2>1. Answer(p, Said("keyReused", None, "off", 0))
      BY <1>6 DEF KeyAnswers
    <2>2. Said("keyReused", None, "off", 0) \in AnswerType
      BY SaidType DEF Kinds, States
    <2>3. Said("keyReused", None, "off", 0).kind # "ok"
      BY DEF Said
    <2> QED
      BY <1>3, <2>1, <2>2, <2>3, CreateAnswered
  <1> QED
    BY <1>5, <1>6

\* Answers do not run ahead of the device, whatever changes it meanwhile.
LEMMA AnswersInv == ASSUME IInv, [Next]_vars PROVE Answers'
  \* The key's device has the name and the account it was recorded with.
  <1>3. ASSUME NEW p \in Requests, FindKey(p) PROVE Answers'
    BY <1>3, KeyAnswered DEF FindKey, Adding
  <1>4. ASSUME NEW p \in Requests, FindAgain(p) PROVE Answers'
    BY <1>4, KeyAnswered DEF FindAgain, Adding
  <1> USE NoneIsNothing DEF IInv, TypeOK, ReqType, AnswerType, Locking, Rows, Answers, Adding, Controlling,
          States, Changed, Kinds, Begin, Goto, Answer, Refuse, Said, devVars, keyVars, logVars
  <1>1. ASSUME NEW p \in Requests, NEW a \in Accounts, NEW n \in Names, NEW k \in Keys \cup {None},
               StartAdd(p, a, n, k)
        PROVE  Answers'
    BY <1>1 DEF StartAdd, NoReq, NoAnswer
  <1>2. ASSUME NEW p \in Requests, NEW a \in Accounts, NEW d \in Ids, NEW s \in States,
               NEW v \in 1..MaxVersion, StartControl(p, a, d, s, v)
        PROVE  Answers'
    <2> DEFINE b == v <= version[d]
               r == [NoReq EXCEPT !.acct = a, !.dev = d, !.want = s, !.expect = v, !.known = b]
    <2>1. /\ pc' = [pc EXCEPT ![p] = "update"] /\ req' = [req EXCEPT ![p] = r]
          /\ answer' = [answer EXCEPT ![p] = NoAnswer] /\ UNCHANGED <<owner, name, state, version>>
      BY <1>2 DEF StartControl
    <2>2. v \in Nat /\ v >= 1 /\ (b => v <= version[d]) /\ d # None
      BY BoundsAreNat
    <2> HIDE DEF b
    <2>3. r.dev = d /\ r.acct = a /\ r.expect = v /\ r.known = b
      BY DEF NoReq
    <2> HIDE DEF r
    <2>4. NoAnswer.kind # "ok"
      BY DEF NoAnswer
    <2> QED
      BY <2>1, <2>2, <2>3, <2>4
  <1>6. ASSUME NEW p \in Requests, NEW d \in Ids, Insert(p, d) PROVE Answers'
    BY <1>6 DEF Insert
  <1>7. ASSUME NEW p \in Requests, Apply(p) PROVE Answers'
    BY <1>7 DEF Apply, Matches
  \* The UPDATE missed, so the row was another version, or in the state asked for.
  <1>8. ASSUME NEW p \in Requests, Miss(p) PROVE Answers'
    <2>1. \/ owner[req[p].dev] # req[p].acct
          \/ version[req[p].dev] # req[p].expect
          \/ state[req[p].dev] = req[p].want
      BY <1>8 DEF Miss, Matches
    <2>2. pc' = [pc EXCEPT ![p] = "readBack"] /\ UNCHANGED <<owner, name, state, version, req, answer>>
      BY <1>8 DEF Miss
    <2>3. version[req[p].dev] \in Nat /\ req[p].expect \in Nat /\ req[p].dev # None
      BY <1>8 DEF Miss
    <2>4. req[p].known => \/ owner[req[p].dev] # req[p].acct
                          \/ version[req[p].dev] > req[p].expect
                          \/ state[req[p].dev] = req[p].want
      <3> SUFFICES ASSUME req[p].known, version[req[p].dev] # req[p].expect
                   PROVE  version[req[p].dev] > req[p].expect
        BY <2>1
      <3>1. req[p].expect <= version[req[p].dev]
        BY <2>3
      <3> HIDE DEF IInv, TypeOK, ReqType, AnswerType, Locking, Rows, Answers, Adding, Controlling
      <3> QED
        BY <2>3, <3>1
    <2>5. \A q \in Requests : q # p => pc'[q] = pc[q]
      BY <2>2
    <2>6. pc[p] = "update" /\ answer[p].kind # "ok"
      BY <1>8 DEF Miss
    <2> QED
      BY <2>2, <2>4, <2>5, <2>6
  <1>9. ASSUME NEW p \in Requests, NoChange(p) PROVE Answers'
    BY <1>9 DEF NoChange
  <1>10. ASSUME NEW p \in Requests, Conflict(p) PROVE Answers'
    BY <1>10 DEF Conflict
  <1>11. ASSUME NEW p \in Requests, FindNoKey(p) PROVE Answers'
    BY <1>11 DEF FindNoKey
  <1>12. ASSUME NEW p \in Requests, LockAccount(p) PROVE Answers'
    BY <1>12 DEF LockAccount
  <1>13. ASSUME NEW p \in Requests, CountBelow(p) PROVE Answers'
    BY <1>13 DEF CountBelow
  <1>14. ASSUME NEW p \in Requests, InsertConflict(p) PROVE Answers'
    BY <1>14 DEF InsertConflict
  <1>15. ASSUME NEW p \in Requests, CountFull(p) PROVE Answers'
    BY <1>15 DEF CountFull
  <1>16. ASSUME NEW p \in Requests, NameTaken(p) PROVE Answers'
    BY <1>16 DEF NameTaken
  <1>17. ASSUME NEW p \in Requests, NotFound(p) PROVE Answers'
    BY <1>17 DEF NotFound
  <1>18. ASSUME NEW p \in Requests, Abort(p) PROVE Answers'
    BY <1>18 DEF Abort
  <1>19. ASSUME NEW p \in Requests, AuditRejection(p) PROVE Answers'
    BY <1>19 DEF AuditRejection
  <1>20. CASE UNCHANGED vars
    BY <1>20 DEF vars
  <1> HIDE DEF IInv, TypeOK, ReqType, AnswerType, Locking, Rows, Answers, Adding, Controlling,
          States, Changed, Kinds, Begin, Goto, Answer, Refuse, Said, devVars, keyVars, logVars
  <1> QED
    BY <1>1, <1>2, <1>3, <1>4, <1>6, <1>7, <1>8, <1>9, <1>10, <1>11, <1>12, <1>13, <1>14, <1>15, <1>16, <1>17, <1>18, <1>19, <1>20
       DEF Next, Add, Control

\* A statement of one request leaves the other requests where they are.
LEMMA OthersStay ==
  ASSUME IInv, NEW p \in Requests, NEW q \in Requests \ {p}, Add(p) \/ Control(p) \/ Abort(p)
  PROVE  pc'[q] = pc[q] /\ answer'[q] = answer[q] /\ req'[q] = req[q]
  <1> USE DEF IInv, TypeOK, Begin, Goto, Answer, Refuse
  <1>1. CASE Add(p)
    BY ZenonT(60), <1>1 DEF Add, StartAdd, FindKey, FindNoKey, LockAccount, CountFull, CountBelow, Insert, InsertConflict,
       FindAgain, NameTaken, KeyAnswers
  <1>2. CASE Control(p)
    BY <1>2 DEF Control, StartControl, Apply, Miss, NotFound, NoChange, Conflict, AuditRejection
  <1>3. CASE Abort(p)
    BY <1>3 DEF Abort
  <1> QED
    BY <1>1, <1>2, <1>3

\* A control is answered "ok" by its UPDATE, or by the SELECT that found
\* nothing to change, and the answer then stays.
LEMMA OkSteps ==
  ASSUME IInv, [Next]_vars, NEW q \in Requests, pc'[q] = "idle", answer'[q].kind = "ok", req'[q].dev # None
  PROVE  \/ pc[q] = "idle" /\ answer'[q] = answer[q] /\ req'[q] = req[q]
         \/ Apply(q) \/ NoChange(q)
  <1>1. CASE UNCHANGED vars
    BY <1>1 DEF vars
  <1>2. CASE Next
    <2>1. PICK p \in Requests : Add(p) \/ Control(p) \/ Abort(p)
      BY <1>2 DEF Next
    <2>2. CASE p # q
      BY <2>1, <2>2, OthersStay
    <2>3. CASE p = q /\ Add(q)
      <3> USE DEF IInv, TypeOK, Begin, Goto, Answer, Refuse, Said
      <3>1. CASE \E a \in Accounts, n \in Names, k \in Keys \cup {None} : StartAdd(q, a, n, k)
        BY <3>1 DEF StartAdd, NoReq, NoAnswer
      <3>2. CASE ~\E a \in Accounts, n \in Names, k \in Keys \cup {None} : StartAdd(q, a, n, k)
        <4>1. pc[q] \in Adding /\ req' = req
          BY <2>3, <3>2 DEF Add, Adding, FindKey, FindNoKey, LockAccount, CountFull, CountBelow, Insert,
             InsertConflict, FindAgain, NameTaken, KeyAnswers
        <4> QED
          BY <4>1 DEF Locking
      <3> QED
        BY <3>1, <3>2
    <2>4. CASE p = q /\ (Control(q) \/ Abort(q))
      <3> USE DEF IInv, TypeOK, Goto, Answer, Refuse, Said
      <3>1. CASE \E a \in Accounts, d \in Ids, s \in States, v \in 1..MaxVersion : StartControl(q, a, d, s, v)
        BY <3>1 DEF StartControl, Begin
      <3>2. CASE Miss(q) \/ Conflict(q)
        BY <3>2 DEF Miss, Conflict
      <3>3. CASE NotFound(q) \/ AuditRejection(q) \/ Abort(q)
        BY <3>3 DEF NotFound, AuditRejection, Abort
      <3> HIDE DEF IInv, TypeOK
      <3> QED
        BY <2>4, <3>1, <3>2, <3>3 DEF Control
    <2> QED
      BY <2>1, <2>2, <2>3, <2>4
  <1> QED
    BY <1>1, <1>2

\* The second of two callers with one version finds the first one's.
LEMMA OneChangeInv == ASSUME IInv, [Next]_vars PROVE OneChangePerVersion'
  <1> SUFFICES ASSUME NEW p \in Requests, NEW q \in Requests, p # q, Changed(p)', Changed(q)',
                      req'[p].dev = req'[q].dev
               PROVE  req'[p].expect # req'[q].expect
    BY DEF OneChangePerVersion
  <1> DEFINE Stays(r) == Changed(r) /\ req'[r] = req[r]
             Wins(r) == Apply(r) /\ req'[r] = req[r]
  <1>1. ASSUME NEW r \in Requests, Changed(r)' PROVE Stays(r) \/ Wins(r)
    <2>1. CASE pc[r] = "idle" /\ answer'[r] = answer[r] /\ req'[r] = req[r]
      BY <1>1, <2>1 DEF Changed
    <2>2. CASE Apply(r)
      BY <2>2 DEF Apply
    <2>3. CASE NoChange(r)
      <3>1. answer'[r].version = version[req[r].dev] /\ req'[r].expect = version[req[r].dev]
            /\ version[req[r].dev] \in Nat
        BY <2>3 DEF IInv, TypeOK, ReqType, Locking, Controlling, NoChange, Answer, Said
      <3> QED
        BY <1>1, <3>1 DEF Changed
    <2> QED
      BY <1>1, <2>1, <2>2, <2>3, OkSteps DEF Changed
  <1>2. ASSUME NEW r \in Requests, NEW t \in Requests, r # t, Stays(r), Wins(t), req[r].dev = req[t].dev
        PROVE  req[r].expect # req[t].expect
    <2>1. req[t].expect = version[req[t].dev] /\ req[r].expect < version[req[r].dev]
      BY <1>2 DEF IInv, Answers, Apply, Matches
    <2>2. req[r].expect \in Nat
      BY DEF IInv, TypeOK, ReqType
    <2> QED
      BY <1>2, <2>1, <2>2
  <1>3. ~(Apply(p) /\ Apply(q))
    BY DEF IInv, TypeOK, Apply, Answer, Goto
  <1>4. CASE Stays(p) /\ Stays(q)
    BY <1>4 DEF IInv, OneChangePerVersion
  <1> QED
    BY <1>1, <1>2, <1>3, <1>4

\* Repeats agree since a name is one device's in its account.
LEMMA RepeatsInv == ASSUME TypeOK', Rows', Answers' PROVE RepeatsAgree'
  BY NoneIsNothing DEF TypeOK, AnswerType, Rows, Answers, RepeatsAgree

\* Who changed the device, or had read the version it sends, is told the state it
\* asked for.
LEMMA AcceptedInv == ASSUME IInv, [Next]_vars PROVE AcceptedIsInState'
  <1> SUFFICES ASSUME NEW p \in Requests, pc'[p] = "idle", answer'[p].kind = "ok", req'[p].dev # None,
                      Changed(p)' \/ req'[p].known
               PROVE  answer'[p].state = req'[p].want
    BY DEF AcceptedIsInState
  <1>1. CASE pc[p] = "idle" /\ answer'[p] = answer[p] /\ req'[p] = req[p]
    BY <1>1 DEF IInv, AcceptedIsInState, Changed
  <1>2. CASE Apply(p)
    BY <1>2 DEF IInv, TypeOK, Apply, Answer, Said
  <1>3. CASE NoChange(p)
    <2>1. /\ answer'[p].state = state[req[p].dev] /\ answer'[p].version = version[req[p].dev]
          /\ req'[p] = req[p]
      BY <1>3 DEF IInv, TypeOK, NoChange, Answer, Said
    <2>2. version[req[p].dev] = req[p].expect /\ req[p].expect \in Nat
      BY <1>3 DEF IInv, TypeOK, ReqType, NoChange
    <2>3. ~Changed(p)'
      BY <2>1, <2>2 DEF Changed
    <2>4. \/ version[req[p].dev] > req[p].expect
          \/ state[req[p].dev] = req[p].want
      BY <1>3, <2>1, <2>3 DEF IInv, Answers, NoChange
    <2> QED
      BY <2>1, <2>2, <2>4
  <1> QED
    BY <1>1, <1>2, <1>3, OkSteps

\* The inductive invariant: every statement of every request keeps it.
THEOREM Invariance == Spec => []IInv
  <1>1. IInv /\ [Next]_vars => IInv'
    <2> SUFFICES ASSUME IInv, [Next]_vars PROVE IInv'
      OBVIOUS
    <2>1. TypeOK' /\ Locking' /\ Counting' /\ Rows' /\ Answers' /\ TrailIsHistory' /\ OneChangePerVersion'
      BY TypeInv, LockingInv, CountingInv, RowsInv, AnswersInv, TrailInv, OneChangeInv
    <2>2. RepeatsAgree'
      BY <2>1, RepeatsInv
    <2>3. AcceptedIsInState'
      BY AcceptedInv
    <2> QED
      BY <2>1, <2>2, <2>3 DEF IInv
  <1> QED
    BY <1>1, InitInv, PTL DEF Spec

\* Type correctness of every reachable state.
THEOREM TypeCorrect == Spec => []TypeOK
  BY Invariance, PTL DEF IInv

\* The audit events of a device are its history, whichever requests race
\* (controlDevice's one UPDATE decides on the version and the state at once).
THEOREM TrailCorrect == Spec => []TrailIsHistory
  BY Invariance, PTL DEF IInv

\* Of the callers holding one version, at most one changes the device
\* (controlDevice).
THEOREM OneChangeCorrect == Spec => []OneChangePerVersion
  BY Invariance, PTL DEF IInv

\* Repeats of a keyed create are answered with one device (addDevice).
THEOREM RepeatsCorrect == Spec => []RepeatsAgree
  BY Invariance, PTL DEF IInv

\* A control that changed the device, or whose caller had read the version it sends,
\* is answered with the state asked for, whatever others do between its UPDATE and
\* its SELECT (controlDevice).
THEOREM AcceptedCorrect == Spec => []AcceptedIsInState
  BY Invariance, PTL DEF IInv

\* The statements of addDevice and controlDevice implement the atomic register:
\* an insert is its Create, since what it counted still holds, and a change is
\* its Switch.
THEOREM Refinement == Spec => ImplementsRegister
  <1> USE DEF Register!vars
  <1>1. Init => Register!Init
    BY DEF Init, Register!Init
  <1>2. IInv /\ [Next]_vars => [Register!Next]_(Register!vars)
    <2> SUFFICES ASSUME IInv, [Next]_vars PROVE [Register!Next]_(Register!vars)
      OBVIOUS
    <2>1. ASSUME NEW p \in Requests, NEW d \in Ids, Insert(p, d)
          PROVE  Register!Create(req[p].acct, req[p].name, d)
      <3>1. Cardinality(Devices(req[p].acct)) < Cap /\ NameFree(p)
        BY <2>1 DEF IInv, Counting, Insert
      <3>2. Devices(req[p].acct) = Register!Devices(req[p].acct)
        BY DEF Devices, Register!Devices
      <3>3. Register!Cardinality(Register!Devices(req[p].acct)) < Cap
        <4>1. Register!Cardinality(Devices(req[p].acct)) = Cardinality(Devices(req[p].acct))
          BY DEF Cardinality, Register!Cardinality
        <4> QED
          BY <3>1, <3>2, <4>1
      <3>4. \A e \in Register!Devices(req[p].acct) : name[e] # req[p].name
        BY <3>1, <3>2 DEF NameFree
      <3> QED
        BY <2>1, <3>3, <3>4 DEF Insert, Register!Create
    <2>2. ASSUME NEW p \in Requests, Apply(p) PROVE Register!Switch(req[p].dev)
      <3>1. req[p].dev \in Ids /\ owner[req[p].dev] # None
        BY <2>2 DEF IInv, TypeOK, ReqType, Locking, Controlling, Apply, Matches
      <3>2. req[p].want = IF state[req[p].dev] = "on" THEN "off" ELSE "on"
        BY <2>2, <3>1 DEF IInv, TypeOK, ReqType, States, Apply, Matches
      <3> QED
        BY <2>2, <3>1, <3>2 DEF Apply, Register!Switch
    <2>3. \A p \in Requests : pc[p] = "insert" => req[p].acct \in Accounts /\ req[p].name \in Names
      BY DEF IInv, TypeOK, ReqType, Locking, Adding
    <2>4. \A p \in Requests : pc[p] = "update" => req[p].dev \in Ids
      BY DEF IInv, TypeOK, ReqType, Locking, Controlling
    <2>5. CASE \E p \in Requests, d \in Ids : Insert(p, d)
      BY <2>1, <2>3, <2>5 DEF Register!Next, Insert
    <2>6. CASE \E p \in Requests : Apply(p)
      BY <2>2, <2>4, <2>6 DEF Register!Next, Apply
    <2>7. CASE ~\E p \in Requests : Apply(p) \/ \E d \in Ids : Insert(p, d)
      BY <2>7, OthersFrame DEF devVars
    <2> QED
      BY <2>5, <2>6, <2>7
  <1> QED
    BY <1>1, <1>2, Invariance, PTL DEF Spec, ImplementsRegister, Register!Spec
=============================================================================
