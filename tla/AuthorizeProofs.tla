-------------------------- MODULE AuthorizeProofs ---------------------------
(***************************************************************************)
(* Proofs about Authorize, for any clients, accounts, browsers, requests   *)
(* and scopes.                                                             *)
(*                                                                         *)
(* The argument: what a request has read of its pending authorization stays*)
(* true of the row until the row is gone, and a row that is gone stays so  *)
(* (Once); a pushed request is held by one thing at a time, the table, a   *)
(* request that took it, a pending row or a code (PushedOnce); and what a  *)
(* request or an approval on record holds was approved (Approved).  Of the *)
(* registry: its rows, and the requests that will insert one, stay below  *)
(* the cap and one for each request (Counted); what is kept of a document  *)
(* is from a time when it was served (Recent).                             *)
(***************************************************************************)
EXTENDS MCAuthorize, FiniteSetTheorems, TLAPS

USE NoneIsNoId, ReadingIsScope, KindsAreDisjoint, MaxVersionIsNat

Decided == {"find", "record", "upsert", "claim"}

Entries(a, c, d, S) == {a} \X {c} \X {d} \X S

\* Who and what a row, a pushed request and a request under way name.
Named ==
  /\ \A q \in Pushes : pushed[q].life = "live" => pushed[q].client \in Clients
  /\ \A p \in Pendings : StillThere(p) => pending[p].client \in Clients /\ pending[p].browser \in Browsers
  /\ \A r \in Requests :
       /\ pc[r] = "create" => Row(r).client \in Clients /\ Row(r).push \in Pushes
       /\ pc[r] \in Decided => Row(r).client \in Clients /\ req[r].acct \in Accounts /\ req[r].pending \in Pendings
       /\ pc[r] \in {"record", "upsert"} => Row(r).client \notin Dcr
       /\ pc[r] = "deny" => req[r].pending \in Pendings

\* A row that is gone stays gone, and with it what ended it.
Once ==
  /\ \A r \in Requests : pc[r] \in Decided /\ StillThere(req[r].pending) =>
       pending[req[r].pending].push = Row(r).push
  /\ \A r \in Requests : pc[r] \in Decided \cup {"deny"} => pending[req[r].pending].life # "free"
  /\ \A p \in denied : pending[p].life = "gone"
  /\ \A i \in 1..Len(codes) : pending[codes[i].pending].life = "gone" /\ codes[i].pending \notin denied
  /\ \A i, j \in 1..Len(codes) : i # j => codes[i].pending # codes[j].pending

\* A pushed request is in one place.
PushedOnce ==
  /\ \A q \in Pushes : pushed[q].life # "gone" =>
       /\ \A r \in Requests : pc[r] = "create" => Row(r).push # q
       /\ \A p \in Pendings : StillThere(p) => pending[p].push # q
       /\ \A i \in 1..Len(codes) : codes[i].push # q
  /\ \A r, t \in Requests : r # t /\ pc[r] = "create" /\ pc[t] = "create" => Row(r).push # Row(t).push
  /\ \A r \in Requests : pc[r] = "create" =>
       /\ \A p \in Pendings : StillThere(p) => pending[p].push # Row(r).push
       /\ \A i \in 1..Len(codes) : codes[i].push # Row(r).push
  /\ \A p \in Pendings : StillThere(p) /\ pending[p].push # None =>
       /\ \A o \in Pendings : o # p /\ StillThere(o) => pending[o].push # pending[p].push
       /\ \A i \in 1..Len(codes) : codes[i].push # pending[p].push
  /\ \A i, j \in 1..Len(codes) : i # j => codes[i].push = None \/ codes[i].push # codes[j].push

\* What was approved.
Approved ==
  /\ \A a \in Accounts, c \in Clients : Entries(a, c, consent[a][c].digest, consent[a][c].scopes) \subseteq approved
  /\ \A r \in Requests :
       /\ pc[r] \in {"record", "upsert"} =>
            Entries(req[r].acct, Row(r).client, Row(r).digest, Row(r).scopes) \subseteq approved
       /\ pc[r] = "upsert" =>
            Entries(req[r].acct, Row(r).client, req[r].before.digest, req[r].before.scopes) \subseteq approved
       /\ pc[r] = "claim" /\ Row(r).client # App =>
            Entries(req[r].acct, Row(r).client, Row(r).digest, Row(r).scopes) \subseteq approved
  /\ CodeWasApproved

IInv == TypeOK /\ Named /\ Once /\ PushedOnce /\ Approved

-----------------------------------------------------------------------------
(* Entries.                                                                *)

\* What codes carry, by way of Entries.
LEMMA CodesApproved ==
  CodeWasApproved <=>
    \A i \in 1..Len(codes) : codes[i].client # App =>
      Entries(codes[i].acct, codes[i].client, codes[i].digest, codes[i].scopes) \subseteq approved
  BY DEF CodeWasApproved, Entries

\* Two approvals of one document make one of both (recordConsent).
LEMMA EntriesOfUnion ==
  ASSUME NEW a, NEW c, NEW d, NEW S, NEW T, NEW X,
         Entries(a, c, d, S) \subseteq X, Entries(a, c, d, T) \subseteq X
  PROVE  Entries(a, c, d, S \cup T) \subseteq X
  BY DEF Entries

\* Where there is nothing, nothing need be approved.
LEMMA EntriesOfNothing == ASSUME NEW a, NEW c, NEW d PROVE Entries(a, c, d, {}) = {}
  BY DEF Entries

\* An approval is of an account, a client, a document and its scopes.
LEMMA EntriesType ==
  ASSUME NEW a \in Accounts, NEW c \in Clients, NEW d \in 0..MaxVersion, NEW S \in SUBSET Scopes
  PROVE  Entries(a, c, d, S) \subseteq Approvals
  BY DEF Entries, Approvals

\* What a code names.
LEMMA CodesNamed ==
  ASSUME TypeOK, NEW i \in 1..Len(codes)
  PROVE  codes[i] \in CodeType /\ codes[i].pending \in Pendings /\ codes[i].push \in Pushes \cup {None}
  <1>1. codes \in Seq(CodeType)
    BY DEF TypeOK
  <1>2. codes[i] \in CodeType
    BY <1>1
  <1> QED
    BY <1>2 DEF CodeType

-----------------------------------------------------------------------------
(* The initial states.                                                     *)

\* Nothing is pushed, pending, approved or issued.
LEMMA InitInv == ASSUME Init PROVE IInv
  <1>1. /\ NoPush \in PushType /\ NoPending \in RowType /\ NoConsent \in ConsentType /\ NoReq \in ReqType
    BY DEF NoPush, NoPending, NoConsent, NoReq, PushType, RowType, ConsentType, ReqType, Lives
  <1>2. TypeOK
    <2>1. version \in [Cimd -> 1..MaxVersion] /\ pushed \in [Pushes -> PushType] /\ pending \in [Pendings -> RowType]
      BY <1>1 DEF Init
    <2>2. session \in [Browsers -> [acct : Accounts \cup {None}, recently : BOOLEAN]]
      BY DEF Init, NoSession
    <2>3. /\ consent \in [Accounts -> [Clients -> ConsentType]]
          /\ \A a \in Accounts, c \in Dcr : consent[a][c] = NoConsent
      BY <1>1 DEF Init, Clients
    <2>4. pc \in [Requests -> {"idle", "create", "find", "record", "upsert", "claim", "deny"}] /\ req \in [Requests -> ReqType]
      BY <1>1 DEF Init
    <2>5. codes \in Seq(CodeType) /\ denied \subseteq Pendings /\ approved \subseteq Approvals /\ recent \subseteq approved
      BY DEF Init
    <2> QED
      BY <2>1, <2>2, <2>3, <2>4, <2>5 DEF TypeOK
  <1>3. Named
    BY DEF Init, Named, NoPush, NoPending, StillThere, Decided
  <1>4. Once /\ PushedOnce
    BY DEF Init, Once, PushedOnce, Decided, NoPending, StillThere
  <1>5. Approved
    <2>1. \A a \in Accounts, c \in Clients : Entries(a, c, consent[a][c].digest, consent[a][c].scopes) = {}
      BY EntriesOfNothing DEF Init, NoConsent
    <2>2. CodeWasApproved
      BY CodesApproved DEF Init
    <2> QED
      BY <2>1, <2>2 DEF Approved, Init
  <1> QED
    BY <1>2, <1>3, <1>4, <1>5 DEF IInv

-----------------------------------------------------------------------------
(* GET /authorize and POST /par.                                           *)

\* The row an authorization opens (createPendingAuthorization).
LEMMA OpenedType ==
  ASSUME NEW c \in Clients \cup {None}, NEW d \in 0..MaxVersion, NEW S \in SUBSET Scopes,
         NEW b \in Browsers \cup {None}, NEW q \in Pushes \cup {None}
  PROVE  Opened(c, d, S, b, q) \in RowType
  BY DEF Opened, RowType, Lives

\* A client is resolved with a document it has.
LEMMA ResolvedType == ASSUME TypeOK, NEW c \in Clients, NEW d \in Resolved(c) PROVE d \in 0..MaxVersion
  BY DEF Resolved, TypeOK

\* POST /par.
LEMMA PushInv ==
  ASSUME IInv, NEW q \in Pushes, NEW c \in Clients, NEW S \in SUBSET Scopes, Push(q, c, S)
  PROVE  IInv'
  <1>1. [life |-> "live", client |-> c, scopes |-> S] \in PushType
    BY DEF PushType, Lives
  <1>2. TypeOK'
    BY <1>1 DEF IInv, TypeOK, Push
  <1>3. Named'
    BY DEF IInv, TypeOK, Named, Push, StillThere, Row
  <1>4. Once'
    BY DEF IInv, Once, Push, StillThere, Row
  <1>5. PushedOnce'
    BY DEF IInv, TypeOK, PushedOnce, Push, StillThere, Row
  <1>6. Approved'
    BY DEF IInv, Approved, Push, CodeWasApproved, Row
  <1> QED
    BY <1>2, <1>3, <1>4, <1>5, <1>6 DEF IInv

\* A pushed request expires.
LEMMA ExpirePushedInv == ASSUME IInv, NEW q \in Pushes, ExpirePushed(q) PROVE IInv'
  <1>1. DeletedPush \in PushType /\ DeletedPush.life = "gone"
    BY DEF DeletedPush, NoPush, PushType, Lives
  <1>2. TypeOK'
    BY <1>1 DEF IInv, TypeOK, ExpirePushed
  <1>3. Named'
    BY <1>1 DEF IInv, TypeOK, Named, ExpirePushed, StillThere, Row
  <1>4. Once'
    BY DEF IInv, Once, ExpirePushed, StillThere, Row
  <1>5. PushedOnce'
    BY <1>1 DEF IInv, TypeOK, PushedOnce, ExpirePushed, StillThere, Row
  <1>6. Approved'
    BY DEF IInv, Approved, ExpirePushed, CodeWasApproved, Row
  <1> QED
    BY <1>2, <1>3, <1>4, <1>5, <1>6 DEF IInv

\* takePushedRequest deletes what it returns.
LEMMA TakeInv == ASSUME IInv, NEW r \in Requests, NEW q \in Pushes, Take(r, q) PROVE IInv'
  <1> DEFINE row == Opened(pushed[q].client, 0, pushed[q].scopes, None, q)
  <1>1. DeletedPush \in PushType /\ DeletedPush.life = "gone"
    BY DEF DeletedPush, NoPush, PushType, Lives
  <1>2. row \in RowType /\ row.push = q /\ row.client \in Clients /\ pushed[q].life = "live"
    <2>1. pushed[q] \in PushType /\ pushed[q].life = "live" /\ pushed[q].client \in Clients
      BY DEF IInv, TypeOK, Named, Take
    <2>2. pushed[q].scopes \in SUBSET Scopes /\ 0 \in 0..MaxVersion
      BY <2>1 DEF PushType
    <2>3. row \in RowType
      BY <2>1, <2>2, OpenedType
    <2> QED
      BY <2>1, <2>3 DEF Opened
  <1>3. req' = [req EXCEPT ![r].row = row] /\ pc' = [pc EXCEPT ![r] = "create"] /\ pc[r] = "idle"
    BY DEF Take, Goto
  <1> HIDE DEF row
  <1>4. req' \in [Requests -> ReqType] /\ req'[r].row = row /\ pc'[r] = "create"
    <2>1. req[r] \in ReqType /\ req \in [Requests -> ReqType]
      BY DEF IInv, TypeOK
    <2>2. [req[r] EXCEPT !.row = row] \in ReqType /\ [req[r] EXCEPT !.row = row].row = row
      BY <1>2, <2>1 DEF ReqType
    <2>3. req' = [req EXCEPT ![r] = [req[r] EXCEPT !.row = row]]
      BY <1>3
    <2>4. pc'[r] = "create"
      BY <1>3 DEF IInv, TypeOK
    <2> QED
      BY <2>1, <2>2, <2>3, <2>4
  <1>5. \A t \in Requests : t # r => req'[t] = req[t] /\ pc'[t] = pc[t]
    BY <1>3 DEF IInv, TypeOK
  <1>6. TypeOK'
    BY <1>1, <1>3, <1>4 DEF IInv, TypeOK, Take
  <1>7. Named'
    BY <1>1, <1>2, <1>4, <1>5 DEF IInv, TypeOK, Named, Take, StillThere, Row, Decided
  <1>8. Once'
    BY <1>4, <1>5 DEF IInv, Once, Take, StillThere, Row, Decided
  <1>9. PushedOnce'
    <2>1. \A o \in Pushes : pushed'[o].life # "gone" => o # q /\ pushed[o].life # "gone"
      BY <1>1 DEF IInv, TypeOK, Take
    <2> QED
      BY <1>2, <1>4, <1>5, <2>1 DEF IInv, PushedOnce, Take, StillThere, Row
  <1>10. Approved'
    BY <1>4, <1>5 DEF IInv, Approved, Take, CodeWasApproved, Row
  <1> QED
    BY <1>6, <1>7, <1>8, <1>9, <1>10 DEF IInv
\* A request at its end asks for nothing.
LEMMA FinishType ==
  ASSUME TypeOK, NEW r \in Requests, Finish(r)
  PROVE  /\ req' \in [Requests -> ReqType] /\ pc' \in [Requests -> {"idle", "create", "find", "record", "upsert", "claim", "deny"}]
         /\ pc'[r] = "idle"
         /\ \A t \in Requests : t # r => req'[t] = req[t] /\ pc'[t] = pc[t]
  <1>1. NoReq \in ReqType
    BY DEF NoReq, NoPending, NoConsent, ReqType, RowType, ConsentType, Lives
  <1> QED
    BY <1>1 DEF TypeOK, Finish, Goto

\* A request that is over changes nothing else (RefusePushed, AskPerson,
\* AlreadyUsed).
LEMMA FinishInv ==
  ASSUME IInv, NEW r \in Requests, Finish(r),
         UNCHANGED <<version, pushed, pending, session, consent, codes, denied, approved, recent>>
  PROVE  IInv'
  <1>1. TypeOK'
    BY FinishType DEF IInv, TypeOK
  <1>2. pc'[r] = "idle" /\ \A t \in Requests : t # r => req'[t] = req[t] /\ pc'[t] = pc[t]
    BY FinishType DEF IInv
  <1>3. Named'
    BY <1>2 DEF IInv, Named, StillThere, Row, Decided
  <1>4. Once'
    BY <1>2 DEF IInv, Once, StillThere, Row, Decided
  <1>5. PushedOnce'
    BY <1>2 DEF IInv, PushedOnce, StillThere, Row
  <1>6. Approved'
    BY <1>2 DEF IInv, Approved, CodeWasApproved, Row
  <1> QED
    BY <1>1, <1>3, <1>4, <1>5, <1>6 DEF IInv

\* GET /authorize without a pushed request.
LEMMA AuthorizeInv ==
  ASSUME IInv, NEW p \in Pendings, NEW c \in Clients, NEW S \in SUBSET Scopes, NEW b \in Browsers, Authorize(p, c, S, b)
  PROVE  IInv'
  <1>1. PICK d \in Resolved(c) : pending' = [pending EXCEPT ![p] = Opened(c, d, S, b, None)]
    BY DEF Authorize
  <1> DEFINE row == Opened(c, d, S, b, None)
  <1>2. row \in RowType
    BY <1>1, ResolvedType, OpenedType DEF IInv
  <1>3. row.client \in Clients /\ row.browser \in Browsers /\ row.push = None /\ row.life = "live"
    BY DEF Opened
  <1>4. pending' = [pending EXCEPT ![p] = row] /\ pending[p].life = "free"
    BY <1>1 DEF Authorize
  <1> HIDE DEF row
  <1>5. pending'[p] = row /\ \A o \in Pendings : o # p => pending'[o] = pending[o]
    BY <1>4 DEF IInv, TypeOK
  <1>6. TypeOK'
    BY <1>2, <1>4 DEF IInv, TypeOK, Authorize
  <1>7. Named'
    BY <1>3, <1>5 DEF IInv, Named, Authorize, StillThere, Row
  <1>8. Once'
    <2>1. \A i \in 1..Len(codes) : codes[i].pending \in Pendings
      BY CodesNamed DEF IInv
    <2> QED
      BY <1>4, <1>5, <2>1 DEF IInv, TypeOK, Named, Once, Authorize, StillThere, Row, Decided
  <1>9. PushedOnce'
    <2>1. \A q \in Pushes : q # None
      OBVIOUS
    <2>2. \A r \in Requests : pc[r] = "create" => Row(r).push # None
      BY <2>1 DEF IInv, Named
    <2>3. \A o \in Pendings : StillThere(o)' /\ pending'[o].push # None => o # p /\ StillThere(o) /\ pending'[o] = pending[o]
      BY <1>3, <1>5 DEF StillThere
    <2> QED
      BY <1>3, <1>5, <2>1, <2>2, <2>3 DEF IInv, PushedOnce, Authorize, Row, StillThere
  <1>10. Approved'
    BY DEF IInv, Approved, Authorize, CodeWasApproved, Row
  <1> QED
    BY <1>6, <1>7, <1>8, <1>9, <1>10 DEF IInv

\* GET /authorize with one: the row is created after the request was taken.
LEMMA CreatePendingInv ==
  ASSUME IInv, NEW r \in Requests, NEW p \in Pendings, NEW b \in Browsers, CreatePending(r, p, b)
  PROVE  IInv'
  <1>1. /\ pc[r] = "create" /\ pending[p].life = "free" /\ Finish(r)
        /\ Row(r).client \in Clients /\ Row(r).push \in Pushes /\ Row(r) \in RowType
    BY DEF IInv, TypeOK, Named, CreatePending, Row, ReqType
  <1>2. PICK d \in Resolved(Row(r).client) :
          pending' = [pending EXCEPT ![p] = Opened(Row(r).client, d, Row(r).scopes, b, Row(r).push)]
    BY DEF CreatePending
  <1> DEFINE row == Opened(Row(r).client, d, Row(r).scopes, b, Row(r).push)
  <1>3. row \in RowType
    <2>1. d \in 0..MaxVersion /\ Row(r).scopes \in SUBSET Scopes
      BY <1>1, <1>2, ResolvedType DEF IInv, RowType
    <2> QED
      BY <1>1, <2>1, OpenedType
  <1>4. row.client \in Clients /\ row.browser \in Browsers /\ row.push = Row(r).push /\ row.life = "live"
    BY <1>1 DEF Opened
  <1>5. pending' = [pending EXCEPT ![p] = row]
    BY <1>2
  <1> HIDE DEF row
  <1>6. pending'[p] = row /\ \A o \in Pendings : o # p => pending'[o] = pending[o]
    BY <1>5 DEF IInv, TypeOK
  <1>7. pc'[r] = "idle" /\ \A t \in Requests : t # r => req'[t] = req[t] /\ pc'[t] = pc[t]
    BY <1>1, FinishType DEF IInv
  <1>8. TypeOK'
    BY <1>1, <1>3, <1>5, FinishType DEF IInv, TypeOK, CreatePending
  <1>9. Named'
    BY <1>4, <1>6, <1>7 DEF IInv, Named, CreatePending, StillThere, Row, Decided
  <1>10. Once'
    <2>1. \A i \in 1..Len(codes) : codes[i].pending \in Pendings
      BY CodesNamed DEF IInv
    <2>2. \A t \in Requests : pc'[t] \in Decided \cup {"deny"} =>
            /\ pc'[t] = pc[t] /\ req'[t] = req[t] /\ req[t].pending \in Pendings \ {p}
      BY <1>1, <1>7 DEF IInv, Named, Once, Decided
    <2>3. denied' = denied /\ codes' = codes /\ denied \subseteq Pendings \ {p}
      BY <1>1 DEF IInv, TypeOK, Once, CreatePending
    <2>4. \A i \in 1..Len(codes) : codes[i].pending # p
      BY <1>1 DEF IInv, Once
    <2> QED
      BY <1>6, <2>1, <2>2, <2>3, <2>4 DEF IInv, Once, StillThere, Row
  <1>11. PushedOnce'
    <2>1. \A o \in Pendings : o # p /\ StillThere(o)' => StillThere(o) /\ pending'[o] = pending[o]
      BY <1>6 DEF StillThere
    <2>2. pushed' = pushed /\ codes' = codes
      BY DEF CreatePending
    <2>3. \A o \in Pendings : StillThere(o) => pending[o].push # Row(r).push
      BY <1>1 DEF IInv, PushedOnce
    <2>4. \A i \in 1..Len(codes) : codes[i].push # Row(r).push
      BY <1>1 DEF IInv, PushedOnce
    <2>5. \A t \in Requests : pc'[t] = "create" => t # r /\ pc[t] = "create" /\ Row(t)' = Row(t) /\ Row(t).push # Row(r).push
      BY <1>1, <1>7 DEF IInv, PushedOnce, Row
    <2>6. pushed[Row(r).push].life = "gone"
      BY <1>1 DEF IInv, PushedOnce
    <2>7. pending'[p].push = Row(r).push
      BY <1>4, <1>6
    <2> QED
      BY <2>1, <2>2, <2>3, <2>4, <2>5, <2>6, <2>7 DEF IInv, PushedOnce
  <1>12. Approved'
    BY <1>7 DEF IInv, Approved, CreatePending, CodeWasApproved, Row
  <1> QED
    BY <1>8, <1>9, <1>10, <1>11, <1>12 DEF IInv
-----------------------------------------------------------------------------
(* Sessions, documents and expiry.                                         *)

\* Nothing but who is signed in, or what a client serves, has changed.
LEMMA ElsewhereInv ==
  ASSUME IInv, TypeOK', UNCHANGED <<pushed, pending, consent, pc, req, codes, denied, approved, recent>>
  PROVE  IInv'
  <1>1. Named' /\ Once' /\ PushedOnce'
    BY DEF IInv, Named, Once, PushedOnce, StillThere, Row
  <1>2. Approved'
    BY DEF IInv, Approved, CodeWasApproved, Row
  <1> QED
    BY <1>1, <1>2 DEF IInv

\* Sign-ins, and what ends them.
LEMMA SessionInv ==
  ASSUME IInv, NEW b \in Browsers, Signing(b)
  PROVE  IInv'
  <1>1. Besides
    BY DEF Signing, SignIn, SignInByPasskey, AccountLogin, LogOut, AccountLogout, EndSession, AgeSession
  <1>2. session' \in [Browsers -> [acct : Accounts \cup {None}, recently : BOOLEAN]]
    <2>0. session \in [Browsers -> [acct : Accounts \cup {None}, recently : BOOLEAN]]
      BY DEF IInv, TypeOK
    <2>1. CASE \E a \in Accounts : SignedIn(b, a)
      BY <2>0, <2>1 DEF SignedIn
    <2>2. CASE SignedOut(b)
      BY <2>0, <2>2 DEF SignedOut, NoSession
    <2>3. CASE AgeSession(b)
      BY <2>0, <2>3 DEF AgeSession
    <2> QED
      BY <2>1, <2>2, <2>3 DEF Signing, SignIn, SignInByPasskey, AccountLogin, LogOut, AccountLogout, EndSession
  <1>3. TypeOK'
    BY <1>1, <1>2 DEF IInv, TypeOK, Besides
  <1> QED
    BY <1>1, <1>3, ElsewhereInv DEF Besides

\* A client replaces its document.
LEMMA NewDocumentInv == ASSUME IInv, NEW c \in Cimd, NewDocument(c) PROVE IInv'
  <1>1. TypeOK'
    BY DEF IInv, TypeOK, NewDocument
  <1> QED
    BY <1>1, ElsewhereInv DEF NewDocument

\* A pending authorization that expires is still there.
LEMMA ExpirePendingInv == ASSUME IInv, NEW p \in Pendings, ExpirePending(p) PROVE IInv'
  <1> DEFINE row == [pending[p] EXCEPT !.life = "expired"]
  <1>1. pending[p] \in RowType /\ pending[p].life = "live"
    BY DEF IInv, TypeOK, ExpirePending
  <1>2. /\ row \in RowType /\ row.life = "expired" /\ row.client = pending[p].client
        /\ row.browser = pending[p].browser /\ row.push = pending[p].push
    BY <1>1 DEF RowType, Lives
  <1>3. pending' = [pending EXCEPT ![p] = row]
    BY DEF ExpirePending
  <1> HIDE DEF row
  <1>4. pending'[p] = row /\ \A o \in Pendings : o # p => pending'[o] = pending[o]
    BY <1>3 DEF IInv, TypeOK
  <1>5. TypeOK'
    BY <1>2, <1>3 DEF IInv, TypeOK, ExpirePending
  <1>6. \A o \in Pendings :
          /\ StillThere(o)' <=> StillThere(o)
          /\ pending'[o].life = "gone" <=> pending[o].life = "gone"
          /\ pending'[o].life = "free" <=> pending[o].life = "free"
          /\ pending'[o].push = pending[o].push /\ pending'[o].client = pending[o].client
          /\ pending'[o].browser = pending[o].browser
    BY <1>1, <1>2, <1>4 DEF StillThere
  <1>7. Named'
    BY <1>6 DEF IInv, Named, ExpirePending, Row
  <1>8. Once'
    <2>1. \A i \in 1..Len(codes) : codes[i].pending \in Pendings
      BY CodesNamed DEF IInv
    <2>2. \A r \in Requests : pc[r] \in Decided \cup {"deny"} => req[r].pending \in Pendings
      BY DEF IInv, Named, Decided
    <2>3. denied \subseteq Pendings
      BY DEF IInv, TypeOK
    <2> QED
      BY <1>6, <2>1, <2>2, <2>3 DEF IInv, Once, ExpirePending, Row
  <1>9. PushedOnce'
    BY <1>6 DEF IInv, PushedOnce, ExpirePending, Row
  <1>10. Approved'
    BY DEF IInv, Approved, ExpirePending, CodeWasApproved, Row
  <1> QED
    BY <1>5, <1>7, <1>8, <1>9, <1>10 DEF IInv

\* What deletes a row leaves it gone.
LEMMA DeletedRowType == DeletedRow \in RowType /\ DeletedRow.life = "gone"
  BY DEF DeletedRow, NoPending, RowType, Lives

\* A row is deleted: what was true of it until then need not be any more.
LEMMA RowDeleted ==
  ASSUME IInv, NEW p \in Pendings, pending' = [pending EXCEPT ![p] = DeletedRow]
  PROVE  /\ pending' \in [Pendings -> RowType] /\ pending'[p].life = "gone"
         /\ \A o \in Pendings : o # p => pending'[o] = pending[o]
         /\ \A o \in Pendings : StillThere(o)' => o # p /\ StillThere(o)
  <1>1. pending' \in [Pendings -> RowType] /\ pending'[p] = DeletedRow /\ \A o \in Pendings : o # p => pending'[o] = pending[o]
    BY DeletedRowType DEF IInv, TypeOK
  <1> QED
    BY <1>1, DeletedRowType DEF StillThere

\* pruneExpiredOAuth.
LEMMA PrunePendingInv == ASSUME IInv, NEW p \in Pendings, PrunePending(p) PROVE IInv'
  <1>1. pending' = [pending EXCEPT ![p] = DeletedRow]
        /\ UNCHANGED <<version, pushed, session, consent, pc, req, codes, denied, approved, recent>>
    BY DEF PrunePending
  <1>2. /\ pending' \in [Pendings -> RowType] /\ pending'[p].life = "gone"
        /\ \A o \in Pendings : o # p => pending'[o] = pending[o]
        /\ \A o \in Pendings : StillThere(o)' => o # p /\ StillThere(o)
    BY <1>1, RowDeleted
  <1>3. TypeOK'
    BY <1>1, <1>2 DEF IInv, TypeOK
  <1>4. Named'
    BY <1>1, <1>2 DEF IInv, Named, Row
  <1>5. Once'
    <2>1. \A i \in 1..Len(codes) : codes[i].pending \in Pendings
      BY CodesNamed DEF IInv
    <2>2. \A r \in Requests : pc[r] \in Decided \cup {"deny"} => req[r].pending \in Pendings
      BY DEF IInv, Named, Decided
    <2>3. denied \subseteq Pendings
      BY DEF IInv, TypeOK
    <2> QED
      BY <1>1, <1>2, <2>1, <2>2, <2>3 DEF IInv, Once, Row
  <1>6. PushedOnce'
    BY <1>1, <1>2 DEF IInv, PushedOnce, Row
  <1>7. Approved'
    BY <1>1 DEF IInv, Approved, CodeWasApproved, Row
  <1> QED
    BY <1>3, <1>4, <1>5, <1>6, <1>7 DEF IInv

\* A remembered approval lapses; what was approved stays so.
LEMMA LapseInv == ASSUME IInv, NEW a \in Accounts, NEW c \in Clients, Lapse(a, c) PROVE IInv'
  <1> DEFINE given == [consent[a][c] EXCEPT !.lapsed = TRUE]
  <1>1. consent \in [Accounts -> [Clients -> ConsentType]] /\ consent[a][c] \in ConsentType
    BY DEF IInv, TypeOK
  <1>2. given \in ConsentType /\ given.digest = consent[a][c].digest /\ given.scopes = consent[a][c].scopes
    BY <1>1 DEF ConsentType
  <1>3. consent' = [consent EXCEPT ![a] = [consent[a] EXCEPT ![c] = given]]
    BY DEF Lapse
  <1> HIDE DEF given
  <1>4. consent' \in [Accounts -> [Clients -> ConsentType]]
    BY <1>1, <1>2, <1>3
  <1>5. \A x \in Accounts, y \in Clients : x # a \/ y # c => consent'[x][y] = consent[x][y]
    BY <1>1, <1>3
  <1>6. consent'[a][c] = given
    BY <1>1, <1>3
  <1>7. c \notin Dcr
    BY DEF IInv, TypeOK, Lapse, NoConsent
  <1>8. TypeOK'
    <2>1. \A x \in Accounts, y \in Dcr : consent'[x][y] = NoConsent
      BY <1>5, <1>7 DEF IInv, TypeOK, Clients
    <2>2. recent' \subseteq recent
      BY DEF Lapse
    <2> QED
      BY <1>4, <2>1, <2>2 DEF IInv, TypeOK, Lapse
  <1>9. Named' /\ Once' /\ PushedOnce'
    BY DEF IInv, Named, Once, PushedOnce, Lapse, StillThere, Row
  <1>10. Approved'
    <2>1. \A x \in Accounts, y \in Clients :
            consent'[x][y].digest = consent[x][y].digest /\ consent'[x][y].scopes = consent[x][y].scopes
      BY <1>2, <1>5, <1>6
    <2> QED
      BY <2>1 DEF IInv, Approved, Lapse, CodeWasApproved, Row
  <1> QED
    BY <1>8, <1>9, <1>10 DEF IInv

-----------------------------------------------------------------------------
(* GET and POST /consent.                                                  *)

\* What IInv says of one request under way, of its row, and of its approval.
Standing(r) ==
  /\ pc[r] \in Decided => Row(r).client \in Clients /\ req[r].acct \in Accounts
  /\ req[r].pending \in Pendings /\ pending[req[r].pending].life # "free"
  /\ pc[r] \in {"record", "upsert"} => Row(r).client \notin Dcr
  /\ pc[r] \in Decided /\ StillThere(req[r].pending) => pending[req[r].pending].push = Row(r).push

Backed(r) ==
  /\ pc[r] \in {"record", "upsert"} =>
       Entries(req[r].acct, Row(r).client, Row(r).digest, Row(r).scopes) \subseteq approved
  /\ pc[r] = "upsert" =>
       Entries(req[r].acct, Row(r).client, req[r].before.digest, req[r].before.scopes) \subseteq approved
  /\ pc[r] = "claim" /\ Row(r).client # App =>
       Entries(req[r].acct, Row(r).client, Row(r).digest, Row(r).scopes) \subseteq approved

\* The invariant holds of every request under way.
LEMMA StandingHolds ==
  ASSUME IInv, NEW r \in Requests, pc[r] \in Decided \cup {"deny"} PROVE Standing(r) /\ Backed(r)
  <1>1. Standing(r)
    BY DEF IInv, Named, Once, Standing, Decided
  <1>2. Backed(r)
    BY DEF IInv, Approved, Backed
  <1> QED
    BY <1>1, <1>2

\* A step of one request that changes no row, code or approval on record keeps
\* the invariant where it leaves that request standing.
LEMMA MoveInv ==
  ASSUME IInv, TypeOK', NEW r \in Requests, pc'[r] \in Decided \cup {"deny"}, Standing(r)', Backed(r)',
         \A t \in Requests : t # r => req'[t] = req[t] /\ pc'[t] = pc[t],
         UNCHANGED <<pushed, pending, consent, codes, denied>>, approved \subseteq approved'
  PROVE  IInv'
  <1>1. Named'
    BY DEF IInv, Named, Standing, StillThere, Row, Decided
  <1>2. Once'
    BY DEF IInv, Once, Standing, StillThere, Row, Decided
  <1>3. PushedOnce'
    BY DEF IInv, PushedOnce, StillThere, Row, Decided
  <1>4. CodeWasApproved'
    BY DEF IInv, Approved, CodeWasApproved
  <1>5. \A t \in Requests : Backed(t)'
    <2>1. \A t \in Requests : t # r => Backed(t)'
      BY DEF IInv, Approved, Backed, Row
    <2> QED
      BY <2>1
  <1>6. \A a \in Accounts, c \in Clients :
          Entries(a, c, consent'[a][c].digest, consent'[a][c].scopes) \subseteq approved'
    BY DEF IInv, Approved
  <1>7. Approved'
    BY <1>4, <1>5, <1>6 DEF Approved, Backed
  <1> QED
    BY <1>1, <1>2, <1>3, <1>7 DEF IInv

\* loadStep and the session, for a request that may decide.
LEMMA Loaded ==
  ASSUME IInv, NEW r \in Requests, NEW p \in Pendings, MayDecide(p), Load(r, p)
  PROVE  /\ req' \in [Requests -> ReqType] /\ req'[r].pending = p /\ req'[r].row = pending[p]
         /\ req'[r].acct = session[pending[p].browser].acct /\ req'[r].acct \in Accounts
         /\ pending[p].life = "live" /\ pending[p] \in RowType /\ pending[p].client \in Clients
         /\ \A t \in Requests : t # r => req'[t] = req[t]
  <1>1. pending[p] \in RowType /\ pending[p].life = "live" /\ pending[p].client \in Clients /\ pending[p].browser \in Browsers
    BY DEF IInv, TypeOK, Named, MayDecide, Live, StillThere
  <1> DEFINE a == session[pending[p].browser].acct
  <1>2. a \in Accounts
    BY <1>1 DEF IInv, TypeOK, MayDecide
  <1> DEFINE held == [req[r] EXCEPT !.pending = p, !.row = pending[p], !.acct = a]
  <1>3. req \in [Requests -> ReqType] /\ req[r] \in ReqType
    BY DEF IInv, TypeOK
  <1>4. held \in ReqType /\ held.pending = p /\ held.row = pending[p] /\ held.acct = a
    BY <1>1, <1>2, <1>3 DEF ReqType
  <1>5. req' = [req EXCEPT ![r] = held]
    BY DEF Load
  <1> HIDE DEF held
  <1> QED
    BY <1>1, <1>2, <1>3, <1>4, <1>5

\* GET /consent, as far as the question whether there is an approval.
LEMMA ShowConsentInv ==
  ASSUME IInv, NEW r \in Requests, NEW p \in Pendings, ShowConsent(r, p) PROVE IInv'
  <1>1. /\ req' \in [Requests -> ReqType] /\ req'[r].pending = p /\ req'[r].row = pending[p]
        /\ req'[r].acct \in Accounts
        /\ pending[p].life = "live" /\ pending[p].client \in Clients
        /\ \A t \in Requests : t # r => req'[t] = req[t]
    BY Loaded DEF ShowConsent
  <1>2. /\ UNCHANGED <<version, pushed, pending, session, consent, codes, denied, approved, recent>>
        /\ pc' = [pc EXCEPT ![r] = IF pending[p].client = App THEN "claim" ELSE "find"]
    BY DEF ShowConsent, Goto
  <1>3. /\ pc'[r] \in {"claim", "find"} /\ (pc'[r] = "claim" => pending[p].client = App)
        /\ \A t \in Requests : t # r => pc'[t] = pc[t]
        /\ pc' \in [Requests -> {"idle", "create", "find", "record", "upsert", "claim", "deny"}]
    BY <1>2 DEF IInv, TypeOK
  <1>4. TypeOK'
    BY <1>1, <1>2, <1>3 DEF IInv, TypeOK
  <1>5. Standing(r)'
    BY <1>1, <1>2, <1>3 DEF Standing, Row
  <1>6. Backed(r)'
    BY <1>1, <1>2, <1>3 DEF Backed, Row
  <1> QED
    BY <1>1, <1>2, <1>3, <1>4, <1>5, <1>6, MoveInv DEF Decided

\* POST /consent: what the person approves is what the row asks for.
LEMMA ApproveInv ==
  ASSUME IInv, NEW r \in Requests, NEW p \in Pendings, Approve(r, p) PROVE IInv'
  <1> DEFINE a == session[pending[p].browser].acct
             entries == Entries(a, pending[p].client, pending[p].digest, pending[p].scopes)
  <1>1. /\ req' \in [Requests -> ReqType] /\ req'[r].pending = p /\ req'[r].row = pending[p]
        /\ req'[r].acct = a /\ a \in Accounts
        /\ pending[p].life = "live" /\ pending[p] \in RowType /\ pending[p].client \in Clients
        /\ \A t \in Requests : t # r => req'[t] = req[t]
    BY Loaded DEF Approve
  <1>2. /\ UNCHANGED <<version, pushed, pending, session, consent, codes, denied>>
        /\ approved' = approved \cup entries /\ recent' = recent \cup entries
        /\ pc' = [pc EXCEPT ![r] = IF Rememberable(pending[p].client) THEN "record" ELSE "claim"]
    BY DEF Approve, Goto, Entries
  <1>3. entries \subseteq Approvals
    <2>1. pending[p].digest \in 0..MaxVersion /\ pending[p].scopes \in SUBSET Scopes
      BY <1>1 DEF RowType
    <2> QED
      BY <1>1, <2>1, EntriesType
  <1>4. Entries(req'[r].acct, req'[r].row.client, req'[r].row.digest, req'[r].row.scopes) \subseteq approved'
    BY <1>1, <1>2
  <1> HIDE DEF entries, a
  <1>5. /\ pc'[r] \in {"record", "claim"} /\ (pc'[r] = "record" => pending[p].client \notin Dcr)
        /\ \A t \in Requests : t # r => pc'[t] = pc[t]
        /\ pc' \in [Requests -> {"idle", "create", "find", "record", "upsert", "claim", "deny"}]
    BY <1>2 DEF IInv, TypeOK, Rememberable
  <1>6. TypeOK'
    BY <1>1, <1>2, <1>3, <1>5 DEF IInv, TypeOK
  <1>7. Standing(r)'
    BY <1>1, <1>2, <1>5 DEF Standing, Row
  <1>8. Backed(r)'
    BY <1>4, <1>5 DEF Backed, Row
  <1> QED
    BY <1>1, <1>2, <1>5, <1>6, <1>7, <1>8, MoveInv DEF Decided

\* findRememberedConsent: what it finds covers the request, so was approved.
LEMMA FindRememberedInv == ASSUME IInv, NEW r \in Requests, FindRemembered(r) PROVE IInv'
  <1>1. /\ UNCHANGED <<version, pushed, pending, session, consent, req, codes, denied, approved, recent>>
        /\ pc' = [pc EXCEPT ![r] = "claim"] /\ pc[r] = "find"
    BY DEF FindRemembered, Goto
  <1>2. /\ pc'[r] = "claim" /\ \A t \in Requests : t # r => pc'[t] = pc[t]
        /\ pc' \in [Requests -> {"idle", "create", "find", "record", "upsert", "claim", "deny"}]
    BY <1>1 DEF IInv, TypeOK
  <1>3. Standing(r)
    BY <1>1, StandingHolds DEF Decided
  <1>4. Entries(req[r].acct, Row(r).client, Row(r).digest, Row(r).scopes) \subseteq approved
    <2>1. req[r].acct \in Accounts /\ Row(r).client \in Clients
      BY <1>1, <1>3 DEF Standing, Decided
    <2> DEFINE given == consent[req[r].acct][Row(r).client]
    <2>2. given.digest = Row(r).digest /\ Row(r).scopes \subseteq given.scopes
      BY DEF FindRemembered, Remembered, Covers
    <2>3. Entries(req[r].acct, Row(r).client, given.digest, given.scopes) \subseteq approved
      BY <2>1 DEF IInv, Approved
    <2> QED
      BY <2>2, <2>3 DEF Entries
  <1>5. TypeOK'
    BY <1>1, <1>2 DEF IInv, TypeOK
  <1>6. Standing(r)' /\ Backed(r)'
    BY <1>1, <1>2, <1>3, <1>4 DEF Standing, Backed, Row, Decided, StillThere
  <1> QED
    BY <1>1, <1>2, <1>5, <1>6, MoveInv DEF Decided

\* recordConsent reads what was approved before.
LEMMA ReadConsentInv == ASSUME IInv, NEW r \in Requests, ReadConsent(r) PROVE IInv'
  <1> DEFINE given == consent[req[r].acct][Row(r).client]
             held == [req[r] EXCEPT !.before = given]
  <1>1. /\ UNCHANGED <<version, pushed, pending, session, consent, codes, denied, approved, recent>>
        /\ pc' = [pc EXCEPT ![r] = "upsert"] /\ pc[r] = "record" /\ req' = [req EXCEPT ![r] = held]
    BY DEF ReadConsent, Goto
  <1>2. /\ pc'[r] = "upsert" /\ \A t \in Requests : t # r => pc'[t] = pc[t]
        /\ pc' \in [Requests -> {"idle", "create", "find", "record", "upsert", "claim", "deny"}]
    BY <1>1 DEF IInv, TypeOK
  <1>3. Standing(r) /\ Backed(r)
    BY <1>1, StandingHolds DEF Decided
  <1>4. req[r].acct \in Accounts /\ Row(r).client \in Clients
    BY <1>1, <1>3 DEF Standing, Decided
  <1>5. given \in ConsentType /\ Entries(req[r].acct, Row(r).client, given.digest, given.scopes) \subseteq approved
    BY <1>4 DEF IInv, TypeOK, Approved
  <1>6. req \in [Requests -> ReqType] /\ req[r] \in ReqType
    BY DEF IInv, TypeOK
  <1>7. /\ held \in ReqType /\ held.before = given
        /\ held.acct = req[r].acct /\ held.row = req[r].row /\ held.pending = req[r].pending
    BY <1>5, <1>6 DEF ReqType
  <1> HIDE DEF held, given
  <1>8. req' \in [Requests -> ReqType] /\ req'[r] = held /\ \A t \in Requests : t # r => req'[t] = req[t]
    BY <1>1, <1>6, <1>7
  <1>9. TypeOK'
    BY <1>1, <1>2, <1>8 DEF IInv, TypeOK
  <1>10. Standing(r)'
    BY <1>1, <1>2, <1>3, <1>7, <1>8 DEF Standing, Row, Decided, StillThere
  <1>11. Backed(r)'
    BY <1>1, <1>2, <1>3, <1>5, <1>7, <1>8 DEF Backed, Row
  <1> QED
    BY <1>1, <1>2, <1>8, <1>9, <1>10, <1>11, MoveInv DEF Decided

\* recordConsent writes the union with it, where the document is the same.
LEMMA WriteConsentInv == ASSUME IInv, NEW r \in Requests, WriteConsent(r) PROVE IInv'
  <1> DEFINE a == req[r].acct
             c == Row(r).client
             S == Union(req[r].before, Row(r).digest, Row(r).scopes)
             given == [scopes |-> S, digest |-> Row(r).digest, lapsed |-> FALSE]
  <1>1. /\ UNCHANGED <<version, pushed, pending, session, req, codes, denied, approved, recent>>
        /\ pc' = [pc EXCEPT ![r] = "claim"] /\ pc[r] = "upsert"
        /\ consent' = [consent EXCEPT ![a] = [consent[a] EXCEPT ![c] = given]]
    BY DEF WriteConsent, Goto
  <1>2. /\ pc'[r] = "claim" /\ \A t \in Requests : t # r => pc'[t] = pc[t]
        /\ pc' \in [Requests -> {"idle", "create", "find", "record", "upsert", "claim", "deny"}]
    BY <1>1 DEF IInv, TypeOK
  <1>3. Standing(r) /\ Backed(r)
    BY <1>1, StandingHolds DEF Decided
  <1>4. a \in Accounts /\ c \in Clients /\ c \notin Dcr
    BY <1>1, <1>3 DEF Standing, Decided
  <1>5. Entries(a, c, Row(r).digest, S) \subseteq approved
    <2>1. Entries(a, c, Row(r).digest, Row(r).scopes) \subseteq approved
      BY <1>1, <1>3 DEF Backed
    <2>2. Entries(a, c, req[r].before.digest, req[r].before.scopes) \subseteq approved
      BY <1>1, <1>3 DEF Backed
    <2>3. CASE req[r].before.digest = Row(r).digest
      <3>1. S = Row(r).scopes \cup req[r].before.scopes
        BY <2>3 DEF Union
      <3> QED
        BY <2>1, <2>2, <2>3, <3>1, EntriesOfUnion
    <2>4. CASE req[r].before.digest # Row(r).digest
      BY <2>1, <2>4 DEF Union
    <2> QED
      BY <2>3, <2>4
  <1>6. given \in ConsentType /\ given.scopes = S /\ given.digest = Row(r).digest
    <2>1. Row(r) \in RowType /\ req[r].before \in ConsentType
      BY DEF IInv, TypeOK, ReqType, Row
    <2>2. Row(r).scopes \in SUBSET Scopes /\ Row(r).digest \in 0..MaxVersion /\ req[r].before.scopes \in SUBSET Scopes
      BY <2>1 DEF RowType, ConsentType
    <2>3. S \in SUBSET Scopes
      BY <2>2 DEF Union
    <2> QED
      BY <2>2, <2>3 DEF ConsentType
  <1>7. consent \in [Accounts -> [Clients -> ConsentType]] /\ consent[a] \in [Clients -> ConsentType]
    BY <1>4 DEF IInv, TypeOK
  <1> HIDE DEF given, S
  <1>8. [consent[a] EXCEPT ![c] = given] \in [Clients -> ConsentType]
    BY <1>4, <1>6, <1>7
  <1>9. /\ consent' \in [Accounts -> [Clients -> ConsentType]] /\ consent'[a][c] = given
        /\ \A x \in Accounts, y \in Clients : x # a \/ y # c => consent'[x][y] = consent[x][y]
    BY <1>1, <1>4, <1>6, <1>7, <1>8
  <1>10. TypeOK'
    <2>1. \A x \in Accounts, y \in Dcr : consent'[x][y] = NoConsent
      BY <1>4, <1>9 DEF IInv, TypeOK, Clients
    <2> QED
      BY <1>1, <1>2, <1>9, <2>1 DEF IInv, TypeOK
  <1>11. Named' /\ Once'
    BY <1>1, <1>2 DEF IInv, Named, Once, StillThere, Row, Decided
  <1>12. PushedOnce'
    BY <1>1, <1>2 DEF IInv, PushedOnce, StillThere, Row
  <1>13. Approved'
    <2>1. \A x \in Accounts, y \in Clients :
            Entries(x, y, consent'[x][y].digest, consent'[x][y].scopes) \subseteq approved
      <3> SUFFICES ASSUME NEW x \in Accounts, NEW y \in Clients
                   PROVE  Entries(x, y, consent'[x][y].digest, consent'[x][y].scopes) \subseteq approved
        OBVIOUS
      <3>1. CASE x = a /\ y = c
        BY <1>5, <1>6, <1>9, <3>1
      <3>2. CASE x # a \/ y # c
        BY <1>9, <3>2 DEF IInv, Approved
      <3> QED
        BY <3>1, <3>2
    <2>2. \A t \in Requests : Backed(t)'
      BY <1>1, <1>2, <1>3 DEF IInv, Approved, Backed, Row
    <2>3. CodeWasApproved'
      BY <1>1 DEF IInv, Approved, CodeWasApproved
    <2> QED
      BY <1>1, <2>1, <2>2, <2>3 DEF Approved, Backed
  <1> QED
    BY <1>10, <1>11, <1>12, <1>13 DEF IInv

-----------------------------------------------------------------------------
(* The end of an authorization.                                            *)

\* The code a request that claims its row is issued.
LEMMA CodeForType ==
  ASSUME IInv, NEW r \in Requests, pc[r] = "claim"
  PROVE  /\ CodeFor(r) \in CodeType /\ CodeFor(r).pending = req[r].pending /\ CodeFor(r).push = Row(r).push
         /\ CodeFor(r).client # App =>
              Entries(CodeFor(r).acct, CodeFor(r).client, CodeFor(r).digest, CodeFor(r).scopes) \subseteq approved
  <1>1. Standing(r) /\ Backed(r)
    BY StandingHolds DEF Decided
  <1>2. Row(r) \in RowType
    BY DEF IInv, TypeOK, ReqType, Row
  <1>3. /\ req[r].pending \in Pendings /\ req[r].acct \in Accounts /\ Row(r).client \in Clients
        /\ Row(r).push \in Pushes \cup {None} /\ Row(r).digest \in 0..MaxVersion /\ Row(r).scopes \in SUBSET Scopes
    BY <1>1, <1>2 DEF Standing, Decided, RowType
  <1>4. CodeFor(r) \in CodeType
    BY <1>3 DEF CodeFor, CodeType
  <1> QED
    BY <1>1, <1>4 DEF CodeFor, Backed

\* claimAndIssueCode: the row is deleted and its code issued in one transaction.
LEMMA ClaimInv == ASSUME IInv, NEW r \in Requests, Claim(r) PROVE IInv'
  <1> DEFINE p == req[r].pending
             x == CodeFor(r)
  <1>1. /\ pc[r] = "claim" /\ StillThere(p) /\ Finish(r)
        /\ pending' = [pending EXCEPT ![p] = DeletedRow] /\ codes' = Append(codes, x)
        /\ UNCHANGED <<version, pushed, session, consent, denied, approved, recent>>
    BY DEF Claim
  <1>2. Standing(r) /\ p \in Pendings /\ pending[p].push = Row(r).push
    BY <1>1, StandingHolds DEF Decided, Standing
  <1>3. /\ x \in CodeType /\ x.pending = p /\ x.push = pending[p].push
        /\ x.client # App => Entries(x.acct, x.client, x.digest, x.scopes) \subseteq approved
    BY <1>1, <1>2, CodeForType
  <1>4. /\ req' \in [Requests -> ReqType] /\ pc' \in [Requests -> {"idle", "create", "find", "record", "upsert", "claim", "deny"}]
        /\ pc'[r] = "idle" /\ \A t \in Requests : t # r => req'[t] = req[t] /\ pc'[t] = pc[t]
    BY <1>1, FinishType DEF IInv
  <1>5. /\ pending' \in [Pendings -> RowType] /\ pending'[p].life = "gone"
        /\ \A o \in Pendings : o # p => pending'[o] = pending[o]
        /\ \A o \in Pendings : StillThere(o)' => o # p /\ StillThere(o)
    BY <1>1, <1>2, RowDeleted
  <1> HIDE DEF x, p
  <1>6. codes \in Seq(CodeType) /\ codes' \in Seq(CodeType) /\ Len(codes') = Len(codes) + 1 /\ Len(codes) \in Nat
    BY <1>1, <1>3 DEF IInv, TypeOK
  <1>7. \A i \in 1..Len(codes) : codes'[i] = codes[i]
    BY <1>1, <1>3, <1>6
  <1>8. codes'[Len(codes) + 1] = x
    BY <1>1, <1>3, <1>6
  <1>9. \A i \in 1..Len(codes') : i \in 1..Len(codes) \/ i = Len(codes) + 1
    BY <1>6
  <1>10. TypeOK'
    BY <1>1, <1>4, <1>5, <1>6 DEF IInv, TypeOK
  <1>11. Named'
    BY <1>1, <1>4, <1>5 DEF IInv, Named, Row, Decided
  <1>12. Once'
    <2>1. \A i \in 1..Len(codes) : codes[i].pending \in Pendings
      BY CodesNamed DEF IInv
    <2>2. \A t \in Requests : pc'[t] \in Decided \cup {"deny"} =>
            pc'[t] = pc[t] /\ req'[t] = req[t] /\ req[t].pending \in Pendings
      BY <1>4 DEF IInv, Named, Decided
    <2>3. denied \subseteq Pendings /\ p \notin denied
      BY <1>1 DEF IInv, TypeOK, Once, StillThere, p
    <2>4. \A i \in 1..Len(codes) : codes[i].pending # p
      BY <1>1 DEF IInv, Once, StillThere, p
    <2>5. \A t \in Requests : pc'[t] \in Decided /\ StillThere(req[t].pending)' =>
            pending'[req'[t].pending].push = Row(t)'.push
      BY <1>5, <2>2 DEF IInv, Once, Row, Decided, StillThere
    <2>6. \A t \in Requests : pc'[t] \in Decided \cup {"deny"} => pending'[req'[t].pending].life # "free"
      BY <1>5, <2>2 DEF IInv, Once
    <2>7. \A o \in denied' : pending'[o].life = "gone"
      BY <1>1, <1>5, <2>3 DEF IInv, Once
    <2>8. \A i \in 1..Len(codes') : pending'[codes'[i].pending].life = "gone" /\ codes'[i].pending \notin denied'
      <3>1. \A i \in 1..Len(codes) : pending'[codes[i].pending].life = "gone" /\ codes[i].pending \notin denied
        BY <1>5, <2>1, <2>4 DEF IInv, Once
      <3> QED
        BY <1>1, <1>3, <1>5, <1>7, <1>8, <1>9, <2>3, <3>1
    <2>9. \A i, j \in 1..Len(codes') : i # j => codes'[i].pending # codes'[j].pending
      <3>1. \A i, j \in 1..Len(codes) : i # j => codes[i].pending # codes[j].pending
        BY DEF IInv, Once
      <3> QED
        BY <1>3, <1>7, <1>8, <1>9, <2>4, <3>1
    <2> QED
      BY <2>5, <2>6, <2>7, <2>8, <2>9 DEF Once
  <1>13. PushedOnce'
    <2>1. \A q \in Pushes : pushed[q].life # "gone" => x.push # q
      BY <1>1, <1>2, <1>3 DEF IInv, PushedOnce
    <2>2. \A t \in Requests : pc'[t] = "create" => t # r /\ pc[t] = "create" /\ Row(t)' = Row(t)
      BY <1>4 DEF Row
    <2>3. \A t \in Requests : pc[t] = "create" => Row(t).push # x.push
      BY <1>1, <1>2, <1>3 DEF IInv, PushedOnce
    <2>4. \A o \in Pendings : o # p /\ StillThere(o) /\ pending[o].push # None => x.push # pending[o].push
      BY <1>1, <1>2, <1>3 DEF IInv, PushedOnce
    <2>5. x.push # None => \A i \in 1..Len(codes) : codes[i].push # x.push
      BY <1>1, <1>2, <1>3 DEF IInv, PushedOnce
    <2>6. \A q \in Pushes : pushed'[q].life # "gone" =>
       /\ \A t \in Requests : pc'[t] = "create" => Row(t)'.push # q
       /\ \A o \in Pendings : StillThere(o)' => pending'[o].push # q
       /\ \A i \in 1..Len(codes') : codes'[i].push # q
      <3>1. \A q \in Pushes : pushed[q].life # "gone" => \A i \in 1..Len(codes') : codes'[i].push # q
        BY <1>7, <1>8, <1>9, <2>1 DEF IInv, PushedOnce
      <3>2. \A q \in Pushes : pushed[q].life # "gone" => \A t \in Requests : pc'[t] = "create" => Row(t)'.push # q
        BY <2>2 DEF IInv, PushedOnce
      <3>3. \A q \in Pushes : pushed[q].life # "gone" => \A o \in Pendings : StillThere(o)' => pending'[o].push # q
        BY <1>5 DEF IInv, PushedOnce
      <3> QED
        BY <1>1, <3>1, <3>2, <3>3
    <2>7. \A t, u \in Requests : t # u /\ pc'[t] = "create" /\ pc'[u] = "create" => Row(t)'.push # Row(u)'.push
      BY <2>2 DEF IInv, PushedOnce
    <2>8. \A t \in Requests : pc'[t] = "create" =>
       /\ \A o \in Pendings : StillThere(o)' => pending'[o].push # Row(t)'.push
       /\ \A i \in 1..Len(codes') : codes'[i].push # Row(t)'.push
      <3>1. \A t \in Requests : pc[t] = "create" => \A i \in 1..Len(codes') : codes'[i].push # Row(t).push
        BY <1>7, <1>8, <1>9, <2>3 DEF IInv, PushedOnce
      <3>2. \A t \in Requests : pc[t] = "create" => \A o \in Pendings : StillThere(o)' => pending'[o].push # Row(t).push
        BY <1>5 DEF IInv, PushedOnce
      <3> QED
        BY <2>2, <3>1, <3>2
    <2>9. \A o \in Pendings : StillThere(o)' /\ pending'[o].push # None =>
       /\ \A u \in Pendings : u # o /\ StillThere(u)' => pending'[u].push # pending'[o].push
       /\ \A i \in 1..Len(codes') : codes'[i].push # pending'[o].push
      <3>1. \A o \in Pendings : o # p /\ StillThere(o) /\ pending[o].push # None =>
              \A i \in 1..Len(codes') : codes'[i].push # pending[o].push
        BY <1>7, <1>8, <1>9, <2>4 DEF IInv, PushedOnce
      <3>2. \A o, u \in Pendings : StillThere(o) /\ pending[o].push # None /\ u # o /\ StillThere(u) =>
              pending[u].push # pending[o].push
        BY DEF IInv, PushedOnce
      <3> QED
        BY <1>5, <3>1, <3>2
    <2>10. \A i, j \in 1..Len(codes') : i # j => codes'[i].push = None \/ codes'[i].push # codes'[j].push
      <3>1. \A i, j \in 1..Len(codes) : i # j => codes[i].push = None \/ codes[i].push # codes[j].push
        BY DEF IInv, PushedOnce
      <3> QED
        BY <1>7, <1>8, <1>9, <2>5, <3>1
    <2> QED
      BY <2>6, <2>7, <2>8, <2>9, <2>10 DEF PushedOnce
  <1>14. Approved'
    <2>1. \A i \in 1..Len(codes) : codes[i].client # App =>
            Entries(codes[i].acct, codes[i].client, codes[i].digest, codes[i].scopes) \subseteq approved
      BY CodesApproved DEF IInv, Approved
    <2>2. \A i \in 1..Len(codes') : codes'[i].client # App =>
            Entries(codes'[i].acct, codes'[i].client, codes'[i].digest, codes'[i].scopes) \subseteq approved'
      BY <1>1, <1>3, <1>7, <1>8, <1>9, <2>1
    <2>3. CodeWasApproved'
      BY <2>2 DEF CodeWasApproved, Entries
    <2> QED
      BY <1>1, <1>4, <2>3 DEF IInv, Approved, Row
  <1> QED
    BY <1>10, <1>11, <1>12, <1>13, <1>14 DEF IInv

\* A denial reads its row.
LEMMA StartDenyInv ==
  ASSUME IInv, NEW r \in Requests, NEW p \in Pendings, StartDeny(r, p) PROVE IInv'
  <1> DEFINE held == [req[r] EXCEPT !.pending = p]
  <1>1. /\ UNCHANGED <<version, pushed, pending, session, consent, codes, denied, approved, recent>>
        /\ pc' = [pc EXCEPT ![r] = "deny"] /\ req' = [req EXCEPT ![r] = held] /\ pending[p].life = "live"
    BY DEF StartDeny, Goto, Live
  <1>2. req \in [Requests -> ReqType] /\ req[r] \in ReqType
    BY DEF IInv, TypeOK
  <1>3. held \in ReqType /\ held.pending = p
    BY <1>2 DEF ReqType
  <1> HIDE DEF held
  <1>4. req' \in [Requests -> ReqType] /\ req'[r].pending = p /\ \A t \in Requests : t # r => req'[t] = req[t]
    BY <1>1, <1>2, <1>3
  <1>5. /\ pc'[r] = "deny" /\ \A t \in Requests : t # r => pc'[t] = pc[t]
        /\ pc' \in [Requests -> {"idle", "create", "find", "record", "upsert", "claim", "deny"}]
    BY <1>1 DEF IInv, TypeOK
  <1>6. TypeOK'
    BY <1>1, <1>4, <1>5 DEF IInv, TypeOK
  <1>7. Standing(r)' /\ Backed(r)'
    BY <1>1, <1>4, <1>5 DEF Standing, Backed, Decided
  <1> QED
    BY <1>1, <1>4, <1>5, <1>6, <1>7, MoveInv

\* A denial deletes its row, if it is there still.
LEMMA DenyInv == ASSUME IInv, NEW r \in Requests, Deny(r) PROVE IInv'
  <1> DEFINE p == req[r].pending
  <1>1. /\ pc[r] = "deny" /\ Finish(r) /\ pending' = [pending EXCEPT ![p] = DeletedRow]
        /\ denied' = IF StillThere(p) THEN denied \cup {p} ELSE denied
        /\ UNCHANGED <<version, pushed, session, consent, codes, approved, recent>>
    BY DEF Deny
  <1>2. p \in Pendings
    BY <1>1 DEF IInv, Named
  <1>3. /\ req' \in [Requests -> ReqType] /\ pc' \in [Requests -> {"idle", "create", "find", "record", "upsert", "claim", "deny"}]
        /\ pc'[r] = "idle" /\ \A t \in Requests : t # r => req'[t] = req[t] /\ pc'[t] = pc[t]
    BY <1>1, FinishType DEF IInv
  <1>4. /\ pending' \in [Pendings -> RowType] /\ pending'[p].life = "gone"
        /\ \A o \in Pendings : o # p => pending'[o] = pending[o]
        /\ \A o \in Pendings : StillThere(o)' => o # p /\ StillThere(o)
    BY <1>1, <1>2, RowDeleted
  <1> HIDE DEF p
  <1>5. denied' \subseteq denied \cup {p} /\ (~StillThere(p) => denied' = denied)
    BY <1>1
  <1>6. TypeOK'
    BY <1>1, <1>2, <1>3, <1>4, <1>5 DEF IInv, TypeOK
  <1>7. Named'
    BY <1>1, <1>3, <1>4 DEF IInv, Named, Row, Decided
  <1>8. Once'
    <2>1. \A i \in 1..Len(codes) : codes[i].pending \in Pendings
      BY CodesNamed DEF IInv
    <2>2. \A t \in Requests : pc'[t] \in Decided \cup {"deny"} =>
            pc'[t] = pc[t] /\ req'[t] = req[t] /\ req[t].pending \in Pendings
      BY <1>3 DEF IInv, Named, Decided
    <2>3. denied \subseteq Pendings
      BY DEF IInv, TypeOK
    <2>4. \A t \in Requests : pc'[t] \in Decided /\ StillThere(req[t].pending)' =>
            pending'[req'[t].pending].push = Row(t)'.push
      BY <1>4, <2>2 DEF IInv, Once, Row, Decided, StillThere
    <2>5. \A t \in Requests : pc'[t] \in Decided \cup {"deny"} => pending'[req'[t].pending].life # "free"
      BY <1>4, <2>2 DEF IInv, Once
    <2>6. \A o \in denied' : pending'[o].life = "gone"
      BY <1>4, <1>5, <2>3 DEF IInv, Once
    <2>7. \A i \in 1..Len(codes) : pending'[codes[i].pending].life = "gone" /\ codes[i].pending \notin denied'
      <3>1. \A i \in 1..Len(codes) : pending[codes[i].pending].life = "gone" /\ codes[i].pending \notin denied
        BY DEF IInv, Once
      <3>2. \A i \in 1..Len(codes) : codes[i].pending = p => ~StillThere(p)
        BY <3>1 DEF StillThere
      <3>3. \A i \in 1..Len(codes) : codes[i].pending \notin denied'
        BY <1>5, <3>1, <3>2
      <3> QED
        BY <1>4, <2>1, <3>1, <3>3
    <2>8. \A i, j \in 1..Len(codes) : i # j => codes[i].pending # codes[j].pending
      BY DEF IInv, Once
    <2> QED
      BY <1>1, <2>4, <2>5, <2>6, <2>7, <2>8 DEF Once
  <1>9. PushedOnce'
    BY <1>1, <1>3, <1>4 DEF IInv, PushedOnce, Row
  <1>10. Approved'
    BY <1>1, <1>3 DEF IInv, Approved, CodeWasApproved, Row
  <1> QED
    BY <1>6, <1>7, <1>8, <1>9, <1>10 DEF IInv

-----------------------------------------------------------------------------
(* Every behaviour.                                                        *)

\* A step of a handler keeps the invariant.
LEMMA HandlingInv == ASSUME IInv, NEW r \in Requests, Handling(r) PROVE IInv'
  <1>1. CASE \E q \in Pushes : Take(r, q)
    BY <1>1, TakeInv
  <1>2. CASE \E p \in Pendings, b \in Browsers : CreatePending(r, p, b)
    BY <1>2, CreatePendingInv
  <1>3. CASE RefusePushed(r)
    BY <1>3, FinishInv DEF RefusePushed
  <1>4. CASE \E p \in Pendings : ShowConsent(r, p) \/ Approve(r, p) \/ StartDeny(r, p)
    BY <1>4, ShowConsentInv, ApproveInv, StartDenyInv
  <1>5. CASE FindRemembered(r) \/ ReadConsent(r) \/ WriteConsent(r)
    BY <1>5, FindRememberedInv, ReadConsentInv, WriteConsentInv
  <1>6. CASE AskPerson(r)
    BY <1>6, FinishInv DEF AskPerson
  <1>7. CASE AlreadyUsed(r)
    BY <1>7, FinishInv DEF AlreadyUsed
  <1>8. CASE Claim(r) \/ Deny(r)
    BY <1>8, ClaimInv, DenyInv
  <1> QED
    BY <1>1, <1>2, <1>3, <1>4, <1>5, <1>6, <1>7, <1>8 DEF Handling

\* Every step does.
LEMMA StepInv == ASSUME IInv, [Next]_vars PROVE IInv'
  <1>1. CASE Starting
    BY <1>1, PushInv, AuthorizeInv DEF Starting
  <1>2. CASE \E r \in Requests : Handling(r)
    BY <1>2, HandlingInv
  <1>3. CASE Outside
    <2>1. CASE \E b \in Browsers : Signing(b)
      BY <2>1, SessionInv
    <2>2. CASE \E c \in Cimd : NewDocument(c)
      BY <2>2, NewDocumentInv
    <2>3. CASE \E q \in Pushes : ExpirePushed(q)
      BY <2>3, ExpirePushedInv
    <2>4. CASE \E p \in Pendings : ExpirePending(p) \/ PrunePending(p)
      BY <2>4, ExpirePendingInv, PrunePendingInv
    <2>5. CASE \E a \in Accounts, c \in Clients : Lapse(a, c)
      BY <2>5, LapseInv
    <2> QED
      BY <1>3, <2>1, <2>2, <2>3, <2>4, <2>5 DEF Outside
  <1>4. CASE UNCHANGED vars
    <2>1. TypeOK'
      BY <1>4 DEF IInv, TypeOK, vars
    <2> QED
      BY <1>4, <2>1, ElsewhereInv DEF vars
  <1> QED
    BY <1>1, <1>2, <1>3, <1>4 DEF Next

\* The invariant holds in every state, of any number of requests.
THEOREM Invariance == Spec => []IInv
  BY InitInv, StepInv, PTL DEF Spec

\* Rows, requests, approvals and codes keep their types (oauth/store.ts,
\* oauth/consents.ts).
THEOREM TypeCorrect == Spec => []TypeOK
  <1>1. IInv => TypeOK
    BY DEF IInv
  <1> QED
    BY <1>1, Invariance, PTL

\* One authorization ends in one code at most, in none after a denial, and a
\* pushed request starts one (claimAndIssueCode, deny, takePushedRequest).
THEOREM OneOutcomeCorrect == Spec => []OneOutcome
  <1>1. IInv => OneOutcome
    BY DEF IInv, Once, PushedOnce, OneOutcome
  <1> QED
    BY <1>1, Invariance, PTL

\* No code carries a scope its account did not approve for its client under
\* its document (findRememberedConsent, recordConsent, claimAndIssueCode).
THEOREM ApprovedCorrect == Spec => []CodeWasApproved
  <1>1. IInv => CodeWasApproved
    BY DEF IInv, Approved
  <1> QED
    BY <1>1, Invariance, PTL

-----------------------------------------------------------------------------
(* ClientRegistry.  A request that has counted is one registration more at  *)
(* most, so the cap holds for the two together (Counted).  What is kept of a*)
(* document is from a time when it was served, and a change after that has a*)
(* later time: the ages of answer, row and document add up (Recent).        *)

USE RegistryBounds

Inserting == {r \in Requests : rpc[r] = "insert"}

RegTypes ==
  /\ registered \subseteq Ids /\ rpc = [r \in Requests |-> rpc[r]]
  /\ now \in Nat /\ changed \in [1..MaxNow -> Int]
  /\ cache \in [doc : Nat, until : Nat]
  /\ doc \in [Requests -> Nat] /\ at \in [Requests -> Nat]

Counted == IsFiniteSet(registered) /\ Cardinality(registered) + Cardinality(Inserting) < Cap + Cardinality(Requests)

\* The documents replaced so far, and that the document d is one of them.
Done == {n \in 1..MaxNow : changed[n] >= 0}
Replaced(d) == d + 1 \in Done

InTurn == \E k \in 0..MaxNow : Done = 1..k /\ Cardinality(Done) = k

Recent ==
  /\ \A n \in Done : changed[n] <= now
  /\ cache.until <= now + Ttl
  /\ Replaced(cache.doc) => cache.until <= changed[cache.doc + 1] + Ttl + Delay
  /\ \A r \in Requests :
       /\ rpc[r] = "keep" => /\ at[r] <= now /\ now <= at[r] + Delay
                             /\ Replaced(doc[r]) => at[r] <= changed[doc[r] + 1]
       /\ rpc[r] = "resolved" /\ Replaced(doc[r]) => now <= changed[doc[r] + 1] + Ttl + Delay

RegInv == RegTypes /\ Counted /\ InTurn /\ Recent

\* Sizes of sets in the instance are those of the library.
LEMMA RegCardinality == \A S : Registry!Cardinality(S) = Cardinality(S)
  BY DEF Registry!Cardinality, Cardinality

\* The document served is the number of those that were replaced.
LEMMA ServedIs == Registry!Served = Cardinality(Done)
  BY RegCardinality DEF Registry!Served, Done

\* Of a set of requests, those that insert are no more than there are.
LEMMA InsertingFinite == IsFiniteSet(Inserting) /\ Cardinality(Inserting) \in Nat /\ Cardinality(Inserting) <= Cardinality(Requests)
                         /\ Cardinality(Requests) \in Nat
  <1>1. Inserting \subseteq Requests
    BY DEF Inserting
  <1>2. IsFiniteSet(Inserting) /\ Cardinality(Inserting) <= Cardinality(Requests)
    BY <1>1, FS_Subset
  <1> QED
    BY <1>2, FS_CardinalityType

\* A step after which no more requests insert, and no more are registered.
LEMMA CountedShrinks ==
  ASSUME RegInv, registered' \subseteq registered, Inserting' \subseteq Inserting
  PROVE  Counted'
  <1>1. IsFiniteSet(registered') /\ Cardinality(registered') <= Cardinality(registered)
    BY FS_Subset DEF RegInv, Counted
  <1>2. Cardinality(Inserting') <= Cardinality(Inserting)
    BY FS_Subset, InsertingFinite
  <1>3. /\ Cardinality(registered) \in Nat /\ Cardinality(registered') \in Nat
        /\ Cardinality(Inserting') \in Nat /\ Cardinality(Inserting) \in Nat /\ Cardinality(Requests) \in Nat
    <2>1. IsFiniteSet(Inserting')
      BY FS_Subset, InsertingFinite
    <2> QED
      BY <1>1, <2>1, InsertingFinite, FS_CardinalityType DEF RegInv, Counted
  <1> QED
    BY <1>1, <1>2, <1>3 DEF RegInv, Counted

\* A request that goes on to any step but the insertion.
LEMMA RegGoes ==
  ASSUME RegInv, NEW r \in Requests, NEW step, rpc' = [rpc EXCEPT ![r] = step]
  PROVE  /\ rpc'[r] = step /\ (\A s \in Requests \ {r} : rpc'[s] = rpc[s])
         /\ rpc' = [s \in Requests |-> rpc'[s]]
         /\ step # "insert" => Inserting' \subseteq Inserting
  <1>1. rpc'[r] = step /\ (\A s \in Requests \ {r} : rpc'[s] = rpc[s]) /\ rpc' = [s \in Requests |-> rpc'[s]]
    BY DEF RegInv, RegTypes
  <1> QED
    BY <1>1 DEF Inserting

\* Nobody has registered at first.
LEMMA RegInit == ASSUME Registry!Init PROVE RegInv
  <1>1. RegTypes
    BY DEF Registry!Init, RegTypes
  <1>2. Inserting = {} /\ registered = {}
    BY DEF Registry!Init, Inserting
  <1>3. Counted
    BY <1>2, FS_EmptySet, FS_CardinalityType DEF Counted
  <1>4. Done = {}
    BY DEF Registry!Init, Done
  <1>5. InTurn
    <2>1. 1..0 = {} /\ Cardinality({}) = 0
      BY FS_EmptySet
    <2> QED
      BY <1>4, <2>1 DEF InTurn
  <1>6. Recent
    BY <1>4 DEF Registry!Init, Recent, Replaced
  <1> QED
    BY <1>1, <1>3, <1>5, <1>6 DEF RegInv

\* registerClient counts, and inserts when there was room.
LEMMA RegRegister == ASSUME RegInv, Registry!Register PROVE RegInv'
  <1>1. UNCHANGED <<now, changed, cache, doc, at>>
    BY DEF Registry!Register, Registry!RegisterClient, Registry!Evict, Registry!Count, Registry!Insert, Registry!Stale, Registry!Authorized,
           Registry!regVars
  <1>2. Done' = Done
    BY <1>1 DEF Done
  <1>3. InTurn'
    BY <1>2 DEF RegInv, InTurn
  <1>4. ASSUME NEW r \in Requests, NEW step \in {"idle", "count", "insert"}, rpc' = [rpc EXCEPT ![r] = step],
               registered' \subseteq Ids, Counted'
        PROVE  RegInv'
    <2>1. rpc'[r] = step /\ (\A s \in Requests \ {r} : rpc'[s] = rpc[s]) /\ rpc' = [s \in Requests |-> rpc'[s]]
      BY <1>4, RegGoes
    <2>2. RegTypes'
      BY <1>1, <1>4, <2>1 DEF RegInv, RegTypes
    <2>3. Recent'
      BY <1>1, <1>2, <2>1 DEF RegInv, Recent, Replaced
    <2> QED
      BY <1>3, <1>4, <2>2, <2>3 DEF RegInv
  <1>5. ASSUME NEW r \in Requests, Registry!Evict(r) PROVE RegInv'
    <2>1. rpc' = [rpc EXCEPT ![r] = "count"] /\ registered' \subseteq registered
      BY <1>5 DEF Registry!Evict, Registry!Goto
    <2>2. Inserting' \subseteq Inserting
      BY <2>1, RegGoes
    <2>3. Counted' /\ registered' \subseteq Ids
      BY <2>1, <2>2, CountedShrinks DEF RegInv, RegTypes
    <2> QED
      BY <1>4, <2>1, <2>3
  <1>6. ASSUME NEW r \in Requests, Registry!Count(r) PROVE RegInv'
    <2>1. registered' = registered /\ registered' \subseteq Ids
      BY <1>6 DEF Registry!Count, Registry!regVars, RegInv, RegTypes
    <2>2. CASE Registry!Room
      <3>1. rpc' = [rpc EXCEPT ![r] = "insert"] /\ Cardinality(registered) < Cap
        BY <1>6, <2>2, RegCardinality DEF Registry!Count, Registry!Goto, Registry!Room
      <3>2. Inserting' \subseteq Requests
        BY DEF Inserting
      <3>3. Cardinality(Inserting') \in Nat /\ Cardinality(Inserting') <= Cardinality(Requests)
            /\ Cardinality(Requests) \in Nat
        BY <3>2, FS_Subset, FS_CardinalityType
      <3>4. Counted'
        BY <2>1, <3>1, <3>3, FS_CardinalityType DEF RegInv, Counted
      <3> QED
        BY <1>4, <2>1, <3>1, <3>4
    <2>3. CASE ~Registry!Room
      <3>1. rpc' = [rpc EXCEPT ![r] = "idle"]
        BY <1>6, <2>3 DEF Registry!Count, Registry!Goto
      <3>2. Counted'
        BY <2>1, <3>1, RegGoes, CountedShrinks
      <3> QED
        BY <1>4, <2>1, <3>1, <3>2
    <2> QED
      BY <2>2, <2>3
  <1>7. ASSUME NEW r \in Requests, NEW c \in Ids, Registry!Insert(r, c) PROVE RegInv'
    <2>1. rpc[r] = "insert" /\ rpc' = [rpc EXCEPT ![r] = "idle"] /\ registered' = registered \cup {c}
      BY <1>7 DEF Registry!Insert, Registry!Goto
    <2>2. Inserting' = Inserting \ {r} /\ r \in Inserting
      BY <2>1, RegGoes DEF Inserting
    <2>3. IsFiniteSet(Inserting) /\ Cardinality(Inserting) \in Nat /\ Cardinality(Requests) \in Nat
      BY InsertingFinite
    <2>4. Cardinality(Inserting') = Cardinality(Inserting) - 1
      BY <2>2, <2>3, FS_RemoveElement
    <2>5. IsFiniteSet(registered) /\ Cardinality(registered) \in Nat
      BY FS_CardinalityType DEF RegInv, Counted
    <2>6. IsFiniteSet(registered') /\ Cardinality(registered') <= Cardinality(registered) + 1
          /\ Cardinality(registered') \in Nat
      <3> DEFINE more == registered \cup {c}
      <3>1. IsFiniteSet(more) /\ (Cardinality(more) = Cardinality(registered) \/ Cardinality(more) = Cardinality(registered) + 1)
        BY <2>5, FS_AddElement
      <3>2. registered' = more
        BY <2>1
      <3> HIDE DEF more
      <3> QED
        BY <2>5, <3>1, <3>2
    <2>7. Counted'
      BY <2>3, <2>4, <2>5, <2>6 DEF RegInv, Counted
    <2>8. registered' \subseteq Ids
      BY <2>1 DEF RegInv, RegTypes
    <2> QED
      BY <1>4, <2>1, <2>7, <2>8
  <1>8. ASSUME NEW c \in Ids, Registry!Stale(c) \/ Registry!Authorized(c) PROVE RegInv'
    <2>1. UNCHANGED <<registered, rpc>>
      BY <1>8 DEF Registry!Stale, Registry!Authorized
    <2> QED
      BY <1>1, <1>2, <1>3, <2>1 DEF RegInv, RegTypes, Counted, Inserting, Recent, Replaced
  <1> QED
    BY <1>5, <1>6, <1>7, <1>8 DEF Registry!Register, Registry!RegisterClient

\* A request that resolves a document inserts none.
LEMMA RegResolves ==
  ASSUME RegInv, NEW r \in Requests, NEW step \in Registry!Steps \ {"insert"}, rpc' = [rpc EXCEPT ![r] = step],
         UNCHANGED <<registered, now, changed>>, cache' \in [doc : Nat, until : Nat],
         doc' \in [Requests -> Nat], at' \in [Requests -> Nat],
         \A s \in Requests \ {r} : doc'[s] = doc[s] /\ at'[s] = at[s],
         cache' # cache => /\ cache'.until <= now + Ttl
                           /\ Replaced(cache'.doc) => cache'.until <= changed[cache'.doc + 1] + Ttl + Delay,
         step = "keep" => /\ at'[r] <= now /\ now <= at'[r] + Delay
                          /\ Replaced(doc'[r]) => at'[r] <= changed[doc'[r] + 1],
         step = "resolved" => (Replaced(doc'[r]) => now <= changed[doc'[r] + 1] + Ttl + Delay)
  PROVE  RegInv'
  <1>1. rpc'[r] = step /\ (\A s \in Requests \ {r} : rpc'[s] = rpc[s]) /\ rpc' = [s \in Requests |-> rpc'[s]]
        /\ Inserting' \subseteq Inserting
    BY RegGoes
  <1>2. RegTypes'
    BY <1>1 DEF RegInv, RegTypes
  <1>3. Counted'
    BY <1>1, CountedShrinks
  <1>4. Done' = Done
    BY DEF Done
  <1>5. InTurn'
    BY <1>4 DEF RegInv, InTurn
  <1>6. Recent'
    <2>1. /\ \A n \in Done' : changed'[n] <= now'
          /\ cache'.until <= now' + Ttl
          /\ (Replaced(cache.doc)' => cache'.until <= changed'[cache'.doc + 1] + Ttl + Delay)
      BY <1>4 DEF RegInv, Recent, Replaced
    <2>2. ASSUME NEW s \in Requests
          PROVE  /\ rpc'[s] = "keep" => /\ at'[s] <= now' /\ now' <= at'[s] + Delay
                                        /\ Replaced(doc[s])' => at'[s] <= changed'[doc'[s] + 1]
                 /\ rpc'[s] = "resolved" /\ Replaced(doc[s])' => now' <= changed'[doc'[s] + 1] + Ttl + Delay
      <3>1. CASE s = r
        BY <1>1, <1>4, <3>1 DEF Replaced
      <3>2. CASE s # r
        BY <1>1, <1>4, <3>2 DEF RegInv, Recent, Replaced
      <3> QED
        BY <3>1, <3>2
    <2> QED
      BY <2>1, <2>2 DEF Recent
  <1> QED
    BY <1>2, <1>3, <1>5, <1>6 DEF RegInv

\* A document that is fetched is the one served now, and one that is taken from
\* the cache was served when it was kept (resolveMetadataDocument).
LEMMA RegRequests ==
  ASSUME RegInv, NEW r \in Requests,
         Registry!ResolveMetadataDocument(r) \/ Registry!Leave(r)
  PROVE  RegInv'
  <1>0. /\ now \in Nat /\ cache \in [doc : Nat, until : Nat] /\ cache.doc \in Nat /\ cache.until \in Nat
        /\ doc \in [Requests -> Nat] /\ at \in [Requests -> Nat] /\ doc[r] \in Nat /\ at[r] \in Nat
        /\ \A n \in Done : changed[n] \in Int
    BY DEF RegInv, RegTypes, Done
  <1>1. UNCHANGED <<registered, now, changed>>
    BY DEF Registry!ResolveMetadataDocument, Registry!UseCached, Registry!Miss, Registry!TakeFetch, Registry!Lookup, Registry!Fetch, Registry!FetchFailed,
           Registry!Leave, Registry!Keep, Registry!regVars
  <1>2. ASSUME Registry!UseCached(r) PROVE RegInv'
    <2>1. /\ rpc' = [rpc EXCEPT ![r] = "resolved"] /\ cache' = cache /\ cache.until > now
          /\ doc' = [doc EXCEPT ![r] = cache.doc] /\ at' = [at EXCEPT ![r] = now]
      BY <1>2 DEF Registry!UseCached, Registry!Goto, Registry!CacheHit
    <2>2. Replaced(cache.doc) => now <= changed[cache.doc + 1] + Ttl + Delay
      BY <1>0, <2>1 DEF RegInv, Recent, Replaced
    <2>3. doc' \in [Requests -> Nat] /\ at' \in [Requests -> Nat] /\ doc'[r] = cache.doc
          /\ \A s \in Requests \ {r} : doc'[s] = doc[s] /\ at'[s] = at[s]
      BY <1>0, <2>1
    <2> QED
      BY <1>0, <1>1, <2>1, <2>2, <2>3, RegResolves DEF Registry!Steps
  <1>3. ASSUME Registry!Miss(r) \/ Registry!TakeFetch(r) \/ Registry!Lookup(r) \/ Registry!FetchFailed(r) PROVE RegInv'
    <2>1. PICK step \in {"idle", "budget", "lookup", "fetch"} : rpc' = [rpc EXCEPT ![r] = step]
      BY <1>3 DEF Registry!Miss, Registry!TakeFetch, Registry!Lookup, Registry!FetchFailed, Registry!Goto
    <2>2. UNCHANGED <<cache, doc, at>>
      BY <1>3 DEF Registry!Miss, Registry!TakeFetch, Registry!Lookup, Registry!FetchFailed
    <2> QED
      BY <1>0, <1>1, <2>1, <2>2, RegResolves DEF Registry!Steps
  <1>4. ASSUME Registry!Fetch(r) PROVE RegInv'
    <2>1. /\ rpc' = [rpc EXCEPT ![r] = "keep"] /\ cache' = cache
          /\ doc' = [doc EXCEPT ![r] = Cardinality(Done)] /\ at' = [at EXCEPT ![r] = now]
      BY <1>4, ServedIs DEF Registry!Fetch, Registry!Goto
    <2>2. Cardinality(Done) \in Nat /\ ~Replaced(Cardinality(Done))
      <3>1. PICK k \in 0..MaxNow : Done = 1..k /\ Cardinality(Done) = k
        BY DEF RegInv, InTurn
      <3>2. k + 1 \notin 1..k /\ k \in Nat
        BY RegistryBounds
      <3> QED
        BY <3>1, <3>2 DEF Replaced
    <2>3. doc' \in [Requests -> Nat] /\ at' \in [Requests -> Nat] /\ doc'[r] = Cardinality(Done) /\ at'[r] = now
          /\ \A s \in Requests \ {r} : doc'[s] = doc[s] /\ at'[s] = at[s]
      BY <1>0, <2>1, <2>2
    <2>4. ~Replaced(doc'[r])
      BY <2>2, <2>3
    <2>5. at'[r] <= now /\ now <= at'[r] + Delay
      BY <1>0, <2>3
    <2> QED
      BY <1>0, <1>1, <2>1, <2>3, <2>4, <2>5, RegResolves DEF Registry!Steps
  <1>5. ASSUME Registry!Leave(r) PROVE RegInv'
    <2>1. /\ rpc' = [rpc EXCEPT ![r] = "idle"] /\ cache' = cache
          /\ doc' = [doc EXCEPT ![r] = 0] /\ at' = [at EXCEPT ![r] = 0]
      BY <1>5 DEF Registry!Leave, Registry!Goto
    <2>2. doc' \in [Requests -> Nat] /\ at' \in [Requests -> Nat]
          /\ \A s \in Requests \ {r} : doc'[s] = doc[s] /\ at'[s] = at[s]
      BY <1>0, <2>1
    <2> QED
      BY <1>0, <1>1, <2>1, <2>2, RegResolves DEF Registry!Steps
  <1>6. ASSUME NEW ttl \in Registry!CacheLifetimes, Registry!Keep(r, ttl) PROVE RegInv'
    <2>1. /\ rpc[r] = "keep" /\ rpc' = [rpc EXCEPT ![r] = "resolved"] /\ doc' = doc
          /\ at' = [at EXCEPT ![r] = now]
          /\ cache' = cache \/ cache' = [doc |-> doc[r], until |-> now + ttl]
      BY <1>6 DEF Registry!Keep, Registry!Goto, Registry!Upsert
    <2>0. ttl \in 0..Ttl
      BY DEF Registry!CacheLifetimes
    <2>2. at[r] <= now /\ now <= at[r] + Delay /\ (Replaced(doc[r]) => at[r] <= changed[doc[r] + 1])
      BY <2>1 DEF RegInv, Recent
    <2>3. Replaced(doc[r]) => /\ now <= changed[doc[r] + 1] + Ttl + Delay
                              /\ now + ttl <= changed[doc[r] + 1] + Ttl + Delay
      BY <1>0, <2>0, <2>2 DEF Replaced
    <2>4. at' \in [Requests -> Nat] /\ \A s \in Requests \ {r} : doc'[s] = doc[s] /\ at'[s] = at[s]
      BY <1>0, <2>1
    <2>5. cache' \in [doc : Nat, until : Nat]
      BY <1>0, <2>0, <2>1
    <2>6. cache' # cache => cache'.doc = doc[r] /\ cache'.until = now + ttl /\ now + ttl <= now + Ttl
      BY <1>0, <2>0, <2>1
    <2> QED
      BY <1>0, <1>1, <2>1, <2>3, <2>4, <2>5, <2>6, RegResolves DEF Registry!Steps
  <1> QED
    BY <1>2, <1>3, <1>4, <1>5, <1>6 DEF Registry!ResolveMetadataDocument

\* The host replaces its document, later than anything before.
LEMMA RegReplaces == ASSUME RegInv, Registry!ReplaceDocument PROVE RegInv'
  <1>1. PICK k \in 0..MaxNow : Done = 1..k /\ Cardinality(Done) = k
    BY DEF RegInv, InTurn
  <1>2. /\ k < MaxNow /\ changed' = [changed EXCEPT ![k + 1] = now]
        /\ UNCHANGED <<registered, now, cache, rpc, doc, at>>
    BY <1>1, ServedIs DEF Registry!ReplaceDocument, Registry!regVars
  <1>3. k + 1 \in 1..MaxNow /\ now \in Nat /\ changed \in [1..MaxNow -> Int]
    BY <1>1, <1>2 DEF RegInv, RegTypes
  <1>4. /\ changed' \in [1..MaxNow -> Int] /\ changed'[k + 1] = now
        /\ \A n \in 1..MaxNow : n # k + 1 => changed'[n] = changed[n]
    BY <1>2, <1>3
  <1>5. Done' = 1..(k + 1)
    <2>1. \A n \in 1..MaxNow : n \in Done <=> n \in 1..k
      BY <1>1
    <2>2. \A n \in 1..MaxNow : changed'[n] >= 0 <=> n \in 1..(k + 1)
      BY <1>3, <1>4, <2>1 DEF Done
    <2> QED
      BY <1>3, <2>2 DEF Done
  <1>6. InTurn'
    <2>1. Cardinality(1..(k + 1)) = k + 1
      BY <1>1, FS_Interval
    <2> QED
      BY <1>3, <1>5, <2>1 DEF InTurn
  <1>7. RegTypes' /\ Counted'
    BY <1>2, <1>4 DEF RegInv, RegTypes, Counted, Inserting
  <1>8. ASSUME NEW d \in Nat, Replaced(d)', ~Replaced(d)
        PROVE  changed'[d + 1] = now
    BY <1>1, <1>4, <1>5, <1>8 DEF Replaced
  <1>9. ASSUME NEW d \in Nat, Replaced(d)
        PROVE  changed'[d + 1] = changed[d + 1] /\ changed[d + 1] \in Int
    BY <1>1, <1>3, <1>4, <1>9 DEF Replaced
  <1>10. Recent'
    <2>1. \A n \in Done' : changed'[n] <= now'
      <3>1. \A n \in Done : changed[n] <= now
        BY DEF RegInv, Recent
      <3> QED
        BY <1>1, <1>2, <1>3, <1>4, <1>5, <3>1
    <2>2. cache.doc \in Nat /\ cache.until \in Nat /\ (\A r \in Requests : doc[r] \in Nat /\ at[r] \in Nat)
      BY DEF RegInv, RegTypes
    <2>3. Replaced(cache.doc)' => cache.until <= changed'[cache.doc + 1] + Ttl + Delay
      <3>1. CASE Replaced(cache.doc)
        BY <1>9, <2>2, <3>1 DEF RegInv, Recent
      <3>2. CASE ~Replaced(cache.doc)
        <4>1. Replaced(cache.doc)' => changed'[cache.doc + 1] = now
          BY <1>2, <1>8, <2>2, <3>2 DEF Replaced
        <4> QED
          BY <1>3, <2>2, <4>1 DEF RegInv, Recent
      <3> QED
        BY <3>1, <3>2
    <2>4. ASSUME NEW r \in Requests
          PROVE  /\ rpc[r] = "keep" /\ Replaced(doc[r])' => at[r] <= changed'[doc[r] + 1]
                 /\ rpc[r] = "resolved" /\ Replaced(doc[r])' => now <= changed'[doc[r] + 1] + Ttl + Delay
      <3>1. CASE Replaced(doc[r])
        BY <1>9, <2>2, <3>1 DEF RegInv, Recent
      <3>2. CASE ~Replaced(doc[r])
        <4>1. Replaced(doc[r])' => changed'[doc[r] + 1] = now
          BY <1>2, <1>8, <2>2, <3>2 DEF Replaced
        <4>2. rpc[r] = "keep" => at[r] <= now
          BY DEF RegInv, Recent
        <4> QED
          BY <1>3, <2>2, <4>1, <4>2
      <3> QED
        BY <3>1, <3>2
    <2> QED
      BY <1>2, <2>1, <2>3, <2>4 DEF RegInv, Recent
  <1> QED
    BY <1>6, <1>7, <1>10 DEF RegInv

\* Time passes while no answer waits to be stored for longer than Delay.
LEMMA RegTick == ASSUME RegInv, Registry!Tick PROVE RegInv'
  <1>1. /\ now' = now + 1 /\ UNCHANGED <<registered, changed, cache, rpc, doc, at>>
        /\ \A r \in Requests : rpc[r] # "resolved" /\ (rpc[r] = "keep" => now < at[r] + Delay)
    BY DEF Registry!Tick, Registry!regVars
  <1>2. now \in Nat /\ cache.until \in Nat /\ (\A r \in Requests : at[r] \in Nat) /\ (\A n \in Done : changed[n] \in Int)
        /\ Done' = Done
    BY <1>1 DEF RegInv, RegTypes, Done
  <1>3. RegTypes' /\ Counted' /\ InTurn'
    BY <1>1, <1>2 DEF RegInv, RegTypes, Counted, Inserting, InTurn
  <1>4. Recent'
    BY <1>1, <1>2 DEF RegInv, Recent, Replaced
  <1> QED
    BY <1>3, <1>4 DEF RegInv

\* However many ids, requests and documents there are.
LEMMA RegInvariant == Registry!Spec => []RegInv
  <1>1. Registry!Init => RegInv
    BY RegInit
  <1>2. RegInv /\ [Registry!Next]_(Registry!vars) => RegInv'
    <2> SUFFICES ASSUME RegInv, [Registry!Next]_(Registry!vars) PROVE RegInv'
      OBVIOUS
    <2>1. CASE Registry!Register
      BY <2>1, RegRegister
    <2>2. CASE Registry!Resolve
      BY <2>2, RegRequests, RegReplaces, RegTick DEF Registry!Resolve
    <2>3. CASE UNCHANGED Registry!vars
      BY <2>3 DEF Registry!vars, RegInv, RegTypes, Counted, Inserting, InTurn, Done, Recent, Replaced
    <2> QED
      BY <2>1, <2>2, <2>3 DEF Registry!Next
  <1> QED
    BY <1>1, <1>2, PTL DEF Registry!Spec

\* Registrations that have counted and not yet inserted can pass the cap, by
\* no more than one less than there are at once (registerClient).
THEOREM CapNearlyCorrect == Registry!Spec => []CapNearlyHolds
  <1>1. ASSUME RegInv PROVE CapNearlyHolds
    <2>1. Cardinality(registered) \in Nat
      BY <1>1, FS_CardinalityType DEF RegInv, Counted
    <2>2. Cardinality(registered) < Cap + Cardinality(Requests)
      BY <1>1, <2>1, InsertingFinite DEF RegInv, Counted
    <2> QED
      BY <2>2, RegCardinality DEF CapNearlyHolds, Registry!CapNearlyHolds
  <1> QED
    BY <1>1, RegInvariant, PTL

\* A document an authorization is decided by was still served less than the
\* cache's longest lifetime, and the time to store it, ago
\* (resolveMetadataDocument).
THEOREM RecentCorrect == Registry!Spec => []DocumentIsRecent
  <1>1. ASSUME RegInv PROVE DocumentIsRecent
    <2> SUFFICES ASSUME NEW r \in Requests, rpc[r] = "resolved", doc[r] < Cardinality(Done)
                 PROVE  now <= changed[doc[r] + 1] + Ttl + Delay
      BY ServedIs DEF DocumentIsRecent, Registry!DocumentIsRecent
    <2>1. doc[r] \in Nat
      BY <1>1 DEF RegInv, RegTypes
    <2>2. Replaced(doc[r])
      BY <1>1, <2>1 DEF RegInv, InTurn, Replaced
    <2> QED
      BY <1>1, <2>2 DEF RegInv, Recent
  <1> QED
    BY <1>1, RegInvariant, PTL
=============================================================================
