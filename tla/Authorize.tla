----------------------------- MODULE Authorize ------------------------------
(***************************************************************************)
(* From GET /authorize to the code: oauth/authorize.ts over the pending    *)
(* authorizations and pushed requests of oauth/store.ts and the approvals  *)
(* of oauth/consents.ts.                                                   *)
(*                                                                         *)
(* A handler runs as a request; a step is one statement of it that other   *)
(* requests can see or disturb.  What a handler reads of a pending row     *)
(* never changes while the row exists, so loadStep and the reading of the  *)
(* session are one step.  A client stands for a client_id with its redirect*)
(* host.                                                                   *)
(***************************************************************************)
EXTENDS Naturals, Sequences

CONSTANTS Cimd,        \* clients known by a metadata document
          Dcr,         \* clients registered dynamically
          App,         \* our own app
          Accounts, Browsers, Requests,
          Pendings,    \* ids newId('pa') may draw
          Pushes,      \* ids newId('par') may draw
          Scopes,
          Reading,     \* 'devices:read'
          None,
          MaxVersion   \* bound: versions of a metadata document

Clients == Cimd \cup Dcr \cup {App}

ASSUME NoneIsNoId == None \notin Clients \cup Accounts \cup Browsers \cup Pendings \cup Pushes
ASSUME ReadingIsScope == Reading \in Scopes
ASSUME KindsAreDisjoint == App \notin Cimd \cup Dcr /\ Cimd \cap Dcr = {}
ASSUME MaxVersionIsNat == MaxVersion \in Nat \ {0}

VARIABLES
  version,   \* the metadata document a client serves now, by its digest
  pushed,    \* par_requests
  pending,   \* oauth_pending_authorizations
  session,   \* the account signed in in a browser, and whether recently
  consent,   \* consents
  pc, req,   \* the requests
  codes,     \* the codes issued, in their order
  denied,    \* history: pending authorizations a denial deleted
  approved,  \* history: the scopes a person has approved, for which document
  recent     \* history: those approved since the approval before them lapsed

vars == <<version, pushed, pending, session, consent, pc, req, codes, denied, approved, recent>>

NoPush    == [life |-> "free", client |-> None, scopes |-> {}]
NoPending == [life |-> "free", client |-> None, digest |-> 0, scopes |-> {}, browser |-> None, push |-> None]
NoSession == [acct |-> None, recently |-> FALSE]
NoConsent == [scopes |-> {}, digest |-> 0, lapsed |-> FALSE]
NoReq     == [pending |-> None, row |-> NoPending, acct |-> None, before |-> NoConsent]

Lives    == {"free", "live", "expired", "gone"}
PushType == [life : Lives, client : Clients \cup {None}, scopes : SUBSET Scopes]
ConsentType == [scopes : SUBSET Scopes, digest : 0..MaxVersion, lapsed : BOOLEAN]
RowType  == [life : Lives, client : Clients \cup {None}, digest : 0..MaxVersion, scopes : SUBSET Scopes,
             browser : Browsers \cup {None}, push : Pushes \cup {None}]
ReqType  == [pending : Pendings \cup {None}, row : RowType, acct : Accounts \cup {None}, before : ConsentType]
CodeType == [pending : Pendings, push : Pushes \cup {None}, acct : Accounts, client : Clients,
             digest : 0..MaxVersion, scopes : SUBSET Scopes]
Approvals == Accounts \X Clients \X (0..MaxVersion) \X Scopes

TypeOK ==
  /\ version \in [Cimd -> 1..MaxVersion]
  /\ pushed \in [Pushes -> PushType]
  /\ pending \in [Pendings -> RowType]
  /\ session \in [Browsers -> [acct : Accounts \cup {None}, recently : BOOLEAN]]
  /\ consent \in [Accounts -> [Clients -> ConsentType]]
  /\ \A a \in Accounts, c \in Dcr : consent[a][c] = NoConsent
  /\ pc \in [Requests -> {"idle", "create", "find", "record", "upsert", "claim", "deny"}]
  /\ req \in [Requests -> ReqType]
  /\ codes \in Seq(CodeType)
  /\ denied \subseteq Pendings
  /\ approved \subseteq Approvals /\ recent \subseteq approved

Init ==
  /\ version = [c \in Cimd |-> 1]
  /\ pushed = [q \in Pushes |-> NoPush]
  /\ pending = [p \in Pendings |-> NoPending]
  /\ session = [b \in Browsers |-> NoSession]
  /\ consent = [a \in Accounts |-> [c \in Clients |-> NoConsent]]
  /\ pc = [r \in Requests |-> "idle"] /\ req = [r \in Requests |-> NoReq]
  /\ codes = <<>> /\ denied = {} /\ approved = {} /\ recent = {}

Goto(r, step) == pc' = [pc EXCEPT ![r] = step]
Finish(r) == Goto(r, "idle") /\ req' = [req EXCEPT ![r] = NoReq]
\* The pending authorization a request works on, as it read it.
Row(r) == req[r].row
DeletedPush == [NoPush EXCEPT !.life = "gone"]
DeletedRow == [NoPending EXCEPT !.life = "gone"]

-----------------------------------------------------------------------------
(* GET /authorize and POST /par.                                           *)

\* The digest of the document a client is resolved with: one the client
\* serves, or served when the cached copy was fetched.
Resolved(c) == IF c \in Cimd THEN 1..version[c] ELSE {0}

\* validateAuthorization: our own app must push its parameters.  A request it
\* refuses for its form changes nothing.
Valid(c, byPush) == c = App => byPush

Opened(c, d, S, b, q) ==
  [life |-> "live", client |-> c, digest |-> d, scopes |-> S, browser |-> b, push |-> q]

Push(q, c, S) ==
  /\ pushed[q].life = "free"
  /\ pushed' = [pushed EXCEPT ![q] = [life |-> "live", client |-> c, scopes |-> S]]
  /\ UNCHANGED <<version, pending, session, consent, pc, req, codes, denied, approved, recent>>

Authorize(p, c, S, b) ==
  /\ pending[p].life = "free"
  /\ Valid(c, FALSE)
  /\ \E d \in Resolved(c) : pending' = [pending EXCEPT ![p] = Opened(c, d, S, b, None)]
  /\ UNCHANGED <<version, pushed, session, consent, pc, req, codes, denied, approved, recent>>

\* Slip: the request is read and not deleted.
TakeCopy(r, q) ==
  /\ pc[r] = "idle" /\ pushed[q].life = "live"
  /\ req' = [req EXCEPT ![r].row = Opened(pushed[q].client, 0, pushed[q].scopes, None, q)]
  /\ Goto(r, "create")
  /\ UNCHANGED <<version, pushed, pending, session, consent, codes, denied, approved, recent>>

\* takePushedRequest: DELETE ... RETURNING.
Take(r, q) ==
  /\ pc[r] = "idle" /\ pushed[q].life = "live"
  /\ pushed' = [pushed EXCEPT ![q] = DeletedPush]
  /\ req' = [req EXCEPT ![r].row = Opened(pushed[q].client, 0, pushed[q].scopes, None, q)]
  /\ Goto(r, "create")
  /\ UNCHANGED <<version, pending, session, consent, codes, denied, approved, recent>>

\* What was pushed is validated again, and may be refused now.
CreatePending(r, p, b) ==
  /\ pc[r] = "create" /\ pending[p].life = "free"
  /\ Valid(Row(r).client, TRUE)
  /\ \E d \in Resolved(Row(r).client) :
       pending' = [pending EXCEPT ![p] = Opened(Row(r).client, d, Row(r).scopes, b, Row(r).push)]
  /\ Finish(r)
  /\ UNCHANGED <<version, pushed, session, consent, codes, denied, approved, recent>>

RefusePushed(r) ==
  /\ pc[r] = "create"
  /\ Finish(r)
  /\ UNCHANGED <<version, pushed, pending, session, consent, codes, denied, approved, recent>>

-----------------------------------------------------------------------------
(* Signing in and out, from the pages of an authorization and from the     *)
(* account's own.                                                          *)

\* loadStep: the row is live, and the browser is the one it was started in.
Live(p) == pending[p].life = "live"
BelongsTo(p, b) == Live(p) /\ pending[p].browser = b

SignedIn(b, a) == session' = [session EXCEPT ![b] = [acct |-> a, recently |-> TRUE]]
SignedOut(b) == session' = [session EXCEPT ![b] = NoSession]
Besides == UNCHANGED <<version, pushed, pending, consent, pc, req, codes, denied, approved, recent>>

SignIn(b, a, p) == BelongsTo(p, b) /\ SignedIn(b, a) /\ Besides

\* passkeyContext: an authorization under way, or none on the account's page.
PasskeyContext(p, b) == p # None => BelongsTo(p, b)

SignInByPasskey(b, a, p) == PasskeyContext(p, b) /\ SignedIn(b, a) /\ Besides

\* The sign-in page of the account itself asks for no authorization.
AccountLogin(b, a) == SignedIn(b, a) /\ Besides

LogOut(b, p) == BelongsTo(p, b) /\ SignedOut(b) /\ Besides

AccountLogout(b) == session[b].acct # None /\ SignedOut(b) /\ Besides

\* The session expires, or is revoked from elsewhere.
EndSession(b) == session[b].acct # None /\ SignedOut(b) /\ Besides

\* Fifteen minutes pass.
AgeSession(b) ==
  /\ session[b].recently
  /\ session' = [session EXCEPT ![b].recently = FALSE]
  /\ Besides

-----------------------------------------------------------------------------
(* GET and POST /consent.                                                  *)

\* To let an application write, one has to have signed in recently.
RecentEnough(p, s) == pending[p].scopes # {Reading} => s.recently

MayDecide(p) ==
  LET s == session[pending[p].browser] IN
  Live(p) /\ s.acct # None /\ RecentEnough(p, s)

Load(r, p) ==
  req' = [req EXCEPT ![r].pending = p, ![r].row = pending[p], ![r].acct = session[pending[p].browser].acct]

\* Slip: an approval of a dynamically registered client is kept too.
RememberableAny(c) == TRUE

\* Dynamically registered clients are asked for every time.
Rememberable(c) == c \notin Dcr

ShowConsent(r, p) ==
  /\ pc[r] = "idle" /\ MayDecide(p)
  /\ Load(r, p)
  /\ Goto(r, IF pending[p].client = App THEN "claim" ELSE "find")
  /\ UNCHANGED <<version, pushed, pending, session, consent, codes, denied, approved, recent>>

\* Slip: what was approved under another document still counts.
CoversAnyDocument(given, row) == ~given.lapsed /\ row.scopes \subseteq given.scopes

Covers(given, row) ==
  /\ ~given.lapsed
  /\ given.digest = row.digest
  /\ row.scopes \subseteq given.scopes

Remembered(r) == Rememberable(Row(r).client) /\ Covers(consent[req[r].acct][Row(r).client], Row(r))

FindRemembered(r) ==
  /\ pc[r] = "find" /\ Remembered(r)
  /\ Goto(r, "claim")
  /\ UNCHANGED <<version, pushed, pending, session, consent, req, codes, denied, approved, recent>>

\* Nothing covers the request: the consent page is shown.
AskPerson(r) ==
  /\ pc[r] = "find" /\ ~Remembered(r)
  /\ Finish(r)
  /\ UNCHANGED <<version, pushed, pending, session, consent, codes, denied, approved, recent>>

Approve(r, p) ==
  LET a == session[pending[p].browser].acct
      now == {a} \X {pending[p].client} \X {pending[p].digest} \X pending[p].scopes
  IN
  /\ pc[r] = "idle" /\ MayDecide(p)
  /\ Load(r, p)
  /\ approved' = approved \cup now /\ recent' = recent \cup now
  /\ Goto(r, IF Rememberable(pending[p].client) THEN "record" ELSE "claim")
  /\ UNCHANGED <<version, pushed, pending, session, consent, codes, denied>>

ReadConsent(r) ==
  /\ pc[r] = "record"
  /\ req' = [req EXCEPT ![r].before = consent[req[r].acct][Row(r).client]]
  /\ Goto(r, "upsert")
  /\ UNCHANGED <<version, pushed, pending, session, consent, codes, denied, approved, recent>>

\* A changed document resets what was approved under the old one.
Union(before, d, S) == IF before.digest = d THEN S \cup before.scopes ELSE S

WriteConsent(r) ==
  LET row == Row(r) IN
  /\ pc[r] = "upsert"
  /\ consent' = [consent EXCEPT ![req[r].acct][row.client] =
       [scopes |-> Union(req[r].before, row.digest, row.scopes), digest |-> row.digest, lapsed |-> FALSE]]
  /\ Goto(r, "claim")
  /\ UNCHANGED <<version, pushed, pending, session, req, codes, denied, approved, recent>>

-----------------------------------------------------------------------------
(* The end of an authorization.                                            *)

\* Slip: the row read at the start is taken as still there.
StillThereOnceRead(p) == pending[p].life # "free"

\* The DELETE of claimAndIssueCode finds the row, expired or not.
StillThere(p) == pending[p].life \in {"live", "expired"}

CodeFor(r) ==
  [pending |-> req[r].pending, push |-> Row(r).push, acct |-> req[r].acct,
   client |-> Row(r).client, digest |-> Row(r).digest, scopes |-> Row(r).scopes]

\* claimAndIssueCode: one transaction.
Claim(r) ==
  LET p == req[r].pending IN
  /\ pc[r] = "claim" /\ StillThere(p)
  /\ pending' = [pending EXCEPT ![p] = DeletedRow]
  /\ codes' = Append(codes, CodeFor(r))
  /\ Finish(r)
  /\ UNCHANGED <<version, pushed, session, consent, denied, approved, recent>>

AlreadyUsed(r) ==
  /\ pc[r] = "claim" /\ ~StillThere(req[r].pending)
  /\ Finish(r)
  /\ UNCHANGED <<version, pushed, pending, session, consent, codes, denied, approved, recent>>

\* /consent/deny and /authorize/cancel.
StartDeny(r, p) ==
  /\ pc[r] = "idle" /\ Live(p)
  /\ req' = [req EXCEPT ![r].pending = p]
  /\ Goto(r, "deny")
  /\ UNCHANGED <<version, pushed, pending, session, consent, codes, denied, approved, recent>>

\* The client is told of the denial whether or not there was a row left.
Deny(r) ==
  LET p == req[r].pending IN
  /\ pc[r] = "deny"
  /\ denied' = IF StillThere(p) THEN denied \cup {p} ELSE denied
  /\ pending' = [pending EXCEPT ![p] = DeletedRow]
  /\ Finish(r)
  /\ UNCHANGED <<version, pushed, session, consent, codes, approved, recent>>

-----------------------------------------------------------------------------
(* Time, and what lies outside.                                            *)

NewDocument(c) ==
  /\ version[c] < MaxVersion
  /\ version' = [version EXCEPT ![c] = @ + 1]
  /\ UNCHANGED <<pushed, pending, session, consent, pc, req, codes, denied, approved, recent>>

ExpirePushed(q) ==
  /\ pushed[q].life = "live"
  /\ pushed' = [pushed EXCEPT ![q] = DeletedPush]
  /\ UNCHANGED <<version, pending, session, consent, pc, req, codes, denied, approved, recent>>

ExpirePending(p) ==
  /\ pending[p].life = "live"
  /\ pending' = [pending EXCEPT ![p].life = "expired"]
  /\ UNCHANGED <<version, pushed, session, consent, pc, req, codes, denied, approved, recent>>

\* pruneExpiredOAuth.
PrunePending(p) ==
  /\ pending[p].life = "expired"
  /\ pending' = [pending EXCEPT ![p] = DeletedRow]
  /\ UNCHANGED <<version, pushed, session, consent, pc, req, codes, denied, approved, recent>>

\* The period of an approval ends, while nobody is recording another.
Lapse(a, c) ==
  /\ consent[a][c].scopes # {} /\ ~consent[a][c].lapsed
  /\ \A r \in Requests : pc[r] \in {"record", "upsert"} => req[r].acct # a \/ Row(r).client # c
  /\ consent' = [consent EXCEPT ![a][c].lapsed = TRUE]
  /\ recent' = {x \in recent : x[1] # a \/ x[2] # c}
  /\ UNCHANGED <<version, pushed, pending, session, pc, req, codes, denied, approved>>

Starting ==
  \E S \in SUBSET Scopes \ {{}}, c \in Clients :
    \/ \E q \in Pushes : Push(q, c, S)
    \/ \E p \in Pendings, b \in Browsers : Authorize(p, c, S, b)

Handling(r) ==
  \/ \E q \in Pushes : Take(r, q)
  \/ \E p \in Pendings, b \in Browsers : CreatePending(r, p, b)
  \/ RefusePushed(r)
  \/ \E p \in Pendings : ShowConsent(r, p) \/ Approve(r, p) \/ StartDeny(r, p)
  \/ FindRemembered(r) \/ AskPerson(r) \/ ReadConsent(r) \/ WriteConsent(r)
  \/ Claim(r) \/ AlreadyUsed(r) \/ Deny(r)

Signing(b) ==
  \/ \E a \in Accounts, p \in Pendings : SignIn(b, a, p)
  \/ \E a \in Accounts, p \in Pendings \cup {None} : SignInByPasskey(b, a, p)
  \/ \E a \in Accounts : AccountLogin(b, a)
  \/ (\E p \in Pendings : LogOut(b, p)) \/ AccountLogout(b)
  \/ EndSession(b) \/ AgeSession(b)

Outside ==
  \/ \E b \in Browsers : Signing(b)
  \/ \E c \in Cimd : NewDocument(c)
  \/ \E q \in Pushes : ExpirePushed(q)
  \/ \E p \in Pendings : ExpirePending(p) \/ PrunePending(p)
  \/ \E a \in Accounts, c \in Clients : Lapse(a, c)

Next == Starting \/ (\E r \in Requests : Handling(r)) \/ Outside

Spec == Init /\ [][Next]_vars

-----------------------------------------------------------------------------
(* Correctness.                                                            *)

\* However submissions, denials and reloads race, an authorization ends in one
\* code at most, in none once a denial has deleted it, and a pushed request
\* starts one authorization (claimAndIssueCode, deny, takePushedRequest).
OneOutcome ==
  /\ \A i, j \in 1..Len(codes) : i # j =>
       /\ codes[i].pending # codes[j].pending
       /\ codes[i].push = None \/ codes[i].push # codes[j].push
  /\ \A i \in 1..Len(codes) : codes[i].pending \notin denied

\* Every scope a code carries was approved by that account for that client, as
\* described by the very document the code was asked under, whatever other
\* approvals, documents and reloads went on (findRememberedConsent,
\* recordConsent).
CodeWasApproved ==
  \A i \in 1..Len(codes) : LET x == codes[i] IN
    x.client # App => {x.acct} \X {x.client} \X {x.digest} \X x.scopes \subseteq approved

\* An approval is reused "for an unverified client, for 30 days; for a verified
\* one, a year": what a live one holds was approved since the one before lapsed.
RememberedIsRecent ==
  \A a \in Accounts, c \in Clients : ~consent[a][c].lapsed =>
    {a} \X {c} \X {consent[a][c].digest} \X consent[a][c].scopes \subseteq recent
=============================================================================
