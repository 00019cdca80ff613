---------------------------- MODULE DeviceViews ----------------------------
(***************************************************************************)
(* The two device screens of the iOS app: DevicesViewModel, and over it    *)
(* DeviceDetailViewModel, both by way of DeviceControlService, with        *)
(* additions from AddDeviceViewModel.  All run on the main actor; a call is*)
(* one await, and its answer may be overtaken by others.                   *)
(*                                                                         *)
(* A device is known by its version, which changes with its state; 0: it is*)
(* not there.  Devices are never deleted, so no answer is notFound, and the*)
(* end of the session, which replaces the screens, ends the model.         *)
(***************************************************************************)
EXTENDS Naturals

CONSTANTS
  Devices, Calls, None,
  MaxVersion \* bound: the changes of a device

VARIABLES
  version,        \* the server's devices
  rows,           \* devices of the list, by version
  phase,          \* of the list: "loading", "loaded", "failed"
  loadSequence,   \* the load begun last, None once it has ended
  hasLoaded,
  pendingIntents,
  detail,         \* [device, version] of the detail screen opened last
  detailIntent,   \* its pendingIntent # nil
  call            \* the calls awaited: see Free

vars == <<version, rows, phase, loadSequence, hasLoaded, pendingIntents, detail, detailIntent, call>>

Lists == [Devices -> 0..MaxVersion]
Awaits == {"list", "control", "read", "add"}

\* by: the screen or form that awaits; held: startingIDs of a load; says and
\* seen: the answer, "lost" for unknownOutcome.
Free == [by |-> None, does |-> None, device |-> None, expect |-> 0, held |-> {}, says |-> None, seen |-> None]

TypeOK ==
  /\ version \in Lists /\ rows \in Lists
  /\ phase \in {"loading", "loaded", "failed"}
  /\ loadSequence \in Calls \cup {None}
  /\ hasLoaded \in BOOLEAN /\ detailIntent \in BOOLEAN
  /\ pendingIntents \subseteq Devices
  /\ detail \in [device : Devices, version : 1..MaxVersion] \cup {None}
  /\ call \in [Calls ->
       [by : {"first", "list", "row", "detail", "form", None}, does : Awaits \cup {None}, device : Devices \cup {None},
        expect : 0..MaxVersion, held : SUBSET Devices, says : {None, "ok", "conflict", "lost", "error"},
        seen : Lists \cup {None}]]

\* loadIfNeeded: the list appears, and its first load begins.
Init ==
  \E first \in Calls :
    /\ version \in [Devices -> 0..1]
    /\ rows = [d \in Devices |-> 0] /\ phase = "loading" /\ loadSequence = first /\ hasLoaded = FALSE
    /\ pendingIntents = {} /\ detail = None /\ detailIntent = FALSE
    /\ call = [c \in Calls |-> IF c = first THEN [Free EXCEPT !.by = "first", !.does = "list"] ELSE Free]

Listed == {d \in Devices : rows[d] > 0}

Await(c, by, does, d, expect) ==
  /\ call[c] = Free
  /\ call' = [call EXCEPT ![c] = [Free EXCEPT !.by = by, !.does = does, !.device = d, !.expect = expect]]

Over(c) == call' = [call EXCEPT ![c] = Free]

-----------------------------------------------------------------------------
(* What a person does.                                                     *)

\* load, until its await.
Load(c, by, initial, held) ==
  /\ loadSequence' = c
  /\ phase' = IF initial THEN "loading" ELSE phase
  /\ call' = [call EXCEPT ![c] = [Free EXCEPT !.by = by, !.does = "list", !.held = held]]

Retry(c) ==
  /\ phase = "failed" /\ call[c] = Free
  /\ Load(c, "list", TRUE, Listed)
  /\ UNCHANGED <<version, rows, hasLoaded, pendingIntents, detail, detailIntent>>

\* The list is pulled, or the app comes to the foreground.
Refresh(c) ==
  /\ hasLoaded \/ (phase = "loaded" /\ Listed # {})
  /\ call[c] = Free
  /\ Load(c, "list", FALSE, Listed)
  /\ UNCHANGED <<version, rows, hasLoaded, pendingIntents, detail, detailIntent>>

SetState(c, d) ==
  /\ phase = "loaded" /\ rows[d] > 0 /\ d \notin pendingIntents
  /\ pendingIntents' = pendingIntents \cup {d}
  /\ Await(c, "row", "control", d, rows[d])
  /\ UNCHANGED <<version, rows, phase, loadSequence, hasLoaded, detail, detailIntent>>

\* Bound: the calls of a detail screen end before the next one opens.
OpenDetail(c, d) ==
  /\ phase = "loaded" /\ rows[d] > 0
  /\ \A k \in Calls : call[k].by # "detail"
  /\ detail' = [device |-> d, version |-> rows[d]]
  /\ Await(c, "detail", "read", d, 0)
  /\ UNCHANGED <<version, rows, phase, loadSequence, hasLoaded, pendingIntents, detailIntent>>

SetDetailState(c) ==
  /\ detail # None /\ ~detailIntent
  /\ detailIntent' = TRUE
  /\ Await(c, "detail", "control", detail.device, detail.version)
  /\ UNCHANGED <<version, rows, phase, loadSequence, hasLoaded, pendingIntents, detail>>

Submit(c, d) ==
  /\ \A k \in Calls : call[k].by # "form"
  /\ Await(c, "form", "add", d, 0)
  /\ UNCHANGED <<version, rows, phase, loadSequence, hasLoaded, pendingIntents, detail, detailIntent>>

-----------------------------------------------------------------------------
(* The server.                                                             *)

Becomes(q) ==
  CASE q.does = "control" /\ version[q.device] = q.expect -> [version EXCEPT ![q.device] = @ + 1]
    [] q.does = "add" /\ version[q.device] = 0            -> [version EXCEPT ![q.device] = 1]
    [] OTHER                                              -> version

\* A name that is there was taken elsewhere, or by an earlier try of the form,
\* whose device its key finds.
Says(q) ==
  CASE q.does = "control"                       -> {IF version[q.device] = q.expect THEN "ok" ELSE "conflict"}
    [] q.does = "add" /\ version[q.device] # 0  -> {"ok", "error"}
    [] OTHER                                    -> {"ok"}

Serve(c) ==
  LET q == call[c] IN
  /\ q.does # None /\ q.says = None
  /\ version' = Becomes(q) /\ version' \in Lists
  /\ \E says \in Says(q) : call' = [call EXCEPT ![c] = [q EXCEPT !.says = says, !.seen = version']]
  /\ UNCHANGED <<rows, phase, loadSequence, hasLoaded, pendingIntents, detail, detailIntent>>

\* Refused, or no answer: of a change it is unknown then if it was made, or
\* will be yet (Elsewhere).
Fail(c) ==
  LET q == call[c] IN
  /\ q.does # None /\ q.says = None
  /\ \/ version' = version /\ call' = [call EXCEPT ![c] = [q EXCEPT !.says = "error"]]
     \/ /\ q.does \in {"control", "add"}
        /\ version' \in {version, Becomes(q)} \cap Lists
        /\ call' = [call EXCEPT ![c] = [q EXCEPT !.says = "lost"]]
  /\ UNCHANGED <<rows, phase, loadSequence, hasLoaded, pendingIntents, detail, detailIntent>>

Elsewhere(d) ==
  /\ version[d] < MaxVersion
  /\ version' = [version EXCEPT ![d] = @ + 1]
  /\ UNCHANGED <<rows, phase, loadSequence, hasLoaded, pendingIntents, detail, detailIntent, call>>

-----------------------------------------------------------------------------
(* The rest of a call, once its answer is there.                           *)

Later(a, b) == IF a > b THEN a ELSE b

\* Slip: what a load brings is taken as it is.
Fetched(q) == [d \in Devices |-> IF q.seen[d] > 0 THEN q.seen[d] ELSE IF d \in q.held THEN 0 ELSE rows[d]]

\* Newer confirmations are kept, and additions made while the load ran.
Merged(q) == [d \in Devices |-> IF q.seen[d] > 0 THEN Later(rows[d], q.seen[d]) ELSE IF d \in q.held THEN 0 ELSE rows[d]]

\* A failure that is no APIError, as of the keychain, puts even a list that has
\* devices off the screen.
Loaded(c) ==
  LET q == call[c] IN
  /\ q.does = "list" /\ q.says # None
  /\ hasLoaded' = (hasLoaded \/ q.by = "first")
  /\ IF loadSequence # c
     THEN UNCHANGED <<rows, phase, loadSequence>>
     ELSE /\ loadSequence' = None
          /\ rows' = IF q.says = "ok" THEN Merged(q) ELSE rows
          /\ phase' \in IF q.says = "ok" THEN {"loaded"} ELSE IF Listed = {} THEN {"failed"} ELSE {phase, "failed"}
  /\ Over(c)
  /\ UNCHANGED <<version, pendingIntents, detail, detailIntent>>

\* replace.
Replace(d, v) == rows' = IF rows[d] > 0 THEN [rows EXCEPT ![d] = Later(@, v)] ELSE rows

\* adopt, and deviceChangedElsewhere with it.
Adopt(d, v) ==
  IF v >= detail.version
  THEN detail' = [device |-> d, version |-> v] /\ Replace(d, v)
  ELSE UNCHANGED <<detail, rows>>

\* The outcome a screen is told: a device, or none.
Told(q) ==
  \/ q.says # "ok" /\ UNCHANGED <<rows, detail>>
  \/ q.says = "ok" /\ q.by = "row" /\ Replace(q.device, q.seen[q.device]) /\ UNCHANGED detail
  \/ q.says = "ok" /\ q.by = "detail" /\ Adopt(q.device, q.seen[q.device])

\* A read by the detail screen for its own sake has no change it belongs to.
GivenBack(q) ==
  /\ pendingIntents' = IF q.by = "row" THEN pendingIntents \ {q.device} ELSE pendingIntents
  /\ detailIntent' = (detailIntent /\ ~(q.by = "detail" /\ q.expect > 0))

Controlled(c) ==
  LET q == call[c] IN
  /\ q.does \in {"control", "read"} /\ q.says \in {"ok", "error"}
  /\ Told(q) /\ GivenBack(q) /\ Over(c)
  /\ UNCHANGED <<version, phase, loadSequence, hasLoaded>>

\* After a conflict, or a change of unknown outcome, the device is read first.
Reconcile(c) ==
  LET q == call[c] IN
  /\ q.does = "control" /\ q.says \in {"conflict", "lost"}
  /\ call' = [call EXCEPT ![c] = [q EXCEPT !.does = "read", !.says = None, !.seen = None]]
  /\ UNCHANGED <<version, rows, phase, loadSequence, hasLoaded, pendingIntents, detail, detailIntent>>

\* deviceWasAdded: its Task reloads the list.
Added(c) ==
  LET q == call[c]
      v == q.seen[q.device]
  IN
  /\ q.does = "add" /\ q.says = "ok"
  /\ rows' = [rows EXCEPT ![q.device] = Later(@, v)]
  /\ Load(c, "list", FALSE, Listed \cup {q.device})
  /\ UNCHANGED <<version, hasLoaded, pendingIntents, detail, detailIntent>>

NotAdded(c) ==
  /\ call[c].does = "add" /\ call[c].says \in {"error", "lost"}
  /\ Over(c)
  /\ UNCHANGED <<version, rows, phase, loadSequence, hasLoaded, pendingIntents, detail, detailIntent>>

Next ==
  \/ \E c \in Calls :
       \/ Retry(c) \/ Refresh(c) \/ SetDetailState(c)
       \/ \E d \in Devices : SetState(c, d) \/ OpenDetail(c, d) \/ Submit(c, d)
       \/ Serve(c) \/ Fail(c)
       \/ Loaded(c) \/ Controlled(c) \/ Reconcile(c) \/ Added(c) \/ NotAdded(c)
  \/ \E d \in Devices : Elsewhere(d)

Spec == Init /\ [][Next]_vars

-----------------------------------------------------------------------------
(* Correctness.                                                            *)

\* However loads, switches, additions and the reads after them overtake one
\* another, no screen goes back to an older state of a device, and no device
\* that was shown disappears (load, replace, adopt).
ShownNeverGoesBack ==
  [][/\ \A d \in Devices : rows'[d] >= rows[d]
     /\ detail # None /\ detail'.device = detail.device => detail'.version >= detail.version]_vars

\* "We still have something real to show, so keep showing it"
\* (DevicesViewModel.swift:103): with devices to show and no load under way,
\* nobody is left looking at the loading indicator.
ShowsWhatItHas == Listed # {} /\ loadSequence = None => phase # "loading"
=============================================================================
