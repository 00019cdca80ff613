------------------------------ MODULE Widgets ------------------------------
(***************************************************************************)
(* The views of mcp/ui/assets in a chat: the list (devices.js), one device *)
(* (device.js), the form (add-device.js) and the entry card (auth.js), each*)
(* with a copy of bridge.js, on a host that forwards their calls, answers  *)
(* them in any order, late, or never.                                      *)
(*                                                                         *)
(* A device is known by its version, which changes with its state; 0: it is*)
(* not there.  Devices are never deleted, so no answer is DEVICE_NOT_FOUND.*)
(***************************************************************************)
EXTENDS Naturals

CONSTANTS
  Devices, Calls, None,
  MaxVersion \* bound: the changes of a device

VARIABLES
  version, \* the server's devices
  rows,    \* devices.js: devices
  loaded,
  opened,  \* it has started
  shown,   \* device.js: [device, version]
  busy,    \* pending of both, by device or "switch", and the buttons disabled
  call,    \* the bridges' requests: see Free
  pushed   \* the tool result that rendered a view, until the host delivers it

vars == <<version, rows, loaded, opened, shown, busy, call, pushed>>

Views == {"list", "device"}
Controls == Devices \cup {"switch", "submit", "login"}
Makers == Controls \cup {"refresh", "reread"}
Tools == {"list_devices", "get_device", "control_device", "add_device"}
Lists == [Devices -> 0..MaxVersion]

\* by: what it is for; timed: pending, with its timer; says and seen: the answer.
Free == [by |-> None, does |-> None, device |-> None, expect |-> 0, timed |-> FALSE, says |-> None, seen |-> None]

TypeOK ==
  /\ version \in Lists /\ rows \in Lists
  /\ loaded \in BOOLEAN /\ opened \in BOOLEAN
  /\ shown \in [device : Devices, version : 1..MaxVersion] \cup {None}
  /\ busy \subseteq Controls
  /\ call \in [Calls ->
       [by : Makers \cup {None}, does : Tools \cup {None}, device : Devices \cup {None}, expect : 0..MaxVersion,
        timed : BOOLEAN, says : {None, "ok", "conflict", "error"}, seen : Lists \cup {None}]]
  /\ pushed \in [Views -> Lists \cup {None}]

Init ==
  /\ version \in [Devices -> 0..1]
  /\ rows = [d \in Devices |-> 0] /\ loaded = FALSE /\ opened = FALSE
  /\ shown = None /\ busy = {}
  /\ call = [c \in Calls |-> Free]
  /\ pushed = [v \in Views |-> version]

-----------------------------------------------------------------------------
(* What a person does.                                                     *)

\* request: posted, and pending with a timer.
Ask(c, by, does, d, expect) ==
  /\ call[c] = Free
  /\ call' = [call EXCEPT ![c] = [Free EXCEPT !.by = by, !.does = does, !.device = d, !.expect = expect, !.timed = TRUE]]

Flip(c, d) ==
  /\ rows[d] > 0 /\ d \notin busy
  /\ busy' = busy \cup {d}
  /\ Ask(c, d, "control_device", d, rows[d])
  /\ UNCHANGED <<version, rows, loaded, opened, shown, pushed>>

Switch(c) ==
  /\ shown # None /\ "switch" \notin busy
  /\ busy' = busy \cup {"switch"}
  /\ Ask(c, "switch", "control_device", shown.device, shown.version)
  /\ UNCHANGED <<version, rows, loaded, opened, shown, pushed>>

Refresh(c) ==
  /\ Ask(c, "refresh", "list_devices", None, 0)
  /\ UNCHANGED <<version, rows, loaded, opened, shown, busy, pushed>>

Reread(c) ==
  /\ shown # None
  /\ Ask(c, "reread", "get_device", shown.device, 0)
  /\ UNCHANGED <<version, rows, loaded, opened, shown, busy, pushed>>

Submit(c, d) ==
  /\ "submit" \notin busy
  /\ busy' = busy \cup {"submit"}
  /\ Ask(c, "submit", "add_device", d, 0)
  /\ UNCHANGED <<version, rows, loaded, opened, shown, pushed>>

Begin(c) ==
  /\ "login" \notin busy
  /\ busy' = busy \cup {"login"}
  /\ Ask(c, "login", "list_devices", None, 0)
  /\ UNCHANGED <<version, rows, loaded, opened, shown, pushed>>

\* app.start has its answer.
Start(c) ==
  /\ ~opened
  /\ opened' = TRUE
  /\ IF loaded THEN UNCHANGED call ELSE Ask(c, "refresh", "list_devices", None, 0)
  /\ UNCHANGED <<version, rows, loaded, shown, busy, pushed>>

-----------------------------------------------------------------------------
(* The host, and the server behind it.                                     *)

Becomes(q) ==
  CASE q.does = "control_device" /\ version[q.device] = q.expect -> [version EXCEPT ![q.device] = @ + 1]
    [] q.does = "add_device" /\ version[q.device] = 0            -> [version EXCEPT ![q.device] = 1]
    [] OTHER                                                     -> version

Says(q) ==
  CASE q.does = "control_device" -> IF version[q.device] = q.expect THEN "ok" ELSE "conflict"
    [] q.does = "add_device"     -> IF version[q.device] = 0 THEN "ok" ELSE "error"
    [] OTHER                     -> "ok"

Forward(c) ==
  LET q == call[c] IN
  /\ q # Free /\ q.says = None
  /\ version' = Becomes(q) /\ version' \in Lists
  /\ call' = [call EXCEPT ![c] = IF q.timed THEN [q EXCEPT !.says = Says(q), !.seen = version'] ELSE Free]
  /\ UNCHANGED <<rows, loaded, opened, shown, busy, pushed>>

\* The host declines, or what it forwarded fails, performed or not.
Fail(c) ==
  LET q == call[c] IN
  /\ q # Free /\ q.says = None
  /\ version' \in {version, Becomes(q)} \cap Lists
  /\ call' = [call EXCEPT ![c] = IF q.timed THEN [q EXCEPT !.says = "error"] ELSE Free]
  /\ UNCHANGED <<rows, loaded, opened, shown, busy, pushed>>

Elsewhere(d) ==
  /\ version[d] < MaxVersion
  /\ version' = [version EXCEPT ![d] = @ + 1]
  /\ UNCHANGED <<rows, loaded, opened, shown, busy, call, pushed>>

\* ui/notifications/tool-result.
PushList ==
  /\ pushed["list"] # None
  /\ rows' = pushed["list"] /\ loaded' = TRUE
  /\ pushed' = [pushed EXCEPT !["list"] = None]
  /\ UNCHANGED <<version, opened, shown, busy, call>>

PushDevice(d) ==
  /\ pushed["device"] # None
  /\ pushed["device"][d] > 0
  /\ shown' = [device |-> d, version |-> pushed["device"][d]]
  /\ pushed' = [pushed EXCEPT !["device"] = None]
  /\ UNCHANGED <<version, rows, loaded, opened, busy, call>>

-----------------------------------------------------------------------------
(* A view has the outcome of its call: the answer or, 60 seconds on, the   *)
(* rejection of the bridge.                                                *)

\* Slip: a rejection ends the chain before the control is given back.
IfFulfilled(q, outcome) == IF outcome = "ok" THEN busy \ {q.by} ELSE busy

\* The last .then of each handler.
GivenBack(q, outcome) == busy \ {q.by}

\* load and replace.
ListShows(q) ==
  CASE q.by \in Devices \cup {"refresh"} /\ q.does = "list_devices" -> q.seen
    [] q.by \in Devices /\ q.does = "control_device"                -> [rows EXCEPT ![q.by] = q.seen[q.by]]
    [] OTHER                                                        -> rows

DeviceShows(q) ==
  IF q.by \in {"switch", "reread"} THEN [device |-> q.device, version |-> q.seen[q.device]] ELSE shown

Outcome(c, outcome) ==
  LET q == call[c] IN
  /\ busy' = GivenBack(q, outcome)
  /\ IF outcome = "ok"
     THEN /\ rows' = ListShows(q) /\ shown' = DeviceShows(q)
          /\ loaded' = (loaded \/ (q.does = "list_devices" /\ q.by # "login"))
     ELSE UNCHANGED <<rows, shown, loaded>>

Answered(c) ==
  /\ call[c].timed /\ call[c].says \in {"ok", "error"}
  /\ Outcome(c, call[c].says)
  /\ call' = [call EXCEPT ![c] = Free]
  /\ UNCHANGED <<version, opened, pushed>>

\* Refetch first, then explain; the control is given back after that.
Conflict(c) ==
  LET q == call[c] IN
  /\ q.timed /\ q.says = "conflict"
  /\ call' = [call EXCEPT ![c] =
       [Free EXCEPT !.by = q.by, !.timed = TRUE, !.device = q.device,
                    !.does = IF q.by = "switch" THEN "get_device" ELSE "list_devices"]]
  /\ UNCHANGED <<version, rows, loaded, opened, shown, busy, pushed>>

\* An answer after this finds nothing pending, and is dropped.
Timeout(c) ==
  /\ call[c].timed
  /\ Outcome(c, "timeout")
  /\ call' = [call EXCEPT ![c] = IF @.says = None THEN [@ EXCEPT !.timed = FALSE] ELSE Free]
  /\ UNCHANGED <<version, opened, pushed>>

Next ==
  \/ \E c \in Calls :
       \/ \E d \in Devices : Flip(c, d) \/ Submit(c, d)
       \/ Switch(c) \/ Refresh(c) \/ Reread(c) \/ Begin(c) \/ Start(c)
       \/ Forward(c) \/ Fail(c) \/ Answered(c) \/ Conflict(c) \/ Timeout(c)
  \/ \E d \in Devices : Elsewhere(d) \/ PushDevice(d)
  \/ PushList

\* Of the host nothing is assumed, not that it ever answers.
Timers == \A c \in Calls : WF_vars(Timeout(c))

Spec == Init /\ [][Next]_vars /\ Timers

-----------------------------------------------------------------------------
(* Correctness.                                                            *)

\* Whatever host and server do, a switch, the form and the card's buttons are
\* usable again some time after use: through refusal, conflict and the reload
\* it calls for, silence, and answers that come too late (request, control,
\* submit, begin).
NoSwitchIsStuck == \A control \in Controls : control \in busy ~> control \notin busy
=============================================================================
