--------------------------- MODULE DeviceRegister ---------------------------
(***************************************************************************)
(* What the device operations promise, each as one atomic step: an account *)
(* holds at most Cap devices, no two under one name; a device starts off   *)
(* at version 1, and each change flips it and takes the next version.      *)
(***************************************************************************)
EXTENDS Naturals, FiniteSets

CONSTANTS Accounts, Ids, Names, None, Cap

VARIABLES owner,   \* owner[d]: the account of device d; None: no such device
          name,    \* its normalized name
          state,   \* "on" or "off"
          version

vars == <<owner, name, state, version>>

Devices(a) == {d \in Ids : owner[d] = a}

Init ==
  /\ owner = [d \in Ids |-> None]
  /\ name = [d \in Ids |-> None]
  /\ state = [d \in Ids |-> "off"]
  /\ version = [d \in Ids |-> 0]

Create(a, n, d) ==
  /\ owner[d] = None
  /\ Cardinality(Devices(a)) < Cap
  /\ \A e \in Devices(a) : name[e] # n
  /\ owner' = [owner EXCEPT ![d] = a]
  /\ name' = [name EXCEPT ![d] = n]
  /\ version' = [version EXCEPT ![d] = 1]
  /\ UNCHANGED state

Switch(d) ==
  /\ owner[d] # None
  /\ state' = [state EXCEPT ![d] = IF @ = "on" THEN "off" ELSE "on"]
  /\ version' = [version EXCEPT ![d] = @ + 1]
  /\ UNCHANGED <<owner, name>>

Next ==
  \/ \E a \in Accounts, n \in Names, d \in Ids : Create(a, n, d)
  \/ \E d \in Ids : Switch(d)

Spec == Init /\ [][Next]_vars
=============================================================================
