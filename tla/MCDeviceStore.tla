--------------------------- MODULE MCDeviceStore ----------------------------
(* Instances of DeviceStore for TLC.                                       *)
EXTENDS DeviceStore, TLC

\* Bounds: one caller at a time sends a version it has not read, to turn on a device
\* that an account of its own may come to have.
Guesses == {p \in Requests : req[p].dev # None /\ ~req[p].known}
Within ==
  /\ Cardinality(Guesses) <= 1
  /\ \A p \in Guesses : req[p].acct \in Adders /\ req[p].want = "on"

MCSpec == Init /\ [][Next /\ Within']_vars

\* Accounts that create devices are not interchangeable with those that do not.
Symmetry == Permutations(Requests) \cup Permutations(Ids) \cup Permutations(Names)
=============================================================================
