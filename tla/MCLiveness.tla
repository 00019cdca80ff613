----------------------------- MODULE MCLiveness -----------------------------
(* Instances of TokenStore and of Widgets for the checks of liveness.  They *)
(* share no state: a behaviour is of one of the two, the one that is `on'.  *)
EXTENDS TokenStore

CONSTANTS t1, t2, d1, w1, w2

VARIABLES on, version, rows, loaded, opened, shown, busy, call, pushed

viewVars == <<version, rows, loaded, opened, shown, busy, call, pushed>>

Views == INSTANCE Widgets WITH Devices <- {d1}, Calls <- {w1, w2}, MaxVersion <- 2

MCInit ==
  /\ on \in {"tokens", "views"}
  /\ Init /\ Views!Init
  /\ on = "tokens" => version = [d \in {d1} |-> 0]

\* Bounds: refresh tokens are presented by their own client (another's are refused
\* or revoked in the same steps), and t1 is drawn before t2.  No request that has
\* begun is held up by either.
Within ==
  \A p \in Requests :
    /\ client'[p] = "own"
    /\ minted'[p] = t2 /\ minted[p] # t2 => t1 \notin SpareTokens

MCNext ==
  /\ UNCHANGED on
  /\ \/ on = "tokens" /\ Next /\ Within /\ UNCHANGED viewVars
     \/ on = "views" /\ Views!Next /\ UNCHANGED vars

MCSpec == MCInit /\ [][MCNext]_<<on, vars, viewVars>> /\ Fairness /\ Views!Timers

NoSwitchIsStuck == Views!NoSwitchIsStuck
=============================================================================
