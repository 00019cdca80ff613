------------------------------ MODULE MCAccess ------------------------------
(* Instances of AccountAccess, of Passkeys and of WriteLimits for TLC.  A   *)
(* sign-in by passkey hands nothing but the account to AccountAccess, and   *)
(* budgets are spent by grants that are good, so a behaviour is of one of   *)
(* the three.                                                               *)
EXTENDS AccountAccess, FiniteSets, TLC

CONSTANTS Challenges, Accounts, Browsers, Keys, Maker, Cap, MaxCount  \* of Passkeys
CONSTANTS Devices, PerGrant, PerDevice, Window, Latency, MaxTime, MaxHits  \* of WriteLimits

ASSUME PasskeysHaveMakers == Maker \in [Keys -> Accounts]
ASSUME OwnersAreIds ==
  Accounts \cap Browsers = {} /\ {"free", "gone", None} \cap (Accounts \cup Browsers) = {}
ASSUME NoneIsNoKey == None \notin Challenges \cup Keys
ASSUME PasskeyBounds == Cap \in Nat \ {0} /\ MaxCount \in Nat /\ IsFiniteSet(Requests)

ASSUME LimitsAreNat ==
  IsFiniteSet(Requests) /\ PerGrant \in Nat /\ PerDevice \in Nat /\ Window \in Nat \ {0} /\
  Latency \in Nat /\ MaxTime \in Nat

OneMaker == [k \in Keys |-> CHOOSE a \in Accounts : TRUE]

VARIABLES
  part, challenge, passkey, rows, kpc, kreq, accepted,
  kind, now, window, wpc, wreq, writes, forgotten

keyVars == <<challenge, passkey, rows, kpc, kreq, accepted>>
limitVars == <<kind, now, window, wpc, wreq, writes, forgotten>>

Passkey == INSTANCE Passkeys WITH pc <- kpc, req <- kreq

Limits == INSTANCE WriteLimits WITH pc <- wpc, req <- wreq, lost <- forgotten

MCInit ==
  /\ part \in {"access", "passkeys", "limits"}
  /\ Init /\ Passkey!Init /\ Limits!Init
  /\ part # "limits" => kind = "memory"
MCNext ==
  /\ UNCHANGED part
  /\ \/ part = "access" /\ Next /\ UNCHANGED <<keyVars, limitVars>>
     \/ part = "passkeys" /\ Passkey!Next /\ UNCHANGED <<vars, limitVars>>
     \/ part = "limits" /\ Limits!Next /\ UNCHANGED <<vars, keyVars>>
MCSpec == MCInit /\ [][MCNext]_<<vars, keyVars, limitVars, part>>

AcceptedInOrder == Passkey!AcceptedInOrder
PasskeysNearlyCapped == Passkey!CapNearlyHolds
AtMostTwice == Limits!AtMostTwice

Symmetry == Permutations(Requests) \cup Permutations(Sessions)
=============================================================================
