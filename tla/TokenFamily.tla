---------------------------- MODULE TokenFamily ----------------------------
(***************************************************************************)
(* What the token endpoint promises, with every request as one atomic      *)
(* step.  A code is spent once and founds at most one grant; the refresh   *)
(* tokens of a grant form one line, each retired by the one minted in its  *)
(* place; a grant that ended stays ended.  TokenStore, where a request is  *)
(* a series of SQL statements, is shown to implement this module.          *)
(***************************************************************************)
EXTENDS Naturals

CONSTANTS Codes,   \* authorization codes
          Grants,  \* grant ids
          Tokens,  \* token pairs: an access token and the refresh token minted with it
          None     \* an absent column or row, and no id

VARIABLES spent,   \* codes consumed
          origin,  \* origin[g]: the code that founded grant g
          ended,   \* grants revoked
          family,  \* family[t]: the grant pair t was issued under
          next     \* next[t]: the pair that retired refresh token t

vars == <<spent, origin, ended, family, next>>

Init ==
  /\ spent = {}
  /\ origin = [g \in Grants |-> None]
  /\ ended = {}
  /\ family = [t \in Tokens |-> None]
  /\ next = [t \in Tokens |-> None]

Spend(c) ==
  /\ c \notin spent
  /\ spent' = spent \cup {c}
  /\ UNCHANGED <<origin, ended, family, next>>

\* A spent code founds its grant, with the first pair of the line.
Found(c, g, t) ==
  /\ c \in spent
  /\ \A h \in Grants : origin[h] # c
  /\ origin[g] = None
  /\ family[t] = None
  /\ origin' = [origin EXCEPT ![g] = c]
  /\ family' = [family EXCEPT ![t] = g]
  /\ UNCHANGED <<spent, ended, next>>

\* The head of a line is retired by a new pair of the same grant.
Advance(t, n) ==
  /\ family[t] # None
  /\ next[t] = None
  /\ family[n] = None
  /\ family' = [family EXCEPT ![n] = family[t]]
  /\ next' = [next EXCEPT ![t] = n]
  /\ UNCHANGED <<spent, origin, ended>>

End(g) ==
  /\ origin[g] # None
  /\ ended' = ended \cup {g}
  /\ UNCHANGED <<spent, origin, family, next>>

Next ==
  \/ \E c \in Codes : Spend(c)
  \/ \E c \in Codes, g \in Grants, t \in Tokens : Found(c, g, t)
  \/ \E t, n \in Tokens : Advance(t, n)
  \/ \E g \in Grants : End(g)

Spec == Init /\ [][Next]_vars
=============================================================================
