---------------------------- MODULE MCTokenStore ----------------------------
(* Instances of TokenStore for TLC.  The requests, codes, grants and tokens *)
(* of one instance multiply each other, so a behaviour is bounded by its    *)
(* profile, and TLC explores the three of them from one set of initial      *)
(* states:                                                                  *)
(*   "rotation": one grant with three token pairs, enough for two rotations *)
(*               in a row or racing, and windows that close;                *)
(*   "codes":    two codes and grants with two pairs, replays included;     *)
(*   "expiry":   time passes under one request after another, whose client  *)
(*               is any.                                                    *)
EXTENDS TokenStore, TLC

VARIABLE profile

MCInit == Init /\ profile \in {"rotation", "codes", "expiry"}

DrawnTokens == {t \in Tokens : family[t] # None \/ \E p \in Requests : minted[p] = t}
DrawnGrants == {g \in Grants : origin[g] # None \/ \E p \in Requests : grant[p] = g}
TriedCodes == (spent \cup {code[p] : p \in Requests}) \ {None}

Busy == {p \in Requests : pc[p] # "idle" \/ answer[p] # None}

Within ==
  /\ profile # "rotation" => Cardinality(DrawnTokens) <= 2
  /\ profile # "codes" => Cardinality(DrawnGrants) <= 1 /\ Cardinality(TriedCodes) <= 1
  /\ profile = "rotation" => \A p \in Requests : pc[p] # "lookup" /\ client[p] # "wrongKey"
  /\ profile = "codes" => \A p \in Requests : client[p] = "own"
  /\ profile = "expiry" => Cardinality(Busy) <= 1 /\ Cardinality(refExpired) <= 1

MCNext ==
  /\ \/ \E p \in Requests : Token(p) \/ Revoke(p) \/ Abort(p)
     \/ Restart
     \/ profile = "rotation" /\ \E t \in Tokens : CloseGrace(t) \/ ExpireSeal(t)
     \/ profile = "expiry" /\ Time
  /\ UNCHANGED profile
  /\ Within'

MCSpec == MCInit /\ [][MCNext]_<<vars, profile>>

Symmetry ==
  Permutations(Requests) \cup Permutations(Tokens) \cup Permutations(Codes) \cup Permutations(Grants)
=============================================================================
