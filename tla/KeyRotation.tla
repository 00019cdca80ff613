---------------------------- MODULE KeyRotation ----------------------------
(***************************************************************************)
(* The peppers that token hashes are keyed with: the envelope file of      *)
(* security/kms.ts, the commands of tools/keys/run.ts that rewrite it, and *)
(* tokens/hash.ts in processes that have read it at different times.       *)
(*                                                                         *)
(* A command reads the file, waits for the KMS, and writes the whole file. *)
(* A pepper stands for the tokens stored under it; signing keys matter only*)
(* as the other reason for which the file is rewritten.                    *)
(***************************************************************************)
EXTENDS Naturals, Sequences, SequencesExt

CONSTANTS
  Processes,
  Commands,  \* runs of the key command
  None,
  MaxPeppers \* bound: peppers made

VARIABLES
  file,    \* tokenPeppers of the envelope, current first; <<>>: there is no file
  made,    \* how many peppers were made
  loaded,  \* what each process has read; <<>>: it is not running
  opening, \* the pepper a process has made for a file it did not find, or None
  cmd,     \* the commands under way: [does, read]
  live,    \* the peppers that tokens which have not expired are stored under
  overlapped \* history: a command wrote over another's change

vars == <<file, made, loaded, opening, cmd, live, overlapped>>

Peppers == 1..MaxPeppers
Idle == [does |-> "nothing", read |-> <<>>]

TypeOK ==
  /\ file \in SeqOf(Peppers, 2)
  /\ made \in 0..MaxPeppers
  /\ loaded \in [Processes -> SeqOf(Peppers, 2)]
  /\ opening \in [Processes -> Peppers \cup {None}]
  /\ cmd \in [Commands -> [does : {"nothing", "rotate-pepper", "rotate-signing"}, read : SeqOf(Peppers, 2)]]
  /\ live \subseteq Peppers
  /\ overlapped \in BOOLEAN

Init ==
  /\ file = <<>> /\ made = 0
  /\ loaded = [p \in Processes |-> <<>>] /\ opening = [p \in Processes |-> None]
  /\ cmd = [c \in Commands |-> Idle]
  /\ live = {} /\ overlapped = FALSE

\* openEnvelope: without a file, its keys are made first.
Open(p) ==
  /\ opening[p] = None
  /\ IF file = <<>>
     THEN /\ made < MaxPeppers
          /\ made' = made + 1 /\ opening' = [opening EXCEPT ![p] = made + 1]
          /\ UNCHANGED loaded
     ELSE loaded' = [loaded EXCEPT ![p] = file] /\ UNCHANGED <<made, opening>>
  /\ UNCHANGED <<file, cmd, live, overlapped>>

\* The flag wx: of two processes that found none, one does not start.
Create(p) ==
  /\ opening[p] # None
  /\ opening' = [opening EXCEPT ![p] = None]
  /\ IF file = <<>>
     THEN file' = <<opening[p]>> /\ loaded' = [loaded EXCEPT ![p] = file']
     ELSE UNCHANGED <<file, loaded>>
  /\ UNCHANGED <<made, cmd, live, overlapped>>

\* tokenDigestCandidates: the peppers a token is looked up under.
Candidates(p) == ToSet(loaded[p])

Stop(p) ==
  /\ loaded[p] # <<>>
  /\ loaded' = [loaded EXCEPT ![p] = <<>>]
  /\ UNCHANGED <<file, made, opening, cmd, live, overlapped>>

\* tokenDigest.
Mint(p) ==
  /\ loaded[p] # <<>>
  /\ live' = live \cup {Head(loaded[p])}
  /\ UNCHANGED <<file, made, loaded, opening, cmd, overlapped>>

\* Tokens live 30 days at most.
Expire(k) ==
  /\ live' = live \ {k}
  /\ UNCHANGED <<file, made, loaded, opening, cmd, overlapped>>

\* 90 days after the last one: every process was restarted since, and what was
\* stored under an older pepper has expired.
Due ==
  /\ live \subseteq {Head(file)}
  /\ \A p \in Processes : loaded[p] # <<>> => Head(loaded[p]) = Head(file)

Run(c, does) ==
  /\ file # <<>> /\ cmd[c] = Idle
  /\ does = "rotate-pepper" => Due
  /\ cmd' = [cmd EXCEPT ![c] = [does |-> does, read |-> file]]
  /\ UNCHANGED <<file, made, loaded, opening, live, overlapped>>

\* Slip: the pepper before is left out.
OnlyThe(new, read) == <<new>>

Rotated(new, read) == <<new, Head(read)>>

Write(c) ==
  /\ cmd[c] # Idle
  /\ cmd' = [cmd EXCEPT ![c] = Idle]
  /\ overlapped' = (overlapped \/ cmd[c].read # file)
  /\ IF cmd[c].does = "rotate-pepper"
     THEN made < MaxPeppers /\ made' = made + 1 /\ file' = Rotated(made', cmd[c].read)
     ELSE file' = cmd[c].read /\ UNCHANGED made
  /\ UNCHANGED <<loaded, opening, live>>

Next ==
  \/ \E p \in Processes : Open(p) \/ Create(p) \/ Stop(p) \/ Mint(p)
  \/ \E k \in live : Expire(k)
  \/ \E c \in Commands : Write(c) \/ \E does \in {"rotate-pepper", "rotate-signing"} : Run(c, does)

Spec == Init /\ [][Next]_vars

-----------------------------------------------------------------------------
(* Correctness.                                                            *)

\* A process finds every token that lives, except that one not yet restarted
\* after a rotation misses those stored under the newest pepper: when processes
\* are started and stopped in any order around a rotation, and race to make the
\* first file.  Only commands that overlap can lose a pepper in use
\* (tokenDigestCandidates, rotateTokenPepper, createEnvelope).
LoadedVerifies ==
  \A p \in Processes :
    loaded[p] # <<>> /\ ~overlapped
      => live \subseteq Candidates(p) \cup (IF loaded[p] = file THEN {} ELSE {Head(file)})
=============================================================================
