------------------------------ MODULE Database ------------------------------
(***************************************************************************)
(* Transactions over a pooled connection (db/pg.ts), and the processes that*)
(* migrate one schema as they start (db/index.ts), on a server that is slow*)
(* to answer, or gone.                                                     *)
(*                                                                         *)
(* A process runs one transaction at a time here; others would run over    *)
(* connections of their own.  A client that gives up on a statement has not*)
(* taken it back: what it sends next waits behind it.                      *)
(***************************************************************************)
EXTENDS Naturals, Sequences, FiniteSets

CONSTANTS
  Processes, Sessions, None,
  Migrations, \* how many MIGRATIONS there are
  MaxWork     \* bound: transactions after them

VARIABLES
  kept,    \* the server: statements whose transaction has committed
  session, \* and its connections: see Closed
  lock,    \* the advisory lock: the connection that holds it
  client,  \* per process, its pool: the connection it has
  pc,      \* the statement it awaits, "idle" between transactions, "rest"
           \* after the last of MaxWork, or "down"
  job,     \* the transaction it is at: 0, a migration, or later work
  begun,   \* how much work was begun
  sent     \* history: the jobs for which COMMIT was sent

vars == <<kept, session, lock, client, pc, job, begun, sent>>

Jobs == 0..(Migrations + MaxWork)
Changes == {"TABLE", "APPLY", "RECORD", "WORK"}
Statements == Changes \cup {"BEGIN", "LOCK", "CHECK", "COMMIT", "ROLLBACK"}
Done == [does : Statements, job : Jobs]

\* queue: statements it has not performed, of which it sees the first; gone:
\* nobody is at its other end.
Closed == [live |-> FALSE, gone |-> FALSE, tx |-> "none", wrote |-> {}, queue |-> <<>>]

TypeOK ==
  /\ kept \subseteq Done
  /\ session \in [Sessions -> [live : BOOLEAN, gone : BOOLEAN, tx : {"none", "open", "failed"}, wrote : SUBSET Done,
                               queue : UNION {[1..n -> Done] : n \in 0..2}]]
  /\ lock \in Sessions \cup {None}
  /\ client \in [Processes -> Sessions \cup {None}]
  /\ pc \in [Processes -> Statements \cup {"down", "idle", "rest"}]
  /\ job \in [Processes -> Jobs] /\ begun \in 0..MaxWork /\ sent \subseteq Jobs

Init ==
  /\ kept = {} /\ session = [s \in Sessions |-> Closed] /\ lock = None
  /\ client = [p \in Processes |-> None]
  /\ pc = [p \in Processes |-> "down"] /\ job = [p \in Processes |-> 0]
  /\ begun = 0 /\ sent = {}

Statement(does, j) == [does |-> does, job |-> j]
Applied  == {k \in 1..Migrations : Statement("APPLY", k) \in kept}
Recorded == {k \in 1..Migrations : Statement("RECORD", k) \in kept}
Serving(p) == job[p] > Migrations

-----------------------------------------------------------------------------
(* The process.                                                            *)

Send(p, s, does, c) ==
  /\ session' = [session EXCEPT ![s] = [c EXCEPT !.queue = Append(@, Statement(does, job[p]))]]
  /\ pc' = [pc EXCEPT ![p] = does]
  /\ sent' = IF does = "COMMIT" THEN sent \cup {job[p]} ELSE sent

\* What a client has queued behind the statement it has sent can be taken back;
\* that statement the server performs, also when the client goes.
TakenBack(c) == [c EXCEPT !.queue = IF @ = <<>> THEN <<>> ELSE <<Head(@)>>]
Abandoned(c) == [TakenBack(c) EXCEPT !.gone = TRUE]

StartUp(p) ==
  /\ pc[p] = "down"
  /\ pc' = [pc EXCEPT ![p] = "idle"] /\ job' = [job EXCEPT ![p] = 0]
  /\ UNCHANGED <<kept, session, lock, client, begun, sent>>

\* pool.connect, and BEGIN.
Connect(p) ==
  /\ pc[p] = "idle"
  /\ IF client[p] # None
     THEN Send(p, client[p], "BEGIN", session[client[p]]) /\ UNCHANGED client
     ELSE \E s \in Sessions :
            /\ ~session[s].live
            /\ client' = [client EXCEPT ![p] = s]
            /\ Send(p, s, "BEGIN", [Closed EXCEPT !.live = TRUE])
  /\ UNCHANGED <<kept, lock, job, begun>>

Over(p) == pc' = [pc EXCEPT ![p] = IF Serving(p) THEN "idle" ELSE "down"]

\* connectionTimeoutMillis: a start-up fails with it.
Unreachable(p) ==
  /\ pc[p] = "idle" /\ client[p] = None
  /\ Over(p)
  /\ UNCHANGED <<kept, session, lock, client, job, begun, sent>>

\* Slip: whether it is applied is decided before the lock is there.
CheckedFirst(p, does) ==
  CASE does = "BEGIN"  -> IF Serving(p) THEN "WORK" ELSE IF job[p] = 0 THEN "LOCK" ELSE "CHECK"
    [] does = "CHECK"  -> IF job[p] \in Recorded THEN "COMMIT" ELSE "LOCK"
    [] does = "LOCK"   -> IF job[p] = 0 THEN "TABLE" ELSE "APPLY"
    [] does = "APPLY"  -> "RECORD"
    [] OTHER           -> "COMMIT"

\* What follows in migrate, or in a transaction of work.
Following(p, does) ==
  CASE does = "BEGIN"  -> IF Serving(p) THEN "WORK" ELSE "LOCK"
    [] does = "LOCK"   -> IF job[p] = 0 THEN "TABLE" ELSE "CHECK"
    [] does = "CHECK"  -> IF job[p] \in Recorded THEN "COMMIT" ELSE "APPLY"
    [] does = "APPLY"  -> "RECORD"
    [] OTHER           -> "COMMIT"

\* The answer is there, and with it the pool's client again.
NextJob(p) ==
  \/ /\ job[p] < Migrations
     /\ pc' = [pc EXCEPT ![p] = "idle"] /\ job' = [job EXCEPT ![p] = @ + 1] /\ UNCHANGED begun
  \/ /\ job[p] >= Migrations /\ begun < MaxWork
     /\ pc' = [pc EXCEPT ![p] = "idle"] /\ begun' = begun + 1 /\ job' = [job EXCEPT ![p] = Migrations + begun']
  \/ /\ job[p] >= Migrations /\ begun = MaxWork
     /\ pc' = [pc EXCEPT ![p] = "rest"] /\ UNCHANGED <<job, begun>>

\* Slip: the client goes back to the pool, whatever its state.
ReleasedAnyway(p, broken) == client' = client /\ session' = [session EXCEPT ![client[p]] = TakenBack(@)]

\* release.
Released(p, broken) ==
  /\ client' = IF broken THEN [client EXCEPT ![p] = None] ELSE client
  /\ session' = IF broken THEN [session EXCEPT ![client[p]] = Abandoned(@)] ELSE session

\* query_timeout.  After a statement, ROLLBACK is tried; after that, nothing.
GiveUp(p) ==
  /\ pc[p] \in Statements /\ pc[p] # "ROLLBACK"
  /\ Send(p, client[p], "ROLLBACK", session[client[p]])
  /\ UNCHANGED <<kept, lock, client, job, begun>>

\* The client takes what was not sent yet out of its queue.
GiveUpRollback(p) ==
  /\ pc[p] = "ROLLBACK"
  /\ Over(p)
  /\ Released(p, TRUE)
  /\ UNCHANGED <<kept, lock, job, begun, sent>>

Die(p) ==
  /\ pc[p] # "down"
  /\ pc' = [pc EXCEPT ![p] = "down"]
  /\ client' = [client EXCEPT ![p] = None]
  /\ session' = IF client[p] = None THEN session ELSE [session EXCEPT ![client[p]] = Abandoned(@)]
  /\ UNCHANGED <<kept, lock, job, begun, sent>>

-----------------------------------------------------------------------------
(* The server.                                                             *)

Unlocked(s) == lock' = IF lock = s THEN None ELSE lock

\* What a statement makes of its connection.
Performed(c, q) ==
  CASE q.does = "BEGIN"                -> [c EXCEPT !.tx = IF @ = "none" THEN "open" ELSE @]
    [] q.does \in {"COMMIT", "ROLLBACK"} -> [c EXCEPT !.tx = "none", !.wrote = {}]
    [] q.does \in Changes              -> [c EXCEPT !.wrote = @ \cup {q}]
    [] OTHER                           -> c

\* The answer of a statement that somebody awaits.
Answer(s, c, q, ok) ==
  LET here == {p \in Processes : client[p] = s /\ pc[p] = q.does} IN
  IF c.queue # <<>> \/ here = {}
  THEN session' = [session EXCEPT ![s] = c] /\ UNCHANGED <<client, pc, job, begun, sent>>
  ELSE \E p \in here :
         CASE q.does = "ROLLBACK"       -> Over(p) /\ session' = [session EXCEPT ![s] = c]
                                           /\ UNCHANGED <<client, job, begun, sent>>
           [] q.does = "COMMIT" /\ ok   -> NextJob(p) /\ session' = [session EXCEPT ![s] = c] /\ UNCHANGED <<client, sent>>
           [] OTHER                     -> /\ Send(p, s, IF ok THEN Following(p, q.does) ELSE "ROLLBACK", c)
                                           /\ UNCHANGED <<client, job, begun>>

\* A statement succeeds.
Perform(s) ==
  LET c == session[s]
      q == Head(c.queue)
  IN
  /\ c.live /\ c.queue # <<>>
  /\ c.tx = "failed" => q.does \in {"COMMIT", "ROLLBACK"}
  /\ IF q.does = "LOCK" THEN lock \in {None, s} /\ lock' = s
     ELSE IF q.does \in {"COMMIT", "ROLLBACK"} THEN Unlocked(s) ELSE UNCHANGED lock
  /\ kept' = IF q.does = "COMMIT" /\ c.tx = "open" THEN kept \cup c.wrote ELSE kept
  /\ Answer(s, [Performed(c, q) EXCEPT !.queue = Tail(@)], q, TRUE)

\* Or it fails, and the transaction with it.
Reject(s) ==
  LET c == session[s]
      q == Head(c.queue)
  IN
  /\ c.live /\ c.queue # <<>> /\ q.does \in Changes \cup {"CHECK", "LOCK"}
  /\ Answer(s, [c EXCEPT !.tx = "failed", !.queue = Tail(@)], q, FALSE)
  /\ UNCHANGED <<kept, lock>>

\* A connection ends, found without a client or by itself; a client that has
\* one awaits nothing from it any more, and cannot roll back on it.
Disconnect(s) ==
  LET here == {p \in Processes : client[p] = s} IN
  /\ session[s].live /\ (session[s].gone => session[s].queue = <<>>)
  /\ session' = [session EXCEPT ![s] = Closed]
  /\ Unlocked(s)
  /\ client' = [p \in Processes |-> IF p \in here THEN None ELSE client[p]]
  /\ pc' = [p \in Processes |->
       IF p \in here /\ pc[p] \in Statements THEN (IF Serving(p) THEN "idle" ELSE "down") ELSE pc[p]]
  /\ UNCHANGED <<kept, job, begun, sent>>

Next ==
  \/ \E p \in Processes : StartUp(p) \/ Connect(p) \/ Unreachable(p) \/ GiveUp(p) \/ GiveUpRollback(p) \/ Die(p)
  \/ \E s \in Sessions : Perform(s) \/ Reject(s) \/ Disconnect(s)

Spec == Init /\ [][Next]_vars

-----------------------------------------------------------------------------
(* Correctness.                                                            *)

\* Migrations are made in order, each together with its record, and one that is
\* under way, even of a process that has given it up, is the next one: however
\* many processes start at once, die, or lose the answer of a COMMIT (migrate).
MigrationsInTurn ==
  /\ Applied = Recorded /\ Recorded = 1..Cardinality(Recorded)
  /\ \A s \in Sessions : \A q \in session[s].wrote :
       q.does = "APPLY" /\ session[s].tx = "open" => q.job = Cardinality(Recorded) + 1

\* What a transaction has done is kept only if its own COMMIT was sent: none
\* begins in what another has left on its connection, so an error the caller
\* was told before that is final (transaction).
NothingCommitsLater == \A q \in kept : q.job \in sent
=============================================================================
