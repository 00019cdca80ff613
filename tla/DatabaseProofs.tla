--------------------------- MODULE DatabaseProofs ---------------------------
(***************************************************************************)
(* Proofs about Database, for any processes, connections, migrations and   *)
(* work.                                                                   *)
(*                                                                         *)
(* The argument: all a connection holds and has queued is of one job, whose*)
(* earlier migrations are recorded (Conn); what is first in its queue finds*)
(* the transaction as the statement before has left it (Due), also when    *)
(* nobody waits for it any more; and a process that has a connection waits *)
(* for the last statement there, or finds the connection as new (Owned).   *)
(* What depends on the lock, and on what is recorded, changes only by the  *)
(* connection that holds the lock.                                         *)
(***************************************************************************)
EXTENDS MCGrantCaches, Sequences, FiniteSetTheorems, TLAPS

Conns == [live : BOOLEAN, gone : BOOLEAN, tx : {"none", "open", "failed"}, wrote : SUBSET Base!Done,
          queue : Seq(Base!Done)]

DbTypes ==
  /\ kept \subseteq Base!Done
  /\ session \in [Sessions -> Conns]
  /\ lock \in Sessions \cup {None}
  /\ client \in [Requests -> Sessions \cup {None}]
  /\ statement \in [Requests -> Base!Statements \cup {"down", "idle", "rest"}]
  /\ job \in [Requests -> Base!Jobs] /\ begun \in 0..MaxWork /\ sent \subseteq Base!Jobs

Holds(c, does, j) == Base!Statement(does, j) \in c.wrote

\* The migrations before job j are recorded.
Ready(j, rec) == \A k \in 1..Migrations : k < j => k \in rec

\* Connection s has the lock, and j is a migration that is not made.
Turn(s, j, lk, rec) == lk = s /\ j \in 1..Migrations /\ j \notin rec

\* How a statement of job j finds its connection.
Due(s, c, j, does, lk, rec) ==
  /\ does \in {"CHECK", "APPLY", "RECORD"} => j \in 1..Migrations
  /\ does = "LOCK" => j <= Migrations
  /\ does \in {"TABLE", "WORK"} => j \notin 1..Migrations
  /\ does = "BEGIN" => c.tx = "none" /\ c.wrote = {}
  /\ does \notin {"BEGIN", "ROLLBACK"} => c.tx = "open"
  /\ does \in {"LOCK", "TABLE", "CHECK", "APPLY", "WORK"} => c.wrote = {}
  /\ does = "CHECK" => lk = s
  /\ does = "APPLY" => Turn(s, j, lk, rec)
  /\ does = "RECORD" => Holds(c, "APPLY", j)
  /\ does = "COMMIT" => /\ Holds(c, "APPLY", j) => Holds(c, "RECORD", j)
                        /\ j \in 1..Migrations => j \in rec \/ Holds(c, "RECORD", j)

Conn(s, c, j, lk, rec, sn) ==
  /\ \A q \in c.wrote : q.job = j
  /\ \A i \in 1..Len(c.queue) : c.queue[i].job = j /\ (c.queue[i].does = "COMMIT" => j \in sn)
  /\ \A i \in 2..Len(c.queue) : c.queue[i].does = "ROLLBACK"
  /\ Ready(j, rec)
  /\ c.tx = "open" /\ Holds(c, "RECORD", j) => Holds(c, "APPLY", j)
  /\ c.tx = "open" /\ Holds(c, "APPLY", j) => Turn(s, j, lk, rec)
  /\ c.queue # <<>> => Due(s, c, j, c.queue[1].does, lk, rec)

\* The last statement in its queue.
Awaited(c) == c.queue[Len(c.queue)]

Fresh(c) == c.queue = <<>> /\ c.wrote = {} /\ c.tx = "none"

\* Connection c of a process that is at statement st of job j.
Owned(c, st, j) ==
  /\ c.live
  /\ IF st \in Base!Statements
     THEN /\ c.queue # <<>> /\ Awaited(c).does = st /\ Awaited(c).job = j
          /\ st # "ROLLBACK" => Len(c.queue) = 1
     ELSE Fresh(c)

Served(p) ==
  /\ Ready(job[p], Base!Recorded)
  /\ IF client[p] = None THEN statement[p] \notin Base!Statements
     ELSE Owned(session[client[p]], statement[p], job[p])

InOrder == \E k \in 0..Migrations : Base!Recorded = 1..k /\ Base!Applied = 1..k
Connections == \A s \in Sessions : \E j \in Base!Jobs : Conn(s, session[s], j, lock, Base!Recorded, sent)
Owners == \A p \in Requests : Served(p)
Single == \A p, r \in Requests : client[p] # None /\ client[p] = client[r] => p = r

DbInv == DbTypes /\ InOrder /\ NothingCommitsLater /\ Connections /\ Owners /\ Single

\* Connection c with one more statement.
Queued(c, does, j) == [c EXCEPT !.queue = Append(@, Base!Statement(does, j))]

\* Connection c when its statement has failed, and when it has succeeded.
Failed(c)    == [c EXCEPT !.tx = "failed", !.queue = Tail(@)]
Succeeded(c) == [Base!Performed(c, Head(c.queue)) EXCEPT !.queue = Tail(@)]

\* What a process sends when statement does of job j has succeeded.
Then(does, j, rec) ==
  CASE does = "BEGIN" -> IF j > Migrations THEN "WORK" ELSE "LOCK"
    [] does = "LOCK"  -> IF j = 0 THEN "TABLE" ELSE "CHECK"
    [] does = "CHECK" -> IF j \in rec THEN "COMMIT" ELSE "APPLY"
    [] does = "APPLY" -> "RECORD"
    [] OTHER          -> "COMMIT"

USE DatabaseBounds

-----------------------------------------------------------------------------
(* What becomes of one connection.                                         *)

\* What does not depend on the lock, or on a migration being open, stays when
\* more is recorded and sent.
LEMMA ConnStays ==
  ASSUME NEW s, NEW c, NEW j, NEW lk, NEW rec, NEW sn, NEW lk2, NEW rec2, NEW sn2,
         Conn(s, c, j, lk, rec, sn), rec \subseteq rec2, sn \subseteq sn2, lk = s => lk2 = s /\ rec2 = rec
  PROVE  Conn(s, c, j, lk2, rec2, sn2)
  BY DEF Conn, Ready, Turn, Due

\* A connection that was used up serves any job, if it is this job's turn.
LEMMA ConnFresh ==
  ASSUME NEW s, NEW c, NEW j, NEW lk, NEW rec, NEW sn, Ready(j, rec), Fresh(c)
  PROVE  Conn(s, c, j, lk, rec, sn)
  BY DEF Conn, Fresh, Holds

\* A client that goes takes back what it has not sent (TakenBack).
LEMMA ConnLeft ==
  ASSUME NEW s, NEW c \in Conns, NEW j, NEW lk, NEW rec, NEW sn, Conn(s, c, j, lk, rec, sn)
  PROVE  Base!Abandoned(c) \in Conns /\ Conn(s, Base!Abandoned(c), j, lk, rec, sn)
  <1> DEFINE d == Base!Abandoned(c)
  <1>1. c.queue \in Seq(Base!Done)
    BY DEF Conns
  <1>2. d \in Conns /\ d.tx = c.tx /\ d.wrote = c.wrote /\ d.queue = IF c.queue = <<>> THEN <<>> ELSE <<c.queue[1]>>
    <2> DEFINE e == IF c.queue = <<>> THEN <<>> ELSE <<Head(c.queue)>>
    <2>1. c.queue # <<>> => Head(c.queue) = c.queue[1] /\ c.queue[1] \in Base!Done
      BY <1>1
    <2>2. e \in Seq(Base!Done) /\ e = IF c.queue = <<>> THEN <<>> ELSE <<c.queue[1]>>
      BY <2>1
    <2>3. d = [[c EXCEPT !.queue = e] EXCEPT !.gone = TRUE]
      BY DEF Base!Abandoned, Base!TakenBack
    <2> HIDE DEF d, e
    <2> QED
      BY <2>2, <2>3 DEF Conns
  <1> HIDE DEF d
  <1>3. Len(d.queue) \in 0..1 /\ Len(d.queue) <= Len(c.queue) /\ Len(c.queue) \in Nat
        /\ (\A i \in 1..Len(d.queue) : d.queue[i] = c.queue[i])
        /\ (d.queue # <<>> => c.queue # <<>> /\ d.queue[1] = c.queue[1])
    <2>1. CASE c.queue = <<>>
      BY <1>2, <2>1
    <2>2. CASE c.queue # <<>>
      <3>1. Len(c.queue) \in Nat /\ Len(c.queue) >= 1
        BY <1>1, <2>2
      <3>2. d.queue = <<c.queue[1]>>
        BY <1>2, <2>2
      <3> QED
        BY <2>2, <3>1, <3>2
    <2> QED
      BY <2>1, <2>2
  <1>4. \A does : Due(s, c, j, does, lk, rec) => Due(s, d, j, does, lk, rec)
    BY <1>2 DEF Due, Holds
  <1>5. Conn(s, d, j, lk, rec, sn)
    BY <1>2, <1>3, <1>4 DEF Conn, Holds
  <1> QED
    BY <1>2, <1>5 DEF d

\* A statement is queued.
LEMMA QueuedIs ==
  ASSUME NEW c \in Conns, NEW j \in Base!Jobs, NEW does \in Base!Statements, NEW d, d = Queued(c, does, j)
  PROVE  /\ d \in Conns /\ d.live = c.live /\ d.tx = c.tx /\ d.wrote = c.wrote /\ d.queue # <<>>
         /\ Awaited(d).does = does /\ Awaited(d).job = j
         /\ c.queue = <<>> => Len(d.queue) = 1
         /\ Len(d.queue) = Len(c.queue) + 1 /\ Len(c.queue) \in Nat
         /\ d.queue[Len(c.queue) + 1].does = does /\ d.queue[Len(c.queue) + 1].job = j
         /\ \A i \in 1..Len(c.queue) : d.queue[i] = c.queue[i]
  <1> DEFINE x == Base!Statement(does, j)
             y == Append(c.queue, x)
  <1>1. x \in Base!Done /\ x.does = does /\ x.job = j
    BY DEF Base!Statement, Base!Done
  <1> HIDE DEF x
  <1>2. c.queue \in Seq(Base!Done) /\ Len(c.queue) \in Nat /\ (c.queue = <<>> => Len(c.queue) = 0)
    BY DEF Conns
  <1>3. /\ y \in Seq(Base!Done) /\ Len(y) = Len(c.queue) + 1 /\ y[Len(y)] = x
        /\ \A i \in 1..Len(c.queue) : y[i] = c.queue[i]
    BY <1>1, <1>2
  <1>4. d = [c EXCEPT !.queue = y]
    BY DEF x, Queued
  <1> HIDE DEF y
  <1>5. d \in Conns /\ d.live = c.live /\ d.tx = c.tx /\ d.wrote = c.wrote /\ d.queue = y
    BY <1>3, <1>4 DEF Conns
  <1>6. y # <<>>
    BY <1>2, <1>3
  <1> QED
    <2>1. Awaited(d) = x
      BY <1>3, <1>5 DEF Awaited
    <2>2. d.queue[Len(c.queue) + 1] = x
      BY <1>3, <1>5
    <2>3. c.queue = <<>> => Len(d.queue) = 1
      BY <1>2, <1>3, <1>5
    <2> QED
      BY <1>1, <1>2, <1>3, <1>5, <1>6, <2>1, <2>2, <2>3

\* A statement that is queued behind nothing finds what it is due; the ROLLBACK
\* may find anything.
LEMMA ConnQueued ==
  ASSUME NEW s, NEW c \in Conns, NEW j \in Base!Jobs, NEW lk, NEW rec, NEW sn, NEW does \in Base!Statements,
         Conn(s, c, j, lk, rec, sn), does = "COMMIT" => j \in sn,
         does = "ROLLBACK" \/ (c.queue = <<>> /\ Due(s, c, j, does, lk, rec))
  PROVE  Conn(s, Queued(c, does, j), j, lk, rec, sn)
  <1>1. PICK d : d = Queued(c, does, j)
    OBVIOUS
  <1>2. /\ d \in Conns /\ d.live = c.live /\ d.tx = c.tx /\ d.wrote = c.wrote /\ d.queue # <<>>
        /\ Len(d.queue) = Len(c.queue) + 1 /\ Len(c.queue) \in Nat
        /\ d.queue[Len(c.queue) + 1].does = does /\ d.queue[Len(c.queue) + 1].job = j
        /\ \A i \in 1..Len(c.queue) : d.queue[i] = c.queue[i]
    BY <1>1, QueuedIs
  <1>3. Due(s, d, j, d.queue[1].does, lk, rec)
    <2>1. CASE c.queue = <<>>
      <3>1. d.queue[1].does = does
        BY <1>2, <2>1
      <3> QED
        BY <1>2, <2>1, <3>1 DEF Due, Holds
    <2>2. CASE c.queue # <<>>
      <3>1. d.queue[1] = c.queue[1]
        BY <1>2, <2>2 DEF Conns
      <3> QED
        BY <1>2, <2>2, <3>1 DEF Conn, Due, Holds
    <2> QED
      BY <2>1, <2>2
  <1>4. \A i \in 1..Len(d.queue) : d.queue[i].job = j /\ (d.queue[i].does = "COMMIT" => j \in sn)
    BY <1>2 DEF Conn
  <1>5. \A i \in 2..Len(d.queue) : d.queue[i].does = "ROLLBACK"
    BY <1>2 DEF Conn
  <1> QED
    BY <1>1, <1>2, <1>3, <1>4, <1>5 DEF Conn, Holds

\* The queue without its first statement.
LEMMA QueueTail ==
  ASSUME NEW q \in Seq(Base!Done), q # <<>>
  PROVE  /\ q[1] \in Base!Done /\ Head(q) = q[1] /\ Tail(q) \in Seq(Base!Done) /\ Len(q) \in Nat /\ Len(q) >= 1
         /\ Len(Tail(q)) = Len(q) - 1 /\ \A i \in 1..Len(Tail(q)) : Tail(q)[i] = q[i + 1]
         /\ Tail(q) = <<>> <=> Len(q) = 1
  <1>1. Len(q) \in Nat /\ Len(q) >= 1 /\ q[1] \in Base!Done /\ Head(q) = q[1]
    OBVIOUS
  <1>2. Tail(q) \in Seq(Base!Done) /\ Len(Tail(q)) = Len(q) - 1
    OBVIOUS
  <1>3. \A i \in 1..Len(Tail(q)) : Tail(q)[i] = q[i + 1]
    OBVIOUS
  <1>4. \A t \in Seq(Base!Done) : Len(t) = 0 => t = <<>>
    OBVIOUS
  <1>5. Tail(q) = <<>> <=> Len(Tail(q)) = 0
    <2>1. Len(Tail(q)) = 0 => Tail(q) = <<>>
      BY <1>2, <1>4
    <2>2. Len(<<>>) = 0
      OBVIOUS
    <2>3. Tail(q) = <<>> => Len(Tail(q)) = 0
      BY <2>2, Zenon
    <2> QED
      BY <2>1, <2>3
  <1> QED
    BY <1>1, <1>2, <1>3, <1>5

\* The server is at the next statement: what that finds, if it is the ROLLBACK,
\* or there is none, does not depend on what was before.
LEMMA ConnGoesOn ==
  ASSUME NEW s, NEW c \in Conns, NEW j, NEW lk, NEW rec, NEW sn, NEW lk2, NEW rec2,
         Conn(s, c, j, lk, rec, sn), c.queue # <<>>, rec \subseteq rec2,
         NEW d, d.queue = Tail(c.queue), \A q \in d.wrote : q.job = j,
         d.tx = "open" /\ Holds(d, "RECORD", j) => Holds(d, "APPLY", j),
         d.tx = "open" /\ Holds(d, "APPLY", j) => Turn(s, j, lk2, rec2)
  PROVE  Conn(s, d, j, lk2, rec2, sn)
  <1>1. c.queue \in Seq(Base!Done)
    BY DEF Conns
  <1>2. d.queue \in Seq(Base!Done) /\ Len(d.queue) = Len(c.queue) - 1 /\ Len(d.queue) \in Nat
        /\ \A i \in 1..Len(d.queue) : d.queue[i] = c.queue[i + 1]
    BY <1>1, QueueTail
  <1>3. ASSUME NEW i \in 1..Len(d.queue) PROVE d.queue[i].job = j /\ d.queue[i].does = "ROLLBACK"
    <2>1. Len(c.queue) \in Nat /\ i + 1 \in 2..Len(c.queue) /\ i + 1 \in 1..Len(c.queue) /\ d.queue[i] = c.queue[i + 1]
      BY <1>1, <1>2
    <2> QED
      BY <2>1 DEF Conn
  <1>4. d.queue # <<>> => d.queue[1].does = "ROLLBACK"
    <2>1. d.queue # <<>> => 1 \in 1..Len(d.queue)
      BY <1>2
    <2> QED
      BY <1>3, <2>1
  <1>5. d.queue # <<>> => Due(s, d, j, d.queue[1].does, lk2, rec2)
    BY <1>4 DEF Due
  <1>6. Ready(j, rec2)
    BY DEF Conn, Ready
  <1> QED
    BY <1>2, <1>3, <1>5, <1>6 DEF Conn

\* What a statement makes of its connection.
LEMMA Performs ==
  ASSUME NEW c \in Conns, NEW q \in Base!Done, q.does = "BEGIN" => c.tx = "none"
  PROVE  Base!Performed(c, q) =
           [c EXCEPT !.tx = IF q.does = "BEGIN" THEN "open" ELSE IF q.does \in {"COMMIT", "ROLLBACK"} THEN "none" ELSE c.tx,
                     !.wrote = IF q.does \in {"COMMIT", "ROLLBACK"} THEN {}
                               ELSE IF q.does \in Base!Changes THEN c.wrote \cup {q} ELSE c.wrote]
  <1> USE DEF Base!Changes
  <1>1. c = [c EXCEPT !.tx = c.tx, !.wrote = c.wrote]
    BY DEF Conns
  <1>2. CASE q.does = "BEGIN"
    BY <1>2 DEF Base!Performed, Conns
  <1>3. CASE q.does = "COMMIT" \/ q.does = "ROLLBACK"
    BY <1>3 DEF Base!Performed
  <1>4. CASE q.does \in Base!Changes
    BY <1>4 DEF Base!Performed, Conns
  <1>5. CASE q.does \notin Base!Changes \cup {"BEGIN", "COMMIT", "ROLLBACK"}
    BY <1>1, <1>5 DEF Base!Performed
  <1> QED
    BY <1>2, <1>3, <1>4, <1>5

\* A connection after a statement that has succeeded.
LEMMA SucceededIs ==
  ASSUME NEW c \in Conns, c.queue # <<>>, NEW q, q = c.queue[1], q.does = "BEGIN" => c.tx = "none",
         NEW d, d = Succeeded(c)
  PROVE  /\ d \in Conns /\ d.live = c.live /\ d.queue = Tail(c.queue)
         /\ d.tx = IF q.does = "BEGIN" THEN "open" ELSE IF q.does \in {"COMMIT", "ROLLBACK"} THEN "none" ELSE c.tx
         /\ d.wrote = IF q.does \in {"COMMIT", "ROLLBACK"} THEN {}
                      ELSE IF q.does \in Base!Changes THEN c.wrote \cup {q} ELSE c.wrote
  <1> DEFINE tx == IF q.does = "BEGIN" THEN "open" ELSE IF q.does \in {"COMMIT", "ROLLBACK"} THEN "none" ELSE c.tx
             wrote == IF q.does \in {"COMMIT", "ROLLBACK"} THEN {}
                      ELSE IF q.does \in Base!Changes THEN c.wrote \cup {q} ELSE c.wrote
  <1>1. q \in Base!Done /\ Head(c.queue) = q /\ Tail(c.queue) \in Seq(Base!Done)
    BY QueueTail DEF Conns
  <1>2. Base!Performed(c, q) = [c EXCEPT !.tx = tx, !.wrote = wrote]
    BY <1>1, Performs
  <1>3. tx \in {"none", "open", "failed"} /\ wrote \in SUBSET Base!Done
    BY <1>1 DEF Conns
  <1>4. d = [c EXCEPT !.tx = tx, !.wrote = wrote, !.queue = Tail(@)]
    BY <1>1, <1>2 DEF Conns, Succeeded
  <1>5. d \in Conns /\ d.live = c.live /\ d.queue = Tail(c.queue) /\ d.tx = tx /\ d.wrote = wrote
    <2> HIDE DEF tx, wrote
    <2> QED
      BY <1>1, <1>3, <1>4 DEF Conns
  <1> QED
    BY <1>5

\* A statement that succeeds leaves its connection as the next one is due to
\* find it (Perform).
LEMMA ConnPerforms ==
  ASSUME NEW s, NEW c \in Conns, NEW j \in Base!Jobs, NEW lk, NEW rec, NEW sn, NEW lk2, NEW rec2, NEW does,
         Conn(s, c, j, lk, rec, sn), c.queue # <<>>, does = c.queue[1].does,
         c.tx = "failed" => does \in {"COMMIT", "ROLLBACK"},
         rec \subseteq rec2, does # "COMMIT" => rec2 = rec,
         does = "LOCK" => lk2 = s, does \notin {"LOCK", "COMMIT", "ROLLBACK"} => lk2 = lk,
         does = "COMMIT" /\ Holds(c, "RECORD", j) => j \in rec2
  PROVE  /\ Conn(s, Succeeded(c), j, lk2, rec2, sn)
         /\ does \notin {"COMMIT", "ROLLBACK"} => Due(s, Succeeded(c), j, Then(does, j, rec), lk2, rec2)
  <1>0. PICK d : d = Succeeded(c)
    OBVIOUS
  <1> DEFINE q == c.queue[1]
  <1>1. q \in Base!Done /\ q.job = j /\ q = Base!Statement(does, j) /\ does \in Base!Statements /\ Head(c.queue) = q
        /\ q.does = does
    <2>1. c.queue \in Seq(Base!Done)
      BY DEF Conns
    <2>2. q \in Base!Done /\ Head(c.queue) = q /\ Len(c.queue) \in Nat /\ Len(c.queue) >= 1
      BY <2>1, QueueTail
    <2>3. q.job = j
      BY <2>2 DEF Conn
    <2> QED
      BY <2>2, <2>3 DEF Base!Done, Base!Statement
  <1>2. Due(s, c, j, does, lk, rec)
    BY DEF Conn
  <1>3. /\ d \in Conns /\ d.queue = Tail(c.queue)
        /\ d.tx = IF does = "BEGIN" THEN "open" ELSE IF does \in {"COMMIT", "ROLLBACK"} THEN "none" ELSE c.tx
        /\ d.wrote = IF does \in {"COMMIT", "ROLLBACK"} THEN {} ELSE IF does \in Base!Changes THEN c.wrote \cup {q} ELSE c.wrote
    <2>1. q = c.queue[1] /\ (q.does = "BEGIN" => c.tx = "none")
      BY <1>1, <1>2 DEF Due, q
    <2> HIDE DEF q
    <2>2. /\ d \in Conns /\ d.queue = Tail(c.queue)
          /\ d.tx = IF q.does = "BEGIN" THEN "open" ELSE IF q.does \in {"COMMIT", "ROLLBACK"} THEN "none" ELSE c.tx
          /\ d.wrote = IF q.does \in {"COMMIT", "ROLLBACK"} THEN {}
                       ELSE IF q.does \in Base!Changes THEN c.wrote \cup {q} ELSE c.wrote
      BY <1>0, <2>1, SucceededIs
    <2> QED
      BY <1>1, <2>2
  <1> HIDE DEF q
  <1>8. does \in {"COMMIT", "ROLLBACK"} \/ (d.tx = "open" /\ (does = "BEGIN" \/ c.tx = "open"))
    BY <1>2, <1>3 DEF Due
  <1>9. \A x \in d.wrote : x.job = j
    BY <1>1, <1>3 DEF Conn
  <1>10. d.tx = "open" /\ Holds(d, "RECORD", j) => Holds(d, "APPLY", j)
    BY <1>1, <1>2, <1>3, <1>8 DEF Conn, Due, Holds, Base!Statement, Base!Changes
  <1>11. d.tx = "open" /\ Holds(d, "APPLY", j) => Turn(s, j, lk2, rec2)
    BY <1>1, <1>2, <1>3, <1>8 DEF Conn, Due, Holds, Base!Statement, Base!Changes, Turn
  <1>12. Conn(s, d, j, lk2, rec2, sn)
    BY <1>3, <1>9, <1>10, <1>11, ConnGoesOn
  <1>13. does \notin {"COMMIT", "ROLLBACK"} => Due(s, d, j, Then(does, j, rec), lk2, rec2)
    <2> SUFFICES ASSUME does \notin {"COMMIT", "ROLLBACK"} PROVE Due(s, d, j, Then(does, j, rec), lk2, rec2)
      OBVIOUS
    <2>0. d.tx = "open" /\ rec2 = rec /\ j \in Nat
      BY <1>3, <1>8 DEF Base!Jobs
    <2>1. CASE does = "BEGIN"
      BY <1>2, <1>3, <2>0, <2>1 DEF Due, Then, Base!Changes
    <2>2. CASE does = "LOCK"
      BY <1>2, <1>3, <2>0, <2>2 DEF Due, Then, Base!Changes
    <2>3. CASE does = "CHECK"
      BY <1>2, <1>3, <2>0, <2>3 DEF Due, Then, Base!Changes, Turn, Holds
    <2>4. CASE does = "APPLY"
      BY <1>1, <1>2, <1>3, <2>0, <2>4 DEF Due, Then, Base!Changes, Holds
    <2>5. CASE does = "RECORD"
      BY <1>1, <1>2, <1>3, <2>0, <2>5 DEF Due, Then, Base!Changes, Holds
    <2>6. CASE does \in {"TABLE", "WORK"}
      BY <1>1, <1>2, <1>3, <2>0, <2>6 DEF Due, Then, Base!Changes, Holds, Base!Statement
    <2> QED
      BY <1>1, <2>1, <2>2, <2>3, <2>4, <2>5, <2>6 DEF Base!Statements, Base!Changes
  <1> QED
    BY <1>0, <1>12, <1>13

\* A statement that fails leaves a transaction that can only be ended (Reject).
LEMMA FailedIs ==
  ASSUME NEW c \in Conns, c.queue # <<>>
  PROVE  /\ Failed(c) \in Conns /\ Failed(c).live = c.live /\ Failed(c).queue = Tail(c.queue)
         /\ Failed(c).tx = "failed" /\ Failed(c).wrote = c.wrote
  <1>1. Tail(c.queue) \in Seq(Base!Done)
    BY QueueTail DEF Conns
  <1> QED
    BY <1>1 DEF Conns, Failed

\* And of that there is nothing more to say.
LEMMA ConnRejects ==
  ASSUME NEW s, NEW c \in Conns, NEW j, NEW lk, NEW rec, NEW sn, Conn(s, c, j, lk, rec, sn), c.queue # <<>>
  PROVE  Conn(s, Failed(c), j, lk, rec, sn)
  <1>1. PICK d : d = Failed(c)
    OBVIOUS
  <1>2. d.queue = Tail(c.queue) /\ d.tx = "failed" /\ d.wrote = c.wrote
    BY <1>1, FailedIs
  <1>3. \A q \in d.wrote : q.job = j
    BY <1>2 DEF Conn
  <1>4. Conn(s, d, j, lk, rec, sn)
    BY <1>2, <1>3, ConnGoesOn
  <1> QED
    BY <1>1, <1>4

-----------------------------------------------------------------------------
(* What becomes of the whole.                                              *)

\* One connection changes, and nothing the others depend on.
LEMMA ConnectionsMove ==
  ASSUME DbInv, NEW s \in Sessions, NEW c \in Conns, NEW j \in Base!Jobs, session' = [session EXCEPT ![s] = c],
         Conn(s, c, j, lock', Base!Recorded', sent'), Base!Recorded \subseteq Base!Recorded', sent \subseteq sent',
         \A t \in Sessions \ {s} : lock = t => lock' = t /\ Base!Recorded' = Base!Recorded
  PROVE  /\ session' \in [Sessions -> Conns] /\ session'[s] = c /\ \A t \in Sessions \ {s} : session'[t] = session[t]
         /\ Connections'
  <1>1. session' \in [Sessions -> Conns] /\ session'[s] = c /\ \A t \in Sessions \ {s} : session'[t] = session[t]
    BY DEF DbInv, DbTypes
  <1>2. Base!Jobs' = Base!Jobs
    BY DEF Base!Jobs
  <1>3. ASSUME NEW t \in Sessions
        PROVE  \E i \in Base!Jobs : Conn(t, session'[t], i, lock', Base!Recorded', sent')
    <2>1. CASE t = s
      BY <1>1, <2>1
    <2>2. CASE t # s
      <3>1. PICK i \in Base!Jobs : Conn(t, session[t], i, lock, Base!Recorded, sent)
        BY DEF DbInv, Connections
      <3>2. Conn(t, session[t], i, lock', Base!Recorded', sent')
        BY <2>2, <3>1, ConnStays
      <3> QED
        BY <1>1, <2>2, <3>2
    <2> QED
      BY <2>1, <2>2
  <1> QED
    BY <1>1, <1>2, <1>3 DEF Connections

\* The processes on other connections are where they were.
LEMMA OwnersMove ==
  ASSUME DbInv, NEW s \in Sessions, \A t \in Sessions \ {s} : session'[t] = session[t],
         Base!Recorded \subseteq Base!Recorded',
         \A p \in Requests : \/ client'[p] = client[p] /\ statement'[p] = statement[p] /\ job'[p] = job[p] /\ client[p] # s
                             \/ Served(p)'
  PROVE  Owners'
  <1> SUFFICES ASSUME NEW p \in Requests,
                      client'[p] = client[p], statement'[p] = statement[p], job'[p] = job[p], client[p] # s
               PROVE  Served(p)'
    BY DEF Owners
  <1>1. Served(p) /\ client[p] \in Sessions \cup {None}
    BY DEF DbInv, Owners, DbTypes
  <1>2. Ready(job'[p], Base!Recorded')
    BY <1>1 DEF Served, Ready
  <1>3. client[p] # None => session'[client[p]] = session[client[p]]
    BY <1>1
  <1> QED
    BY <1>1, <1>2, <1>3 DEF Served, Base!Statements

\* Unless a transaction commits, what is recorded stays.
LEMMA KeptStays ==
  ASSUME DbInv, kept' = kept, sent \subseteq sent'
  PROVE  Base!Recorded' = Base!Recorded /\ InOrder' /\ NothingCommitsLater'
  <1>1. Base!Recorded' = Base!Recorded /\ Base!Applied' = Base!Applied
    BY DEF Base!Recorded, Base!Applied, Base!Statement
  <1> QED
    BY <1>1 DEF DbInv, InOrder, NothingCommitsLater, Base!NothingCommitsLater

\* A process sends a statement on its connection (Send).
LEMMA Sends ==
  ASSUME DbInv, NEW p \in Requests, NEW s \in Sessions, NEW c \in Conns, NEW does \in Base!Statements,
         Base!Send(p, s, does, c), c.live, Conn(s, c, job[p], lock', Base!Recorded', sent),
         \/ does = "ROLLBACK"
         \/ c.queue = <<>> /\ Due(s, c, job[p], does, lock', Base!Recorded'),
         job' = job, client'[p] = s, \A r \in Requests \ {p} : client'[r] = client[r] /\ client[r] # s,
         client' \in [Requests -> Sessions \cup {None}], kept' \subseteq Base!Done, lock' \in Sessions \cup {None},
         begun' = begun, InOrder', \A q \in kept' : q.job \in sent,
         Base!Recorded \subseteq Base!Recorded',
         \A t \in Sessions \ {s} : lock = t => lock' = t /\ Base!Recorded' = Base!Recorded
  PROVE  DbInv'
  <1>1. PICK j : j = job[p]
    OBVIOUS
  <1>2. j \in Base!Jobs /\ job'[p] = j
    BY <1>1 DEF DbInv, DbTypes
  <1>3. PICK d : d = Queued(c, does, j)
    OBVIOUS
  <1>4. /\ session' = [session EXCEPT ![s] = d]
        /\ statement' = [statement EXCEPT ![p] = does]
        /\ sent' = IF does = "COMMIT" THEN sent \cup {j} ELSE sent
    BY <1>1, <1>3 DEF Base!Send, Queued
  <1>5. sent \subseteq sent' /\ (does = "COMMIT" => j \in sent')
    BY <1>4
  <1>6. Conn(s, c, j, lock', Base!Recorded', sent)
        /\ (does = "ROLLBACK" \/ (c.queue = <<>> /\ Due(s, c, j, does, lock', Base!Recorded')))
    BY <1>1
  <1>7. /\ d \in Conns /\ Conn(s, d, j, lock', Base!Recorded', sent') /\ d.live = c.live
        /\ d.queue # <<>> /\ (does # "ROLLBACK" => Len(d.queue) = 1)
        /\ Awaited(d).does = does /\ Awaited(d).job = j
    <2>1. PICK lk, rec, sn : lk = lock' /\ rec = Base!Recorded' /\ sn = sent'
      OBVIOUS
    <2>2. Conn(s, c, j, lk, rec, sn)
      BY <1>5, <1>6, <2>1, ConnStays
    <2>4. (does = "ROLLBACK" \/ (c.queue = <<>> /\ Due(s, c, j, does, lk, rec))) /\ (does = "COMMIT" => j \in sn)
      BY <1>5, <1>6, <2>1
    <2>3. /\ d \in Conns /\ Conn(s, d, j, lk, rec, sn) /\ d.live = c.live
          /\ d.queue # <<>> /\ (does # "ROLLBACK" => Len(d.queue) = 1)
          /\ Awaited(d).does = does /\ Awaited(d).job = j
      <3>1. Conn(s, d, j, lk, rec, sn)
        BY <1>2, <1>3, <2>2, <2>4, ConnQueued
      <3>2. c \in Conns /\ j \in Base!Jobs /\ does \in Base!Statements
        BY <1>2
      <3>3. d \in Conns /\ d.live = c.live /\ d.queue # <<>> /\ Awaited(d).does = does /\ Awaited(d).job = j
        BY ONLY <1>3, <3>2, QueuedIs
      <3>4. c.queue = <<>> => Len(d.queue) = 1
        BY ONLY <1>3, <3>2, QueuedIs
      <3> QED
        BY <2>4, <3>1, <3>3, <3>4
    <2> QED
      BY <2>1, <2>3
  <1>8. /\ session' \in [Sessions -> Conns] /\ session'[s] = d /\ (\A t \in Sessions \ {s} : session'[t] = session[t])
        /\ Connections'
    BY <1>2, <1>4, <1>5, <1>7, ConnectionsMove
  <1>9. Ready(j, Base!Recorded')
    BY <1>6 DEF Conn
  <1>11. statement'[p] = does /\ \A r \in Requests \ {p} : statement'[r] = statement[r]
    BY <1>4 DEF DbInv, DbTypes
  <1>12. Served(p)'
    BY <1>2, <1>7, <1>8, <1>9, <1>11 DEF Served, Owned, DbTypes, Base!Statements
  <1>13. Owners'
    <2>1. \A r \in Requests : \/ client'[r] = client[r] /\ statement'[r] = statement[r] /\ job'[r] = job[r] /\ client[r] # s
                              \/ Served(r)'
      BY <1>11, <1>12
    <2> QED
      BY <1>8, <2>1, OwnersMove
  <1>14. Single'
    BY DEF Single, DbInv
  <1>15. DbTypes'
    BY <1>2, <1>4, <1>8 DEF DbInv, DbTypes, Base!Done, Base!Jobs, Base!Statements, Conns
  <1>16. NothingCommitsLater'
    BY <1>5 DEF NothingCommitsLater, Base!NothingCommitsLater
  <1> QED
    BY <1>8, <1>13, <1>14, <1>15, <1>16 DEF DbInv

-----------------------------------------------------------------------------
(* The steps of a process.                                                 *)

\* A process that has stopped or been answered goes on, or stops.
LEMMA Moves ==
  ASSUME DbInv, NEW p \in Requests, NEW st \in {"idle", "down"}, statement[p] \notin Base!Statements,
         statement' = [statement EXCEPT ![p] = st], job' = job \/ job' = [job EXCEPT ![p] = 0],
         UNCHANGED <<kept, session, lock, client, begun, sent>>
  PROVE  DbInv'
  <1>1. Base!Recorded' = Base!Recorded /\ InOrder' /\ NothingCommitsLater'
    BY KeptStays
  <1>2. Connections'
    BY <1>1 DEF DbInv, Connections, Base!Jobs
  <1>3. ASSUME NEW r \in Requests PROVE Served(r)'
    <2>1. Served(r) /\ job'[r] \in {job[r], 0}
      BY DEF DbInv, Owners, DbTypes
    <2>2. Ready(job'[r], Base!Recorded')
      BY <1>1, <2>1 DEF Served, Ready
    <2>3. CASE r = p
      <3>1. statement'[r] = st /\ st \notin Base!Statements
        BY <2>3 DEF DbInv, DbTypes, Base!Statements, Base!Changes
      <3> QED
        BY <2>1, <2>2, <2>3, <3>1 DEF Served, Owned, Base!Statements
    <2>4. CASE r # p
      <3>1. statement'[r] = statement[r] /\ job'[r] = job[r]
        BY <2>4 DEF DbInv, DbTypes
      <3> QED
        BY <1>1, <2>1, <2>2, <3>1 DEF Served, Base!Statements
    <2> QED
      BY <2>3, <2>4
  <1>4. DbTypes'
    <2>1. 0 \in Base!Jobs
      BY DEF Base!Jobs
    <2> QED
      BY <2>1 DEF DbInv, DbTypes, Base!Done, Base!Jobs, Base!Statements, Conns
  <1>5. Single'
    BY DEF DbInv, Single
  <1> QED
    BY <1>1, <1>2, <1>3, <1>4, <1>5 DEF DbInv, Owners

\* A process starts.
LEMMA StartUpKeeps == ASSUME DbInv, NEW p \in Requests, Base!StartUp(p) PROVE DbInv'
  <1>1. statement[p] = "down" /\ statement' = [statement EXCEPT ![p] = "idle"] /\ job' = [job EXCEPT ![p] = 0]
        /\ UNCHANGED <<kept, session, lock, client, begun, sent>>
    BY DEF Base!StartUp
  <1>2. statement[p] \notin Base!Statements
    BY <1>1 DEF Base!Statements, Base!Changes
  <1> QED
    BY <1>1, <1>2, Moves

\* No connection is to be had.
LEMMA UnreachableKeeps == ASSUME DbInv, NEW p \in Requests, Base!Unreachable(p) PROVE DbInv'
  <1>1. PICK st \in {"idle", "down"} : statement' = [statement EXCEPT ![p] = st]
    BY DEF Base!Unreachable, Base!Over
  <1>2. statement[p] \notin Base!Statements /\ UNCHANGED <<kept, session, lock, client, job, begun, sent>>
    BY DEF Base!Unreachable, Base!Statements, Base!Changes
  <1> QED
    BY <1>1, <1>2, Moves

\* What a process finds of the connection it has.
LEMMA Has ==
  ASSUME DbInv, NEW p \in Requests, client[p] # None
  PROVE  /\ client[p] \in Sessions /\ session[client[p]] \in Conns
         /\ Owned(session[client[p]], statement[p], job[p])
         /\ Conn(client[p], session[client[p]], job[p], lock, Base!Recorded, sent)
         /\ \A r \in Requests \ {p} : client[r] # client[p]
  <1>1. client[p] \in Sessions /\ session[client[p]] \in Conns
    BY DEF DbInv, DbTypes
  <1>2. Owned(session[client[p]], statement[p], job[p]) /\ Ready(job[p], Base!Recorded)
    BY DEF DbInv, Owners, Served
  <1>3. \A r \in Requests \ {p} : client[r] # client[p]
    BY DEF DbInv, Single
  <1>4. PICK j \in Base!Jobs : Conn(client[p], session[client[p]], j, lock, Base!Recorded, sent)
    BY <1>1 DEF DbInv, Connections
  <1>5. CASE statement[p] \in Base!Statements
    <2> DEFINE q == session[client[p]].queue
    <2>1. q \in Seq(Base!Done) /\ q # <<>> /\ Awaited(session[client[p]]).job = job[p]
      BY <1>1, <1>2, <1>5 DEF Owned, Conns
    <2>2. Len(q) \in 1..Len(q)
      BY <2>1
    <2>3. job[p] = j
      BY <1>4, <2>1, <2>2 DEF Conn, Awaited
    <2> QED
      BY <1>1, <1>2, <1>3, <1>4, <2>3
  <1>6. CASE statement[p] \notin Base!Statements
    <2>1. Fresh(session[client[p]])
      BY <1>2, <1>6 DEF Owned
    <2> QED
      BY <1>1, <1>2, <1>3, <2>1, ConnFresh
  <1> QED
    BY <1>5, <1>6

\* A new connection.
LEMMA OpenedIs ==
  ASSUME NEW c, c = [Base!Closed EXCEPT !.live = TRUE]
  PROVE  c \in Conns /\ c.live /\ Fresh(c)
  <1>1. <<>> \in Seq(Base!Done) /\ {} \in SUBSET Base!Done
    OBVIOUS
  <1> QED
    BY <1>1 DEF Base!Closed, Conns, Fresh

\* A transaction begins on the connection of the process, or on a new one.
LEMMA ConnectKeeps == ASSUME DbInv, NEW p \in Requests, Base!Connect(p) PROVE DbInv'
  <1>1. /\ statement[p] = "idle" /\ statement[p] \notin Base!Statements /\ "BEGIN" \in Base!Statements
        /\ UNCHANGED <<kept, lock, job, begun>>
    BY DEF Base!Connect, Base!Statements, Base!Changes
  <1>2. PICK s \in Sessions, c \in Conns :
          /\ Base!Send(p, s, "BEGIN", c) /\ c.live /\ Fresh(c) /\ client' = [client EXCEPT ![p] = s]
          /\ \A r \in Requests \ {p} : client[r] # s
    <2>1. CASE client[p] # None
      <3>1. /\ client[p] \in Sessions /\ session[client[p]] \in Conns
            /\ Owned(session[client[p]], statement[p], job[p]) /\ \A r \in Requests \ {p} : client[r] # client[p]
        BY <2>1, Has
      <3>2. Base!Send(p, client[p], "BEGIN", session[client[p]]) /\ client' = client
        BY <2>1 DEF Base!Connect
      <3>3. client' = [client EXCEPT ![p] = client[p]]
        BY <3>2 DEF DbInv, DbTypes
      <3> QED
        BY <1>1, <3>1, <3>2, <3>3 DEF Owned
    <2>2. CASE client[p] = None
      <3>1. PICK s \in Sessions :
              /\ ~session[s].live /\ client' = [client EXCEPT ![p] = s]
              /\ Base!Send(p, s, "BEGIN", [Base!Closed EXCEPT !.live = TRUE])
        BY <2>2 DEF Base!Connect
      <3>2. \A r \in Requests : client[r] # s
        BY <3>1 DEF DbInv, Owners, Served, Owned, DbTypes
      <3> QED
        BY <3>1, <3>2, OpenedIs
    <2> QED
      BY <2>1, <2>2
  <1>3. Base!Recorded' = Base!Recorded /\ InOrder' /\ NothingCommitsLater
    <2>1. Base!Recorded' = Base!Recorded /\ Base!Applied' = Base!Applied
      BY <1>1 DEF Base!Recorded, Base!Applied, Base!Statement
    <2> QED
      BY <2>1 DEF DbInv, InOrder
  <1>4. Ready(job[p], Base!Recorded')
    BY <1>3 DEF DbInv, Owners, Served
  <1>5. Conn(s, c, job[p], lock', Base!Recorded', sent) /\ c.queue = <<>>
        /\ Due(s, c, job[p], "BEGIN", lock', Base!Recorded')
    BY <1>2, <1>4, ConnFresh DEF Fresh, Due
  <1>6. /\ client'[p] = s /\ (\A r \in Requests \ {p} : client'[r] = client[r] /\ client[r] # s)
        /\ client' \in [Requests -> Sessions \cup {None}] /\ kept' \subseteq Base!Done /\ lock' \in Sessions \cup {None}
        /\ \A q \in kept' : q.job \in sent
    BY <1>1, <1>2, <1>3 DEF DbInv, DbTypes, NothingCommitsLater, Base!NothingCommitsLater
  <1> QED
    BY <1>1, <1>2, <1>3, <1>5, <1>6, Sends

\* A process gives up a statement, and sends ROLLBACK behind it.
LEMMA GiveUpKeeps == ASSUME DbInv, NEW p \in Requests, Base!GiveUp(p) PROVE DbInv'
  <1>1. /\ statement[p] \in Base!Statements /\ "ROLLBACK" \in Base!Statements
        /\ Base!Send(p, client[p], "ROLLBACK", session[client[p]]) /\ UNCHANGED <<kept, lock, client, job, begun>>
    BY DEF Base!GiveUp, Base!Statements
  <1>2. client[p] # None
    BY <1>1 DEF DbInv, Owners, Served
  <1>3. PICK s \in Sessions, c \in Conns :
          /\ s = client[p] /\ c = session[s] /\ Owned(c, statement[p], job[p])
          /\ Conn(s, c, job[p], lock, Base!Recorded, sent) /\ \A r \in Requests \ {p} : client[r] # s
    BY <1>2, Has
  <1>4. Base!Recorded' = Base!Recorded /\ InOrder'
    <2>1. Base!Recorded' = Base!Recorded /\ Base!Applied' = Base!Applied
      BY <1>1 DEF Base!Recorded, Base!Applied, Base!Statement
    <2> QED
      BY <2>1 DEF DbInv, InOrder
  <1>5. /\ client'[p] = s /\ (\A r \in Requests \ {p} : client'[r] = client[r] /\ client[r] # s)
        /\ client' \in [Requests -> Sessions \cup {None}] /\ kept' \subseteq Base!Done /\ lock' \in Sessions \cup {None}
        /\ \A q \in kept' : q.job \in sent
    BY <1>1, <1>3 DEF DbInv, DbTypes, NothingCommitsLater, Base!NothingCommitsLater
  <1>6. Base!Send(p, s, "ROLLBACK", c) /\ c.live /\ Conn(s, c, job[p], lock', Base!Recorded', sent)
    BY <1>1, <1>3, <1>4 DEF Owned
  <1> QED
    BY <1>1, <1>4, <1>5, <1>6, Sends

\* A process drops the connection it has.
LEMMA Leaves ==
  ASSUME DbInv, NEW p \in Requests, client[p] # None, NEW st \in {"idle", "down"},
         session' = [session EXCEPT ![client[p]] = Base!Abandoned(@)], client' = [client EXCEPT ![p] = None],
         statement' = [statement EXCEPT ![p] = st], UNCHANGED <<kept, lock, job, begun, sent>>
  PROVE  DbInv'
  <1>1. PICK s \in Sessions, c \in Conns, j \in Base!Jobs :
          /\ s = client[p] /\ c = session[s] /\ j = job[p]
          /\ Conn(s, c, j, lock, Base!Recorded, sent) /\ \A r \in Requests \ {p} : client[r] # s
    <2>1. job[p] \in Base!Jobs
      BY DEF DbInv, DbTypes
    <2> QED
      BY <2>1, Has
  <1>2. PICK d \in Conns : d = Base!Abandoned(c) /\ Conn(s, d, j, lock, Base!Recorded, sent)
    BY <1>1, ConnLeft
  <1>3. session' = [session EXCEPT ![s] = d]
    BY <1>1, <1>2
  <1>4. Base!Recorded' = Base!Recorded /\ InOrder' /\ NothingCommitsLater'
    BY KeptStays
  <1>5. /\ session' \in [Sessions -> Conns] /\ session'[s] = d /\ (\A t \in Sessions \ {s} : session'[t] = session[t])
        /\ Connections'
    BY <1>2, <1>3, <1>4, ConnectionsMove
  <1>6. /\ client'[p] = None /\ statement'[p] = st /\ st \notin Base!Statements
        /\ \A r \in Requests \ {p} : client'[r] = client[r] /\ statement'[r] = statement[r]
    BY DEF DbInv, DbTypes, Base!Statements, Base!Changes
  <1>7. Served(p)'
    BY <1>4, <1>6 DEF DbInv, Owners, Served, Ready, Base!Statements
  <1>8. Owners'
    <2>1. \A r \in Requests : \/ client'[r] = client[r] /\ statement'[r] = statement[r] /\ job'[r] = job[r] /\ client[r] # s
                              \/ Served(r)'
      BY <1>1, <1>6, <1>7
    <2> QED
      BY <1>4, <1>5, <2>1, OwnersMove
  <1>9. DbTypes'
    <2>1. client' \in [Requests -> Sessions \cup {None}]
      BY DEF DbInv, DbTypes
    <2>2. statement' \in [Requests -> Base!Statements \cup {"down", "idle", "rest"}]
      BY DEF DbInv, DbTypes
    <2> QED
      BY <1>5, <2>1, <2>2 DEF DbInv, DbTypes, Base!Done, Base!Jobs, Base!Statements, Conns
  <1>10. Single'
    BY <1>6 DEF DbInv, Single
  <1> QED
    BY <1>4, <1>5, <1>8, <1>9, <1>10 DEF DbInv

\* Nor is there an answer to the ROLLBACK, and the connection is dropped.
LEMMA GiveUpRollbackKeeps == ASSUME DbInv, NEW p \in Requests, Base!GiveUpRollback(p) PROVE DbInv'
  <1>1. PICK st \in {"idle", "down"} : statement' = [statement EXCEPT ![p] = st]
    BY DEF Base!GiveUpRollback, Base!Over
  <1>2. /\ statement[p] \in Base!Statements /\ UNCHANGED <<kept, lock, job, begun, sent>>
        /\ client' = [client EXCEPT ![p] = None] /\ session' = [session EXCEPT ![client[p]] = Base!Abandoned(@)]
    BY DEF Base!GiveUpRollback, Base!Released, Base!Statements
  <1>3. client[p] # None
    BY <1>2 DEF DbInv, Owners, Served
  <1> QED
    BY <1>1, <1>2, <1>3, Leaves

\* A process dies.
LEMMA DieKeeps == ASSUME DbInv, NEW p \in Requests, Base!Die(p) PROVE DbInv'
  <1>1. /\ statement' = [statement EXCEPT ![p] = "down"] /\ client' = [client EXCEPT ![p] = None]
        /\ session' = IF client[p] = None THEN session ELSE [session EXCEPT ![client[p]] = Base!Abandoned(@)]
        /\ UNCHANGED <<kept, lock, job, begun, sent>>
    BY DEF Base!Die
  <1>2. CASE client[p] = None
    <2>1. client' = client /\ session' = session
      BY <1>1, <1>2 DEF DbInv, DbTypes
    <2>2. statement[p] \notin Base!Statements
      BY <1>2 DEF DbInv, Owners, Served
    <2> QED
      BY <1>1, <2>1, <2>2, Moves
  <1>3. CASE client[p] # None
    BY <1>1, <1>3, Leaves
  <1> QED
    BY <1>2, <1>3

-----------------------------------------------------------------------------
(* The steps of the server.                                                *)

\* A transaction is over, and its process is at none.
LEMMA Rests ==
  ASSUME DbInv, NEW p \in Requests, NEW s \in Sessions, NEW d \in Conns, NEW j \in Base!Jobs,
         client[p] = s, d.live, Fresh(d), Conn(s, d, j, lock', Base!Recorded', sent),
         NEW st \in {"idle", "down", "rest"}, statement' = [statement EXCEPT ![p] = st],
         session' = [session EXCEPT ![s] = d], UNCHANGED <<client, sent>>,
         job' \in [Requests -> Base!Jobs], \A r \in Requests \ {p} : job'[r] = job[r], Ready(job'[p], Base!Recorded'),
         begun' \in 0..MaxWork, kept' \subseteq Base!Done, lock' \in Sessions \cup {None},
         InOrder', \A q \in kept' : q.job \in sent, Base!Recorded \subseteq Base!Recorded',
         \A t \in Sessions \ {s} : lock = t => lock' = t /\ Base!Recorded' = Base!Recorded
  PROVE  DbInv'
  <1>1. /\ session' \in [Sessions -> Conns] /\ session'[s] = d /\ (\A t \in Sessions \ {s} : session'[t] = session[t])
        /\ Connections'
    BY ConnectionsMove
  <1>2. /\ statement'[p] = st /\ st \notin Base!Statements /\ \A r \in Requests \ {p} : statement'[r] = statement[r]
    BY DEF DbInv, DbTypes, Base!Statements, Base!Changes
  <1>3. Served(p)'
    BY <1>1, <1>2 DEF Served, Owned, Base!Statements
  <1>4. \A r \in Requests \ {p} : client[r] # s
    BY DEF DbInv, Single
  <1>5. Owners'
    <2>1. \A r \in Requests : \/ client'[r] = client[r] /\ statement'[r] = statement[r] /\ job'[r] = job[r] /\ client[r] # s
                              \/ Served(r)'
      BY <1>2, <1>3, <1>4
    <2> QED
      BY <1>1, <2>1, OwnersMove
  <1>6. DbTypes' /\ Single' /\ NothingCommitsLater'
    BY <1>1 DEF DbInv, DbTypes, Single, Base!Done, Base!Jobs, Base!Statements, Conns,
                NothingCommitsLater, Base!NothingCommitsLater
  <1> QED
    BY <1>1, <1>5, <1>6 DEF DbInv

\* What is behind the first statement ends as the whole.
LEMMA AwaitedBehind ==
  ASSUME NEW c \in Conns, NEW d \in Conns, c.queue # <<>>, d.queue = Tail(c.queue)
  PROVE  /\ d.queue # <<>> => Awaited(d) = Awaited(c) /\ Len(c.queue) # 1
         /\ d.queue = <<>> => Awaited(c) = Head(c.queue)
  <1>1. /\ Head(c.queue) = c.queue[1] /\ Len(c.queue) \in Nat /\ Len(c.queue) >= 1
        /\ Len(d.queue) = Len(c.queue) - 1 /\ (\A i \in 1..Len(d.queue) : d.queue[i] = c.queue[i + 1])
        /\ d.queue = <<>> <=> Len(c.queue) = 1
    BY QueueTail DEF Conns
  <1>2. CASE Len(c.queue) = 1
    BY <1>1, <1>2 DEF Awaited
  <1>3. CASE Len(c.queue) # 1
    <2>1. Len(d.queue) \in 1..Len(d.queue) /\ Len(d.queue) + 1 = Len(c.queue)
      BY <1>1, <1>3
    <2>2. d.queue[Len(d.queue)] = c.queue[Len(c.queue)]
      BY <1>1, <2>1
    <2> QED
      BY <1>1, <1>3, <2>2 DEF Awaited
  <1> QED
    BY <1>2, <1>3

\* migrate, and what runs after it, as Then has it.
LEMMA FollowingIs ==
  ASSUME NEW p \in Requests, NEW does
  PROVE  Base!Following(p, does) = Then(does, job[p], Base!Recorded)
  BY DEF Base!Following, Base!Serving, Then

\* Every statement is followed by one.
LEMMA ThenTyped == ASSUME NEW does, NEW j, NEW rec PROVE Then(does, j, rec) \in Base!Statements
  BY DEF Then, Base!Statements, Base!Changes

\* The server has done a statement, well or not, and who waits for it goes on.
LEMMA Answers ==
  ASSUME DbInv, NEW s \in Sessions, NEW c \in Conns, NEW d \in Conns, NEW j \in Base!Jobs, NEW ok \in BOOLEAN,
         c = session[s], c.live, c.queue # <<>>, d.live, d.queue = Tail(c.queue), NEW q, q = Head(c.queue),
         Conn(s, c, j, lock, Base!Recorded, sent), Conn(s, d, j, lock', Base!Recorded', sent),
         q.does \notin {"COMMIT", "ROLLBACK"} /\ ok => Due(s, d, j, Then(q.does, j, Base!Recorded), lock', Base!Recorded'),
         q.does = "ROLLBACK" \/ (q.does = "COMMIT" /\ ok) => d.wrote = {} /\ d.tx = "none",
         q.does = "COMMIT" /\ ok => (j \in 1..Migrations => j \in Base!Recorded'),
         Base!Answer(s, d, q, ok), kept' \subseteq Base!Done, lock' \in Sessions \cup {None},
         InOrder', \A x \in kept' : x.job \in sent, Base!Recorded \subseteq Base!Recorded',
         \A t \in Sessions \ {s} : lock = t => lock' = t /\ Base!Recorded' = Base!Recorded
  PROVE  DbInv'
  <1> DEFINE here == {p \in Requests : client[p] = s /\ statement[p] = q.does}
  <1>1. ASSUME NEW p \in Requests, client[p] = s
        PROVE  /\ statement[p] \in Base!Statements /\ Awaited(c).does = statement[p] /\ job[p] = j
               /\ statement[p] # "ROLLBACK" => Len(c.queue) = 1
    <2>1. Owned(c, statement[p], job[p])
      BY <1>1 DEF DbInv, Owners, Served
    <2>2. Awaited(c).job = j
      <3>1. Len(c.queue) \in 1..Len(c.queue)
        BY QueueTail DEF Conns
      <3> QED
        BY <3>1 DEF Conn, Awaited
    <2> QED
      BY <2>1, <2>2 DEF Owned, Fresh
  <1>2. CASE d.queue # <<>> \/ here = {}
    <2>1. session' = [session EXCEPT ![s] = d] /\ UNCHANGED <<client, statement, job, begun, sent>>
      BY <1>2 DEF Base!Answer
    <2>2. /\ session' \in [Sessions -> Conns] /\ session'[s] = d /\ (\A t \in Sessions \ {s} : session'[t] = session[t])
          /\ Connections'
      BY <2>1, ConnectionsMove
    <2>3. ASSUME NEW p \in Requests, client[p] = s PROVE Served(p)'
      <3>1. d.queue # <<>>
        BY <1>1, <1>2, <2>3, AwaitedBehind
      <3>2. Awaited(d).does = statement[p] /\ Awaited(d).job = j /\ statement[p] = "ROLLBACK"
        <4>1. Awaited(d) = Awaited(c) /\ Len(c.queue) # 1
          BY <3>1, AwaitedBehind
        <4>2. Awaited(c).job = j
          <5>1. Len(c.queue) \in 1..Len(c.queue)
            BY QueueTail DEF Conns
          <5> QED
            BY <5>1 DEF Conn, Awaited
        <4> QED
          BY <1>1, <2>3, <4>1, <4>2
      <3>3. Ready(job[p], Base!Recorded')
        BY DEF DbInv, Owners, Served, Ready
      <3> QED
        BY <1>1, <2>1, <2>2, <2>3, <3>1, <3>2, <3>3 DEF Served, Owned, Base!Statements
    <2>4. Owners'
      <3>1. \A r \in Requests : \/ client'[r] = client[r] /\ statement'[r] = statement[r] /\ job'[r] = job[r] /\ client[r] # s
                                \/ Served(r)'
        BY <2>1, <2>3
      <3> QED
        BY <2>2, <3>1, OwnersMove
    <2>5. DbTypes' /\ Single' /\ NothingCommitsLater'
      BY <2>1, <2>2 DEF DbInv, DbTypes, Single, Base!Done, Base!Jobs, Base!Statements, Conns,
                        NothingCommitsLater, Base!NothingCommitsLater
    <2> QED
      BY <2>2, <2>4, <2>5 DEF DbInv
  <1>3. ASSUME d.queue = <<>>, NEW p \in here, q.does = "ROLLBACK", Base!Over(p), session' = [session EXCEPT ![s] = d],
               UNCHANGED <<client, job, begun, sent>>
        PROVE  DbInv'
    <2>1. PICK st \in {"idle", "down", "rest"} : statement' = [statement EXCEPT ![p] = st]
      BY <1>3 DEF Base!Over
    <2>2. p \in Requests /\ client[p] = s /\ Fresh(d)
      BY <1>3 DEF Fresh
    <2>3. /\ job' \in [Requests -> Base!Jobs] /\ (\A r \in Requests \ {p} : job'[r] = job[r])
          /\ begun' \in 0..MaxWork /\ Ready(job'[p], Base!Recorded')
      BY <1>3, <2>2 DEF DbInv, DbTypes, Owners, Served, Ready
    <2> QED
      BY <1>3, <2>1, <2>2, <2>3, Rests
  <1>4. ASSUME d.queue = <<>>, NEW p \in here, q.does = "COMMIT", ok, Base!NextJob(p), session' = [session EXCEPT ![s] = d],
               UNCHANGED <<client, sent>>
        PROVE  DbInv'
    <2>1. PICK st \in {"idle", "down", "rest"} : statement' = [statement EXCEPT ![p] = st]
      BY <1>4 DEF Base!NextJob
    <2>2. p \in Requests /\ client[p] = s /\ Fresh(d) /\ job[p] = j /\ (j \in 1..Migrations => j \in Base!Recorded')
      BY <1>1, <1>4 DEF Fresh
    <2>3. j \in Nat /\ begun \in 0..MaxWork /\ job \in [Requests -> Base!Jobs]
      BY DEF DbInv, DbTypes, Base!Jobs
    <2>4. PICK i \in Base!Jobs : job' = [job EXCEPT ![p] = i] /\ Ready(i, Base!Recorded') /\ begun' \in 0..MaxWork
      <3>1. Ready(j, Base!Recorded')
        BY DEF Conn
      <3>2. CASE job[p] < Migrations /\ job' = [job EXCEPT ![p] = @ + 1] /\ begun' = begun
        <4>1. j + 1 \in Base!Jobs
          BY <2>2, <2>3, <3>2 DEF Base!Jobs
        <4>2. Ready(j + 1, Base!Recorded')
          BY <2>2, <2>3, <3>1 DEF Ready
        <4> QED
          BY <2>2, <2>3, <3>2, <4>1, <4>2
      <3>3. CASE job[p] >= Migrations /\ begun < MaxWork /\ begun' = begun + 1 /\ job' = [job EXCEPT ![p] = Migrations + begun']
        <4>1. Migrations + begun' \in Base!Jobs /\ begun' \in 0..MaxWork
          BY <2>3, <3>3 DEF Base!Jobs
        <4>2. Ready(Migrations + begun', Base!Recorded')
          BY <2>2, <2>3, <3>1, <3>3 DEF Ready
        <4> QED
          BY <3>3, <4>1, <4>2
      <3>4. CASE job' = job /\ begun' = begun
        BY <2>2, <2>3, <3>1, <3>4
      <3> QED
        BY <1>4, <3>2, <3>3, <3>4 DEF Base!NextJob
    <2>5. /\ job' \in [Requests -> Base!Jobs] /\ (\A r \in Requests \ {p} : job'[r] = job[r])
          /\ begun' \in 0..MaxWork /\ Ready(job'[p], Base!Recorded')
      BY <2>2, <2>3, <2>4
    <2> QED
      BY <1>4, <2>1, <2>2, <2>5, Rests
  <1>5. ASSUME d.queue = <<>>, NEW p \in here, ~(q.does = "COMMIT" /\ ok), q.does # "ROLLBACK",
               Base!Send(p, s, IF ok THEN Base!Following(p, q.does) ELSE "ROLLBACK", d), UNCHANGED <<client, job, begun>>
        PROVE  DbInv'
    <2>1. p \in Requests /\ client[p] = s /\ job[p] = j
      BY <1>1, <1>5
    <2>2. PICK does \in Base!Statements :
            /\ Base!Send(p, s, does, d)
            /\ does = "ROLLBACK" \/ Due(s, d, j, does, lock', Base!Recorded')
      <3>1. CASE ok
        BY <1>5, <2>1, <3>1, FollowingIs, ThenTyped
      <3>2. CASE ~ok
        <4>1. "ROLLBACK" \in Base!Statements
          BY DEF Base!Statements
        <4> QED
          BY <1>5, <3>2, <4>1
      <3> QED
        BY <3>1, <3>2
    <2>3. /\ client'[p] = s /\ (\A r \in Requests \ {p} : client'[r] = client[r] /\ client[r] # s)
          /\ client' \in [Requests -> Sessions \cup {None}]
      BY <1>5, <2>1 DEF DbInv, DbTypes, Single
    <2> QED
      BY <1>5, <2>1, <2>2, <2>3, Sends
  <1>6. CASE d.queue = <<>> /\ here # {}
    <2>1. PICK p \in here :
            CASE q.does = "ROLLBACK"       -> Base!Over(p) /\ session' = [session EXCEPT ![s] = d]
                                              /\ UNCHANGED <<client, job, begun, sent>>
              [] q.does = "COMMIT" /\ ok   -> Base!NextJob(p) /\ session' = [session EXCEPT ![s] = d] /\ UNCHANGED <<client, sent>>
              [] OTHER                     -> /\ Base!Send(p, s, IF ok THEN Base!Following(p, q.does) ELSE "ROLLBACK", d)
                                              /\ UNCHANGED <<client, job, begun>>
      BY <1>6 DEF Base!Answer
    <2> HIDE DEF here
    <2> QED
      BY <1>3, <1>4, <1>5, <1>6, <2>1
  <1> QED
    BY <1>2, <1>6

\* A statement fails.
LEMMA RejectKeeps == ASSUME DbInv, NEW s \in Sessions, Base!Reject(s) PROVE DbInv'
  <1>1. PICK c \in Conns, j \in Base!Jobs : c = session[s] /\ Conn(s, c, j, lock, Base!Recorded, sent)
    BY DEF DbInv, DbTypes, Connections
  <1>2. PICK d, q : d = Failed(c) /\ q = Head(c.queue)
    OBVIOUS
  <1>3. /\ c.live /\ c.queue # <<>> /\ q.does \in Base!Changes \cup {"CHECK", "LOCK"}
        /\ Base!Answer(s, d, q, FALSE) /\ UNCHANGED <<kept, lock>>
    BY <1>1, <1>2 DEF Base!Reject, Failed
  <1>4. d \in Conns /\ d.live = c.live /\ d.queue = Tail(c.queue) /\ Conn(s, d, j, lock, Base!Recorded, sent)
    BY <1>1, <1>2, <1>3, FailedIs, ConnRejects
  <1>5. q.does \notin {"COMMIT", "ROLLBACK"}
    BY <1>3 DEF Base!Changes
  <1>6. Base!Recorded' = Base!Recorded /\ InOrder'
    <2>1. Base!Recorded' = Base!Recorded /\ Base!Applied' = Base!Applied
      BY <1>3 DEF Base!Recorded, Base!Applied, Base!Statement
    <2> QED
      BY <2>1 DEF DbInv, InOrder
  <1>7. /\ kept' \subseteq Base!Done /\ lock' \in Sessions \cup {None} /\ (\A x \in kept' : x.job \in sent)
        /\ Conn(s, d, j, lock', Base!Recorded', sent)
    BY <1>3, <1>4, <1>6 DEF DbInv, DbTypes, NothingCommitsLater, Base!NothingCommitsLater
  <1>8. PICK ok \in BOOLEAN : ok = FALSE
    OBVIOUS
  <1> QED
    BY <1>1, <1>2, <1>3, <1>4, <1>5, <1>6, <1>7, <1>8, Answers

\* What commits is one migration with its record, the next one; or it is none.
LEMMA CommitsOne ==
  ASSUME DbInv, NEW s \in Sessions, NEW c \in Conns, NEW j \in Base!Jobs,
         Conn(s, c, j, lock, Base!Recorded, sent), c.tx = "open", kept' = kept \cup c.wrote,
         Holds(c, "APPLY", j) => Holds(c, "RECORD", j)
  PROVE  /\ InOrder' /\ Base!Recorded \subseteq Base!Recorded'
         /\ Holds(c, "RECORD", j) /\ j \in 1..Migrations => j \in Base!Recorded'
         /\ lock # s => Base!Recorded' = Base!Recorded
  <1>1. \A q \in c.wrote : q.job = j
    BY DEF Conn
  <1>2. \A does, k : Base!Statement(does, k) \in c.wrote => k = j
    BY <1>1 DEF Base!Statement
  <1>3. /\ Base!Recorded' = Base!Recorded \cup (IF Holds(c, "RECORD", j) /\ j \in 1..Migrations THEN {j} ELSE {})
        /\ Base!Applied' = Base!Applied \cup (IF Holds(c, "APPLY", j) /\ j \in 1..Migrations THEN {j} ELSE {})
    BY <1>2 DEF Base!Recorded, Base!Applied, Holds, Base!Statement
  <1>4. Holds(c, "RECORD", j) <=> Holds(c, "APPLY", j)
    BY DEF Conn
  <1>5. Holds(c, "APPLY", j) => Turn(s, j, lock, Base!Recorded)
    BY DEF Conn
  <1>6. PICK k \in 0..Migrations : Base!Recorded = 1..k /\ Base!Applied = 1..k
    BY DEF DbInv, InOrder
  <1>7. CASE Holds(c, "APPLY", j)
    <2>1. j \in 1..Migrations /\ j \notin 1..k /\ lock = s
      BY <1>5, <1>6, <1>7 DEF Turn
    <2>2. \A i \in 1..Migrations : i < j => i \in 1..k
      BY <1>6 DEF Conn, Ready
    <2>3. j = k + 1
      <3>1. j > k
        BY <2>1
      <3>2. CASE j > k + 1
        <4>1. k + 1 \in 1..Migrations /\ k + 1 < j /\ k + 1 \notin 1..k
          BY <2>1, <3>2
        <4> QED
          BY <2>2, <4>1
      <3> QED
        BY <2>1, <3>1, <3>2
    <2>4. Base!Recorded' = 1..(k + 1) /\ Base!Applied' = 1..(k + 1) /\ k + 1 \in 0..Migrations
      <3>1. 1..(k + 1) = 1..k \cup {k + 1}
        OBVIOUS
      <3> QED
        BY <1>3, <1>4, <1>6, <1>7, <2>1, <2>3, <3>1
    <2> QED
      BY <1>3, <2>1, <2>4 DEF InOrder
  <1>8. CASE ~Holds(c, "APPLY", j)
    <2>1. Base!Recorded' = Base!Recorded /\ Base!Applied' = Base!Applied
      BY <1>3, <1>4, <1>8
    <2> QED
      BY <1>4, <1>6, <1>8, <2>1 DEF InOrder
  <1> QED
    BY <1>7, <1>8

\* A statement succeeds.
LEMMA PerformKeeps == ASSUME DbInv, NEW s \in Sessions, Base!Perform(s) PROVE DbInv'
  <1>1. PICK c \in Conns, j \in Base!Jobs : c = session[s] /\ Conn(s, c, j, lock, Base!Recorded, sent)
    BY DEF DbInv, DbTypes, Connections
  <1>2. PICK d, q, does : d = Succeeded(c) /\ q = Head(c.queue) /\ does = q.does
    OBVIOUS
  <1>3. /\ c.live /\ c.queue # <<>> /\ (c.tx = "failed" => does \in {"COMMIT", "ROLLBACK"})
        /\ Base!Answer(s, d, q, TRUE)
        /\ kept' = IF does = "COMMIT" /\ c.tx = "open" THEN kept \cup c.wrote ELSE kept
        /\ IF does = "LOCK" THEN lock \in {None, s} /\ lock' = s
           ELSE IF does \in {"COMMIT", "ROLLBACK"} THEN Base!Unlocked(s) ELSE UNCHANGED lock
    BY <1>1, <1>2 DEF Base!Perform, Succeeded
  <1>4. does = c.queue[1].does /\ q \in Base!Done
    BY <1>2, <1>3, QueueTail DEF Conns
  <1>5. does = "COMMIT" => /\ c.tx = "open" /\ j \in sent /\ (Holds(c, "APPLY", j) => Holds(c, "RECORD", j))
                           /\ (j \in 1..Migrations => j \in Base!Recorded \/ Holds(c, "RECORD", j))
    <2>1. 1 \in 1..Len(c.queue)
      BY <1>3, QueueTail DEF Conns
    <2> QED
      BY <1>1, <1>3, <1>4, <2>1 DEF Conn, Due
  <1>6. /\ InOrder' /\ Base!Recorded \subseteq Base!Recorded' /\ (does # "COMMIT" => Base!Recorded' = Base!Recorded)
        /\ (does = "COMMIT" /\ j \in 1..Migrations /\ Holds(c, "RECORD", j) => j \in Base!Recorded')
        /\ (lock # s => Base!Recorded' = Base!Recorded)
    <2>1. CASE does = "COMMIT"
      <3>1. kept' = kept \cup c.wrote
        BY <1>3, <1>5, <2>1
      <3> QED
        BY <1>1, <1>5, <2>1, <3>1, CommitsOne
    <2>2. CASE does # "COMMIT"
      <3>1. Base!Recorded' = Base!Recorded /\ Base!Applied' = Base!Applied
        BY <1>3, <2>2 DEF Base!Recorded, Base!Applied, Base!Statement
      <3> QED
        BY <2>2, <3>1 DEF DbInv, InOrder
    <2> QED
      BY <2>1, <2>2
  <1>7. /\ kept' \subseteq Base!Done /\ (\A x \in kept' : x.job \in sent)
    <2>1. \A x \in c.wrote : x.job = j /\ x \in Base!Done
      BY <1>1 DEF Conn, Conns
    <2> QED
      BY <1>3, <1>5, <2>1 DEF DbInv, DbTypes, NothingCommitsLater, Base!NothingCommitsLater
  <1>8. /\ lock' \in Sessions \cup {None} /\ (does = "LOCK" => lock' = s)
        /\ (does \notin {"LOCK", "COMMIT", "ROLLBACK"} => lock' = lock)
        /\ \A t \in Sessions \ {s} : lock = t => lock' = t
    BY <1>3 DEF Base!Unlocked, DbInv, DbTypes
  <1>9. PICK lk, rec, sn : lk = lock' /\ rec = Base!Recorded' /\ sn = sent
    OBVIOUS
  <1>10. does = "COMMIT" /\ Holds(c, "RECORD", j) => j \in rec
    <2>1. does = "COMMIT" /\ Holds(c, "RECORD", j) => j \in 1..Migrations
      BY <1>1, <1>5 DEF Conn, Turn
    <2> QED
      BY <1>6, <1>9, <2>1
  <1>11. /\ d \in Conns /\ d.live = c.live /\ d.queue = Tail(c.queue)
         /\ does \in {"COMMIT", "ROLLBACK"} => d.wrote = {} /\ d.tx = "none"
    <2>1. q = c.queue[1] /\ (q.does = "BEGIN" => c.tx = "none")
      BY <1>1, <1>2, <1>3, <1>4, QueueTail DEF Conns, Conn, Due
    <2> QED
      BY <1>2, <1>3, <2>1, SucceededIs
  <1>12. PICK ok \in BOOLEAN : ok = TRUE
    OBVIOUS
  <1>13. /\ Conn(s, d, j, lk, rec, sn)
         /\ does \notin {"COMMIT", "ROLLBACK"} => Due(s, d, j, Then(does, j, Base!Recorded), lk, rec)
    <2>1. Base!Recorded \subseteq rec /\ (does # "COMMIT" => rec = Base!Recorded) /\ (does = "LOCK" => lk = s)
          /\ (does \notin {"LOCK", "COMMIT", "ROLLBACK"} => lk = lock)
      BY <1>6, <1>8, <1>9
    <2>2. PICK lk1, rec1 : lk1 = lock /\ rec1 = Base!Recorded
      OBVIOUS
    <2>3. Conn(s, c, j, lk1, rec1, sn) /\ c.queue # <<>> /\ (c.tx = "failed" => does \in {"COMMIT", "ROLLBACK"})
          /\ rec1 \subseteq rec /\ (does # "COMMIT" => rec = rec1)
          /\ (does \notin {"LOCK", "COMMIT", "ROLLBACK"} => lk = lk1)
      BY <1>1, <1>3, <1>9, <2>1, <2>2
    <2>4. /\ Conn(s, Succeeded(c), j, lk, rec, sn)
          /\ does \notin {"COMMIT", "ROLLBACK"} => Due(s, Succeeded(c), j, Then(does, j, rec1), lk, rec)
      <3>1. c \in Conns /\ j \in Base!Jobs /\ does = c.queue[1].does /\ (does = "LOCK" => lk = s)
            /\ (does = "COMMIT" /\ Holds(c, "RECORD", j) => j \in rec)
        BY <1>4, <1>10, <2>1
      <3>2. Conn(s, Succeeded(c), j, lk, rec, sn)
        BY ONLY <2>3, <3>1, ConnPerforms
      <3>3. does \notin {"COMMIT", "ROLLBACK"} => Due(s, Succeeded(c), j, Then(does, j, rec1), lk, rec)
        BY ONLY <2>3, <3>1, ConnPerforms
      <3> QED
        BY <3>2, <3>3
    <2> QED
      BY <1>2, <2>2, <2>4
  <1>14. /\ Conn(s, d, j, lock', Base!Recorded', sent) /\ d.live
         /\ (does \notin {"COMMIT", "ROLLBACK"} => Due(s, d, j, Then(does, j, Base!Recorded), lock', Base!Recorded'))
         /\ (does = "COMMIT" => (j \in 1..Migrations => j \in Base!Recorded'))
    BY <1>3, <1>5, <1>6, <1>9, <1>11, <1>13
  <1>15. \A t \in Sessions \ {s} : lock = t => lock' = t /\ Base!Recorded' = Base!Recorded
    BY <1>6, <1>8
  <1> QED
    BY <1>1, <1>2, <1>3, <1>6, <1>7, <1>8, <1>11, <1>12, <1>14, <1>15, Answers

\* A connection ends, and its process has none.
LEMMA DisconnectKeeps == ASSUME DbInv, NEW s \in Sessions, Base!Disconnect(s) PROVE DbInv'
  <1>1. /\ session' = [session EXCEPT ![s] = Base!Closed] /\ Base!Unlocked(s) /\ UNCHANGED <<kept, job, begun, sent>>
        /\ client' = [p \in Requests |-> IF client[p] = s THEN None ELSE client[p]]
        /\ statement' = [p \in Requests |-> IF client[p] = s /\ statement[p] \in Base!Statements
                                            THEN (IF job[p] > Migrations THEN "idle" ELSE "down") ELSE statement[p]]
    BY DEF Base!Disconnect, Base!Serving
  <1>2. PICK c \in Conns : c = Base!Closed /\ Fresh(c)
    <2>1. <<>> \in Seq(Base!Done) /\ {} \in SUBSET Base!Done
      OBVIOUS
    <2>2. Base!Closed \in Conns /\ Fresh(Base!Closed)
      BY <2>1 DEF Base!Closed, Conns, Fresh
    <2> QED
      BY <2>2
  <1>3. Base!Recorded' = Base!Recorded /\ InOrder' /\ NothingCommitsLater'
    BY <1>1, KeptStays
  <1>4. lock' \in Sessions \cup {None} /\ \A t \in Sessions \ {s} : lock = t => lock' = t
    BY <1>1 DEF Base!Unlocked, DbInv, DbTypes
  <1>5. PICK j \in Base!Jobs : Conn(s, session[s], j, lock, Base!Recorded, sent)
    BY DEF DbInv, Connections
  <1>6. Conn(s, c, j, lock', Base!Recorded', sent')
    <2>1. Ready(j, Base!Recorded')
      BY <1>3, <1>5 DEF Conn
    <2> QED
      BY <1>2, <2>1, ConnFresh
  <1>7. /\ session' \in [Sessions -> Conns] /\ session'[s] = c /\ (\A t \in Sessions \ {s} : session'[t] = session[t])
        /\ Connections'
    BY <1>1, <1>2, <1>3, <1>4, <1>6, ConnectionsMove
  <1>8. ASSUME NEW p \in Requests, client[p] = s PROVE Served(p)'
    <2>1. client'[p] = None
      BY <1>1, <1>8
    <2>2. statement'[p] \notin Base!Statements
      BY <1>1, <1>8 DEF Base!Statements, Base!Changes
    <2>3. Ready(job'[p], Base!Recorded')
      BY <1>1, <1>3 DEF DbInv, Owners, Served
    <2> QED
      BY <2>1, <2>2, <2>3 DEF Served, Base!Statements
  <1>9. Owners'
    <2>1. \A r \in Requests : \/ client'[r] = client[r] /\ statement'[r] = statement[r] /\ job'[r] = job[r] /\ client[r] # s
                              \/ Served(r)'
      BY <1>1, <1>8
    <2> QED
      BY <1>3, <1>7, <2>1, OwnersMove
  <1>10. DbTypes'
    <2>1. client' \in [Requests -> Sessions \cup {None}]
      BY <1>1 DEF DbInv, DbTypes
    <2>2. statement' \in [Requests -> Base!Statements \cup {"down", "idle", "rest"}]
      BY <1>1 DEF DbInv, DbTypes
    <2> QED
      BY <1>1, <1>4, <1>7, <2>1, <2>2 DEF DbInv, DbTypes, Base!Done, Base!Jobs, Base!Statements, Conns
  <1>11. Single'
    BY <1>1 DEF DbInv, Single
  <1> QED
    BY <1>3, <1>7, <1>9, <1>10, <1>11 DEF DbInv

-----------------------------------------------------------------------------
(* The theorems.                                                           *)

\* Nothing is made, and nobody is there.
LEMMA DbInit == Base!Init => DbInv
  <1> SUFFICES ASSUME Base!Init PROVE DbInv
    OBVIOUS
  <1>1. Fresh(Base!Closed) /\ Base!Closed \in Conns
    <2>1. <<>> \in Seq(Base!Done) /\ {} \in SUBSET Base!Done
      OBVIOUS
    <2> QED
      BY <2>1 DEF Base!Closed, Conns, Fresh
  <1>2. DbTypes
    BY <1>1 DEF Base!Init, DbTypes, Base!Jobs
  <1>3. Base!Recorded = {} /\ Base!Applied = {}
    BY DEF Base!Init, Base!Recorded, Base!Applied
  <1>4. InOrder
    <2>1. 0 \in 0..Migrations /\ 1..0 = {}
      OBVIOUS
    <2> QED
      BY <1>3, <2>1 DEF InOrder
  <1>5. Ready(0, {})
    BY DEF Ready
  <1>6. Connections
    <2>1. ASSUME NEW s \in Sessions PROVE Conn(s, session[s], 0, lock, Base!Recorded, sent)
      <3>1. session[s] = Base!Closed
        BY DEF Base!Init
      <3> QED
        BY <1>1, <1>3, <1>5, <3>1, ConnFresh
    <2>2. 0 \in Base!Jobs
      BY DEF Base!Jobs
    <2> QED
      BY <2>1, <2>2 DEF Connections
  <1>7. Owners /\ Single
    BY <1>3, <1>5 DEF Base!Init, Owners, Served, Single, Base!Statements, Base!Changes
  <1> QED
    BY <1>2, <1>4, <1>6, <1>7 DEF DbInv, Base!Init, NothingCommitsLater, Base!NothingCommitsLater

\* However many processes, connections and migrations there are.
LEMMA DbInvariant == Base!Spec => []DbInv
  <1>1. DbInv /\ [Base!Next]_(Base!vars) => DbInv'
    <2> SUFFICES ASSUME DbInv, [Base!Next]_(Base!vars) PROVE DbInv'
      OBVIOUS
    <2>1. ASSUME NEW p \in Requests,
                 \/ Base!StartUp(p) \/ Base!Connect(p) \/ Base!Unreachable(p)
                 \/ Base!GiveUp(p) \/ Base!GiveUpRollback(p) \/ Base!Die(p)
          PROVE  DbInv'
      BY <2>1, StartUpKeeps, ConnectKeeps, UnreachableKeeps, GiveUpKeeps, GiveUpRollbackKeeps, DieKeeps
    <2>2. ASSUME NEW s \in Sessions, Base!Perform(s) \/ Base!Reject(s) \/ Base!Disconnect(s) PROVE DbInv'
      BY <2>2, PerformKeeps, RejectKeeps, DisconnectKeeps
    <2>3. CASE UNCHANGED Base!vars
      <3>1. UNCHANGED <<kept, session, lock, client, statement, job, begun, sent>>
        BY <2>3 DEF Base!vars
      <3>2. Base!Recorded' = Base!Recorded /\ InOrder' /\ NothingCommitsLater'
        BY <3>1, KeptStays
      <3>3. DbTypes' /\ Connections' /\ Single'
        BY <3>1, <3>2 DEF DbInv, DbTypes, Connections, Single, Base!Done, Base!Jobs, Base!Statements, Conns
      <3>4. Owners'
        BY <3>1, <3>2 DEF DbInv, Owners, Served, Base!Statements
      <3> QED
        BY <3>2, <3>3, <3>4 DEF DbInv
    <2> QED
      BY <2>1, <2>2, <2>3 DEF Base!Next
  <1> QED
    BY <1>1, DbInit, PTL DEF Base!Spec

\* Migrations are made in order, each together with its record, and one that is
\* under way, even of a process that has given it up, is the next one: however
\* many processes start at once, die, or lose the answer of a COMMIT (migrate).
THEOREM MigrationsCorrect == Base!Spec => []MigrationsInTurn
  <1>1. ASSUME DbInv PROVE MigrationsInTurn
    <2>1. PICK k \in 0..Migrations : Base!Recorded = 1..k /\ Base!Applied = 1..k
      BY <1>1 DEF DbInv, InOrder
    <2>2. Base!Cardinality(Base!Recorded) = k
      <3>1. Base!Cardinality(1..k) = Cardinality(1..k)
        BY DEF Base!Cardinality, Cardinality
      <3>2. Cardinality(1..k) = k
        BY FS_Interval
      <3> QED
        BY <2>1, <3>1, <3>2
    <2>3. ASSUME NEW s \in Sessions, NEW q \in session[s].wrote, q.does = "APPLY", session[s].tx = "open"
          PROVE  q.job = k + 1
      <3>1. PICK j \in Base!Jobs : Conn(s, session[s], j, lock, Base!Recorded, sent)
        BY <1>1 DEF DbInv, Connections
      <3>2. q.job = j /\ q = Base!Statement("APPLY", j)
        BY <1>1, <2>3, <3>1 DEF Conn, DbInv, DbTypes, Conns, Base!Done, Base!Statement
      <3>3. j \in 1..Migrations /\ j \notin 1..k /\ \A i \in 1..Migrations : i < j => i \in 1..k
        BY <2>1, <2>3, <3>1, <3>2 DEF Conn, Holds, Turn, Ready
      <3>4. CASE j > k + 1
        <4>1. k + 1 \in 1..Migrations /\ k + 1 < j /\ k + 1 \notin 1..k
          BY <3>3, <3>4
        <4> QED
          BY <3>3, <4>1
      <3> QED
        BY <3>2, <3>3, <3>4
    <2> QED
      BY <2>1, <2>2, <2>3 DEF MigrationsInTurn, Base!MigrationsInTurn
  <1> QED
    BY <1>1, DbInvariant, PTL

\* What a transaction has done is kept only if its own COMMIT was sent: none
\* begins in what another has left on its connection, so an error the caller
\* was told before that is final (transaction).
THEOREM CommitsAsked == Base!Spec => []NothingCommitsLater
  <1>1. DbInv => NothingCommitsLater
    BY DEF DbInv
  <1> QED
    BY <1>1, DbInvariant, PTL
=============================================================================
