--------------------------- MODULE HttpApiProofs ---------------------------
(***************************************************************************)
(* Theorems of module HttpApi, for every value of its constants.           *)
(***************************************************************************)
EXTENDS HttpApi, FlightOfferRepoProofs

-----------------------------------------------------------------------------
(* A queue in which nobody stands twice.                                   *)

Names == Clients \cup {"worker"}

Members(q) == {q[i] : i \in DOMAIN q}

Distinct(q) == \A i, j \in DOMAIN q : q[i] = q[j] => i = j

\* Who joins the queue stands behind it, once.
LEMMA JoinQueue ==
  ASSUME NEW q \in Seq(Names), Distinct(q),
         NEW w \in Names, w \notin Members(q)
  PROVE  /\ Append(q, w) \in Seq(Names)
         /\ Members(Append(q, w)) = Members(q) \cup {w}
         /\ Distinct(Append(q, w))
         /\ Len(Append(q, w)) = Len(q) + 1
<1> DEFINE p == Append(q, w)
<1>1. /\ p \in Seq(Names)
      /\ Len(p) = Len(q) + 1
      /\ DOMAIN q = 1..Len(q) /\ DOMAIN p = 1..(Len(q) + 1)
      /\ \A i \in 1..Len(q) : p[i] = q[i]
      /\ p[Len(q) + 1] = w
      /\ Len(q) \in Nat
  OBVIOUS
<1> HIDE DEF p
<1>2. Members(p) = Members(q) \cup {w}
  <2>1. \A i \in DOMAIN p : p[i] \in Members(q) \cup {w}
    BY <1>1 DEF Members
  <2>2. \A i \in DOMAIN q : q[i] \in Members(p)
    BY <1>1 DEF Members
  <2>3. w \in Members(p)
    BY <1>1 DEF Members
  <2> QED
    BY <2>1, <2>2, <2>3 DEF Members
<1>3. Distinct(p)
  <2> SUFFICES ASSUME NEW i \in DOMAIN p, NEW j \in DOMAIN p, p[i] = p[j]
               PROVE  i = j
    BY DEF Distinct
  <2>1. CASE i <= Len(q) /\ j <= Len(q)
    BY <1>1, <2>1 DEF Distinct
  <2>2. CASE i = Len(q) + 1 /\ j <= Len(q)
    BY <1>1, <2>2 DEF Members
  <2>3. CASE j = Len(q) + 1 /\ i <= Len(q)
    BY <1>1, <2>3 DEF Members
  <2> QED
    BY <1>1, <2>1, <2>2, <2>3
<1> QED
  BY <1>1, <1>2, <1>3 DEF p

\* Who stands at one place leaves it, and who is behind moves up: the head,
\* and a waiter whose context was cancelled.
LEMMA PlaceLeft ==
  ASSUME NEW q \in Seq(Names), Distinct(q), NEW place \in DOMAIN q,
         NEW p,
         p = [i \in 1..Len(q) - 1 |-> IF i < place THEN q[i] ELSE q[i + 1]]
  PROVE  /\ p \in Seq(Names)
         /\ Members(p) = Members(q) \ {q[place]}
         /\ Distinct(p)
         /\ Len(p) = Len(q) - 1
<1>1. /\ Len(q) \in Nat /\ Len(q) > 0 /\ DOMAIN q = 1..Len(q)
      /\ place \in 1..Len(q)
      /\ \A i \in 1..Len(q) : q[i] \in Names
  OBVIOUS
<1>2. /\ DOMAIN p = 1..(Len(q) - 1)
      /\ \A i \in 1..(Len(q) - 1) : p[i] = IF i < place THEN q[i] ELSE q[i + 1]
  BY <1>1
<1>3. p \in Seq(Names) /\ Len(p) = Len(q) - 1
  <2>1. p \in [1..(Len(q) - 1) -> Names]
    BY <1>1
  <2>2. Len(q) - 1 \in Nat
    BY <1>1
  <2> QED
    BY <2>1, <2>2
<1>4. Members(p) = Members(q) \ {q[place]}
  <2>1. ASSUME NEW i \in DOMAIN p
        PROVE  p[i] \in Members(q) \ {q[place]}
    <3>1. CASE i < place
      BY <1>1, <1>2, <3>1 DEF Members, Distinct
    <3>2. CASE ~ (i < place)
      BY <1>1, <1>2, <3>2 DEF Members, Distinct
    <3> QED
      BY <3>1, <3>2
  <2>2. ASSUME NEW j \in DOMAIN q, q[j] # q[place]
        PROVE  q[j] \in Members(p)
    <3>1. CASE j < place
      BY <1>1, <1>2, <3>1 DEF Members
    <3>2. CASE j > place
      <4>1. j - 1 \in DOMAIN p /\ p[j - 1] = q[j]
        BY <1>1, <1>2, <3>2
      <4> QED
        BY <4>1 DEF Members
    <3> QED
      BY <1>1, <2>2, <3>1, <3>2
  <2> QED
    BY <2>1, <2>2 DEF Members
<1>5. Distinct(p)
  <2> SUFFICES ASSUME NEW i \in DOMAIN p, NEW j \in DOMAIN p, p[i] = p[j]
               PROVE  i = j
    BY DEF Distinct
  <2> DEFINE was(n) == IF n < place THEN n ELSE n + 1
  <2>1. \A n \in DOMAIN p : was(n) \in DOMAIN q /\ p[n] = q[was(n)]
    BY <1>1, <1>2
  <2>2. was(i) = was(j)
    BY <2>1 DEF Distinct
  <2> QED
    BY <1>1, <1>2, <2>2
<1> QED
  BY <1>3, <1>4, <1>5

\* The first of the queue leaves it.
LEMMA HeadLeaves ==
  ASSUME NEW q \in Seq(Names), Distinct(q), q # <<>>
  PROVE  /\ Head(q) \in Members(q)
         /\ Tail(q) \in Seq(Names)
         /\ Members(Tail(q)) = Members(q) \ {Head(q)}
         /\ Distinct(Tail(q))
         /\ Len(Tail(q)) = Len(q) - 1
<1>1. 1 \in DOMAIN q /\ Head(q) = q[1]
  OBVIOUS
<1> DEFINE p == [i \in 1..Len(q) - 1 |-> IF i < 1 THEN q[i] ELSE q[i + 1]]
<1>2. Tail(q) = p
  <2>1. /\ DOMAIN p = 1..(Len(q) - 1)
        /\ \A i \in 1..(Len(q) - 1) : p[i] = q[i + 1]
    OBVIOUS
  <2>2. p \in Seq(Names) /\ Len(p) = Len(q) - 1
    BY <1>1, PlaceLeft
  <2>3. /\ Tail(q) \in Seq(Names) /\ Len(Tail(q)) = Len(q) - 1
        /\ \A i \in 1..(Len(q) - 1) : Tail(q)[i] = q[i + 1]
    OBVIOUS
  <2> HIDE DEF p
  <2> QED
    BY <2>1, <2>2, <2>3
<1>3. /\ p \in Seq(Names) /\ Len(p) = Len(q) - 1
      /\ Members(p) = Members(q) \ {q[1]} /\ Distinct(p)
  BY <1>1, PlaceLeft
<1>4. Head(q) \in Members(q)
  BY <1>1 DEF Members
<1> HIDE DEF p
<1> QED
  BY <1>1, <1>2, <1>3, <1>4

\* A waiter that gives up leaves the queue.
LEMMA WaiterLeaves ==
  ASSUME queue \in Seq(Names), Distinct(queue), NEW w \in Members(queue)
  PROVE  /\ Leave(w) \in Seq(Names)
         /\ Members(Leave(w)) = Members(queue) \ {w}
         /\ Distinct(Leave(w))
         /\ Len(Leave(w)) = Len(queue) - 1
<1> DEFINE place == CHOOSE i \in DOMAIN queue : queue[i] = w
<1>1. place \in DOMAIN queue /\ queue[place] = w
  BY DEF Members
<1>2. Leave(w) = [i \in 1..Len(queue) - 1 |->
                    IF i < place THEN queue[i] ELSE queue[i + 1]]
  BY DEF Leave
<1> HIDE DEF place
<1> QED
  BY <1>1, <1>2, PlaceLeft

-----------------------------------------------------------------------------
(* The pool.                                                               *)

\* The accounts of the pool, with what makes them inductive: nobody stands in
\* the queue twice, and what is counted is finite.
PoolInv ==
  /\ free \in 0..MaxConns
  /\ queue \in Seq(Names)
  /\ ConnsAccounted
  /\ IsFiniteSet(Holders) /\ IsFiniteSet(Waiting)
  /\ Distinct(queue)

\* Where a client stands decides what it holds or waits for, ...
LEMMA ClientMoves ==
  ASSUME HttpTypeOK, NEW c \in Clients, NEW s,
         at' = [at EXCEPT ![c] = s], UNCHANGED wat
  PROVE  /\ Holders' = IF s = "query" THEN Holders \cup {c} ELSE Holders \ {c}
         /\ Waiting' = IF s = "acquire" THEN Waiting \cup {c} ELSE Waiting \ {c}
<1>1. /\ at'[c] = s
      /\ \A d \in Clients \ {c} : at'[d] = at[d]
  BY DEF HttpTypeOK, RequestsTyped
<1>2. {d \in Clients : at'[d] = "query"} =
        IF s = "query" THEN {d \in Clients : at[d] = "query"} \cup {c}
        ELSE {d \in Clients : at[d] = "query"} \ {c}
  BY <1>1
<1>3. {d \in Clients : at'[d] = "acquire"} =
        IF s = "acquire" THEN {d \in Clients : at[d] = "acquire"} \cup {c}
        ELSE {d \in Clients : at[d] = "acquire"} \ {c}
  BY <1>1
<1>4. c # "worker"
  BY HttpApiAssumption
<1> QED
  BY <1>2, <1>3, <1>4 DEF Holders, Waiting

\* ... at the end of its handler neither.
LEMMA HandlerOver ==
  ASSUME HttpTypeOK, NEW c \in Clients,
         at' = [at EXCEPT ![c] = "reply"], UNCHANGED wat
  PROVE  Holders' = Holders \ {c} /\ Waiting' = Waiting \ {c}
<1>1. ASSUME NEW s, s \notin {"query", "acquire"}, at' = [at EXCEPT ![c] = s]
      PROVE  Holders' = Holders \ {c} /\ Waiting' = Waiting \ {c}
  BY <1>1, ClientMoves
<1> QED
  BY <1>1

\* So does where the worker stands.
LEMMA WorkerMoves ==
  ASSUME UNCHANGED at
  PROVE  /\ Holders' = IF wat' = "query" THEN Holders \cup {"worker"}
                       ELSE Holders \ {"worker"}
         /\ Waiting' = IF wat' = "acquire" THEN Waiting \cup {"worker"}
                       ELSE Waiting \ {"worker"}
BY HttpApiAssumption DEF Holders, Waiting

\* Who asks for a connection waits for it.
LEMMA AsksForConnection ==
  ASSUME PoolInv, NEW w \in Names, w \notin Waiting,
         queue' = Append(queue, w), UNCHANGED free,
         Holders' = Holders, Waiting' = Waiting \cup {w}
  PROVE  PoolInv'
<1>1. w \notin Members(queue)
  BY DEF PoolInv, ConnsAccounted, Members
<1>2. /\ queue' \in Seq(Names)
      /\ Members(queue') = Waiting'
      /\ Distinct(queue')
      /\ Len(queue') = Len(queue) + 1
  BY <1>1, JoinQueue DEF PoolInv, ConnsAccounted, Members
<1>3. IsFiniteSet(Waiting') /\ Cardinality(Waiting') = Cardinality(Waiting) + 1
  BY FS_AddElement DEF PoolInv
<1> QED
  BY <1>2, <1>3 DEF PoolInv, ConnsAccounted, Members

\* Who gives up waiting leaves no trace in the queue.
LEMMA GivesUp ==
  ASSUME PoolInv, NEW w \in Waiting,
         queue' = Leave(w), UNCHANGED free,
         Holders' = Holders, Waiting' = Waiting \ {w}
  PROVE  PoolInv'
<1>1. w \in Members(queue)
  BY DEF PoolInv, ConnsAccounted, Members
<1>2. /\ queue' \in Seq(Names)
      /\ Members(queue') = Waiting'
      /\ Distinct(queue')
      /\ Len(queue') = Len(queue) - 1
  BY <1>1, WaiterLeaves DEF PoolInv, ConnsAccounted, Members
<1>3. IsFiniteSet(Waiting') /\ Cardinality(Waiting') = Cardinality(Waiting) - 1
  BY FS_RemoveElement DEF PoolInv
<1> QED
  BY <1>2, <1>3 DEF PoolInv, ConnsAccounted, Members

\* The first in the queue is given an idle connection.
LEMMA IsGranted ==
  ASSUME PoolInv, free > 0, queue # <<>>,
         free' = free - 1, queue' = Tail(queue),
         Head(queue) \notin Holders,
         Holders' = Holders \cup {Head(queue)},
         Waiting' = Waiting \ {Head(queue)}
  PROVE  PoolInv'
<1>1. /\ Head(queue) \in Waiting
      /\ queue' \in Seq(Names)
      /\ Members(queue') = Waiting'
      /\ Distinct(queue')
      /\ Len(queue') = Len(queue) - 1
  BY HeadLeaves DEF PoolInv, ConnsAccounted, Members
<1>2. IsFiniteSet(Waiting') /\ Cardinality(Waiting') = Cardinality(Waiting) - 1
  BY <1>1, FS_RemoveElement DEF PoolInv
<1>3. IsFiniteSet(Holders') /\ Cardinality(Holders') = Cardinality(Holders) + 1
  BY FS_AddElement DEF PoolInv
<1>4. Cardinality(Holders) \in Nat
  BY FS_CardinalityType DEF PoolInv
<1>5. free' + Cardinality(Holders') = MaxConns /\ free' \in 0..MaxConns
  BY <1>3, <1>4, HttpApiAssumption DEF PoolInv, ConnsAccounted
<1> QED
  BY <1>1, <1>2, <1>3, <1>5 DEF PoolInv, ConnsAccounted, Members

\* Who gives its connection back holds none any more, and the pool has a place
\* for it.
LEMMA GivesConnectionBack ==
  ASSUME PoolInv, NEW w \in Holders, GiveBack,
         Holders' = Holders \ {w}, Waiting' = Waiting
  PROVE  PoolInv'
<1>1. IsFiniteSet(Holders') /\ Cardinality(Holders') = Cardinality(Holders) - 1
  BY FS_RemoveElement DEF PoolInv
<1>2. Cardinality(Holders) \in Nat /\ Cardinality(Holders) # 0
  BY FS_CardinalityType, FS_EmptySet DEF PoolInv
<1>3. free' + Cardinality(Holders') = MaxConns /\ free' \in 0..MaxConns
  BY <1>1, <1>2, HttpApiAssumption DEF PoolInv, ConnsAccounted, GiveBack
<1> QED
  BY <1>1, <1>3 DEF PoolInv, ConnsAccounted, GiveBack

\* A step of others is none of the pool.
LEMMA PoolKept ==
  ASSUME PoolInv, UNCHANGED poolVars, Holders' = Holders, Waiting' = Waiting
  PROVE  PoolInv'
BY DEF PoolInv, ConnsAccounted, poolVars

\* A client that neither waits for a connection nor holds one may go anywhere
\* where it does neither.
LEMMA PoolKeptByClient ==
  ASSUME HttpTypeOK, PoolInv, NEW c \in Clients, NEW s,
         at[c] \notin {"acquire", "query"}, s \notin {"acquire", "query"},
         at' = [at EXCEPT ![c] = s], UNCHANGED <<poolVars, wat>>
  PROVE  PoolInv'
<1>1. c \notin Holders /\ c \notin Waiting
  BY HttpApiAssumption DEF Holders, Waiting
<1>2. UNCHANGED wat /\ UNCHANGED poolVars
  OBVIOUS
<1>3. Holders' = Holders \ {c} /\ Waiting' = Waiting \ {c}
  BY <1>2, ClientMoves
<1> QED
  BY <1>1, <1>2, <1>3, PoolKept

-----------------------------------------------------------------------------
(* Every step keeps the accounts of the pool.                              *)

\* An idle connection is lent.
LEMMA GrantKeepsPool ==
  ASSUME HttpTypeOK, PoolInv, Grant
  PROVE  PoolInv'
<1> DEFINE w == Head(queue)
<1>1. w \in Waiting
  BY HeadLeaves DEF Grant, PoolInv, ConnsAccounted, Members
<1>2. w \notin Holders
  BY <1>1, HttpApiAssumption DEF Waiting, Holders
<1>3. Holders' = Holders \cup {w} /\ Waiting' = Waiting \ {w}
  <2>1. CASE w = "worker"
    BY <2>1, WorkerMoves DEF Grant
  <2>2. CASE w # "worker"
    <3>1. w \in Clients
      BY <1>1, <2>2 DEF Waiting
    <3> QED
      BY <2>2, <3>1, ClientMoves DEF Grant
  <2> QED
    BY <2>1, <2>2
<1> QED
  BY <1>2, <1>3, IsGranted DEF Grant

\* A list arrives, runs its statement, fails or is cancelled.
LEMMA ListKeepsPool ==
  ASSUME HttpTypeOK, PoolInv, NEW c \in Clients,
         List(c) \/ ListAnswered(c) \/ ListFails(c) \/ ListCancelled(c)
  PROVE  PoolInv'
<1>0. c # "worker" /\ c \in Names
  BY HttpApiAssumption DEF Names
<1>1. CASE List(c)
  <2>1. c \notin Waiting /\ c \notin Holders
    BY <1>0, <1>1 DEF List, Arrive, Waiting, Holders
  <2>2. at' = [at EXCEPT ![c] = "acquire"] /\ UNCHANGED wat
    BY <1>1 DEF List, workerVars
  <2>3. Holders' = Holders \ {c} /\ Waiting' = Waiting \cup {c}
    BY <2>2, ClientMoves
  <2>4. Holders \ {c} = Holders
    BY <2>1
  <2> QED
    BY <1>0, <1>1, <2>1, <2>3, <2>4, AsksForConnection DEF List
<1>2. CASE /\ at[c] = "query"
           /\ ListAnswered(c) \/ ListFails(c) \/ ListCancelled(c)
  <2>1. c \in Holders /\ c \notin Waiting
    BY <1>0, <1>2 DEF Holders, Waiting
  <2>2. GiveBack /\ at' = [at EXCEPT ![c] = "reply"] /\ UNCHANGED wat
    BY <1>2 DEF ListAnswered, ListFails, ListCancelled, Answer, workerVars
  <2>3. Holders' = Holders \ {c} /\ Waiting' = Waiting \ {c}
    BY <2>2, HandlerOver
  <2>4. Waiting \ {c} = Waiting
    BY <2>1
  <2> QED
    BY <2>1, <2>2, <2>3, <2>4, GivesConnectionBack
<1>3. CASE at[c] = "acquire" /\ ListCancelled(c)
  <2>1. c \in Waiting /\ c \notin Holders
    BY <1>0, <1>3 DEF Holders, Waiting
  <2>2. /\ queue' = Leave(c) /\ UNCHANGED free
        /\ at' = [at EXCEPT ![c] = "reply"] /\ UNCHANGED wat
    BY <1>3 DEF ListCancelled, Answer, workerVars
  <2>3. Holders' = Holders \ {c} /\ Waiting' = Waiting \ {c}
    BY <2>2, HandlerOver
  <2>4. Holders \ {c} = Holders
    BY <2>1
  <2> QED
    BY <2>1, <2>2, <2>3, <2>4, GivesUp
<1> QED
  BY <1>1, <1>2, <1>3 DEF ListAnswered, ListFails, ListCancelled

\* The other handlers, and the end of a request, touch no connection.
LEMMA OtherHandlersKeepPool ==
  ASSUME HttpTypeOK, PoolInv, NEW c \in Clients,
         \/ Ping(c) \/ NotifyInvalid(c) \/ Notify(c)
         \/ NotifyAccepted(c) \/ NotifyRefused(c) \/ NotifyGivenUp(c)
         \/ Reply(c)
  PROVE  PoolInv'
<1>1. CASE Ping(c) \/ NotifyInvalid(c) \/ Notify(c)
  BY <1>1, PoolKeptByClient
     DEF Ping, NotifyInvalid, Notify, Arrive, Answer, workerVars
<1>2. CASE NotifyAccepted(c) \/ NotifyRefused(c) \/ NotifyGivenUp(c) \/ Reply(c)
  BY <1>2, PoolKeptByClient
     DEF NotifyAccepted, NotifyRefused, NotifyGivenUp, Reply, Answer, workerVars
<1> QED
  BY <1>1, <1>2

\* The worker asks for a connection, gives it back however its statement ends,
\* and leaves none behind when it is told to stop.
LEMMA WorkerKeepsPool ==
  ASSUME HttpTypeOK, PoolInv, WorkerStep
  PROVE  PoolInv'
<1>0. "worker" \in Names
  BY DEF Names
<1>1. CASE WorkerAsks
  <2>1. "worker" \notin Waiting /\ "worker" \notin Holders
    BY <1>1, HttpApiAssumption DEF WorkerAsks, Waiting, Holders
  <2>2. Holders' = Holders /\ Waiting' = Waiting \cup {"worker"}
    BY <1>1, <2>1, WorkerMoves DEF WorkerAsks, reqVars
  <2> QED
    BY <1>0, <1>1, <2>1, <2>2, AsksForConnection DEF WorkerAsks
<1>2. CASE \/ WorkerDone \/ WorkerFails
           \/ wat = "query" /\ WorkerStops
  <2>1. "worker" \in Holders /\ "worker" \notin Waiting
    BY <1>2, HttpApiAssumption DEF WorkerDone, WorkerFails, Waiting, Holders
  <2>2. GiveBack /\ wat' \in {"idle", "stopped"} /\ UNCHANGED at
    BY <1>2 DEF WorkerDone, ListDone, WorkerFails, WorkerStops, reqVars
  <2>3. Holders' = Holders \ {"worker"} /\ Waiting' = Waiting
    BY <2>1, <2>2, WorkerMoves
  <2> QED
    BY <2>1, <2>2, <2>3, GivesConnectionBack
<1>3. CASE wat = "acquire" /\ WorkerStops
  <2>1. "worker" \in Waiting /\ "worker" \notin Holders
    BY <1>3, HttpApiAssumption DEF Waiting, Holders
  <2>2. /\ queue' = Leave("worker") /\ UNCHANGED free
        /\ wat' = "stopped" /\ UNCHANGED at
    BY <1>3 DEF WorkerStops, reqVars
  <2>3. Holders' = Holders /\ Waiting' = Waiting \ {"worker"}
    BY <2>1, <2>2, WorkerMoves
  <2> QED
    BY <2>1, <2>2, <2>3, GivesUp
<1>4. CASE wat = "idle" /\ WorkerStops
  <2>1. "worker" \notin Waiting /\ "worker" \notin Holders
    BY <1>4, HttpApiAssumption DEF Waiting, Holders
  <2>2. UNCHANGED poolVars /\ wat' = "stopped" /\ UNCHANGED at
    BY <1>4 DEF WorkerStops, reqVars
  <2>3. Holders' = Holders /\ Waiting' = Waiting
    BY <2>1, <2>2, WorkerMoves
  <2> QED
    BY <2>2, <2>3, PoolKept
<1> QED
  BY <1>1, <1>2, <1>3, <1>4 DEF WorkerStep, WorkerStops

\* A pool just opened: every connection idle, nobody waits.
LEMMA PoolOpened ==
  ASSUME \A c \in Clients : at[c] = "idle", wat = "idle",
         free = MaxConns, queue = <<>>
  PROVE  PoolInv
<1>1. Holders = {} /\ Waiting = {}
  BY DEF Holders, Waiting
<1>2. Members(queue) = {} /\ Distinct(queue) /\ Len(queue) = 0
      /\ queue \in Seq(Names)
  BY DEF Members, Distinct
<1> QED
  BY <1>1, <1>2, FS_EmptySet, HttpApiAssumption
     DEF PoolInv, ConnsAccounted, Members

\* Every step keeps the accounts.
LEMMA StepKeepsPool ==
  ASSUME HttpTypeOK, PoolInv, [Next]_vars
  PROVE  PoolInv'
<1>1. CASE Grant \/ WorkerStep
  BY <1>1, GrantKeepsPool, WorkerKeepsPool
<1>2. ASSUME NEW c \in Clients, Arrivals(c) \/ HandlerStep(c)
      PROVE  PoolInv'
  BY <1>2, ListKeepsPool, OtherHandlersKeepPool DEF Arrivals, HandlerStep
<1>3. CASE \/ Cancel \/ DbHangs \/ DbRecovers \/ UNCHANGED vars
           \/ \E c \in Clients : LatePost(c) \/ HangUp(c)
  <2>1. UNCHANGED <<at, wat>> /\ UNCHANGED poolVars
    BY <1>3 DEF Cancel, DbHangs, DbRecovers, LatePost, HangUp, vars, reqVars,
                workerVars, poolVars
  <2>2. Holders' = Holders /\ Waiting' = Waiting
    BY <2>1 DEF Holders, Waiting
  <2> QED
    BY <2>1, <2>2, PoolKept
<1>4. CASE Restart
  <2>1. /\ \A c \in Clients : at'[c] = "idle"
        /\ wat' = "idle" /\ free' = MaxConns /\ queue' = <<>>
    BY <1>4 DEF Restart
  <2>2. Holders' = {} /\ Waiting' = {}
    BY <2>1 DEF Holders, Waiting
  <2>3. Members(queue') = {} /\ Distinct(queue') /\ Len(queue') = 0
        /\ queue' \in Seq(Names)
    BY <2>1 DEF Members, Distinct
  <2> QED
    BY <2>1, <2>2, <2>3, FS_EmptySet, HttpApiAssumption
       DEF PoolInv, ConnsAccounted, Members
<1> QED
  BY <1>1, <1>2, <1>3, <1>4 DEF Next

-----------------------------------------------------------------------------
(* Types.                                                                  *)

\* A handler's place tells what its request asked for, and a collection is
\* only begun while the clock has room for it.
PlaceInv ==
  /\ \A c \in Clients : at[c] \in {"acquire", "query"} => req[c].kind = "offers"
  /\ \A c \in Clients : at[c] = "await" => req[c].kind = "text"
  /\ wat \in {"acquire", "query"} /\ stmt = "store" => now < MaxNow

\* Where a request stands.
Places == {"idle", "acquire", "query", "await", "reply"}

\* The client whose request arrives has one.
LEMMA ArriveTyped ==
  ASSUME HttpTypeOK, NEW c \in Clients, NEW r \in Asks[c], Arrive(c, r),
         NEW s \in Places \ {"idle"}, at' = [at EXCEPT ![c] = s]
  PROVE  RequestsTyped'
<1>1. r \in Requests /\ r # NoRequest
  BY HttpApiAssumption
<1>2. /\ req'[c] = r
      /\ \A d \in Clients \ {c} : req'[d] = req[d]
      /\ req' \in [Clients -> Requests \cup {NoRequest}]
  BY <1>1 DEF HttpTypeOK, RequestsTyped, Arrive
<1>3. /\ at'[c] = s
      /\ \A d \in Clients \ {c} : at'[d] = at[d]
      /\ at' \in [Clients -> Places]
  BY DEF HttpTypeOK, RequestsTyped, Places
<1>4. ASSUME NEW d \in Clients
      PROVE  at'[d] = "idle" <=> req'[d] = NoRequest
  <2>1. CASE d = c
    BY <1>1, <1>2, <1>3, <2>1
  <2>2. CASE d # c
    BY <1>2, <1>3, <2>2 DEF HttpTypeOK, RequestsTyped
  <2> QED
    BY <2>1, <2>2
<1> QED
  BY <1>2, <1>3, <1>4 DEF RequestsTyped, Places

\* A step that only moves a handler on leaves its request what it was.
LEMMA HandlerTyped ==
  ASSUME HttpTypeOK, NEW c \in Clients, at[c] # "idle",
         NEW s \in Places \ {"idle"}, at' = [at EXCEPT ![c] = s], UNCHANGED req
  PROVE  RequestsTyped'
<1>1. /\ at'[c] = s
      /\ \A d \in Clients \ {c} : at'[d] = at[d]
      /\ at' \in [Clients -> Places]
  BY DEF HttpTypeOK, RequestsTyped, Places
<1>2. ASSUME NEW d \in Clients
      PROVE  at'[d] = "idle" <=> req'[d] = NoRequest
  <2>1. CASE d = c
    BY <1>1, <2>1 DEF HttpTypeOK, RequestsTyped
  <2>2. CASE d # c
    BY <1>1, <2>2 DEF HttpTypeOK, RequestsTyped
  <2> QED
    BY <2>1, <2>2
<1> QED
  BY <1>1, <1>2 DEF HttpTypeOK, RequestsTyped, Places

Codes == {0, 200, 204, 400, 500, 502, 503}

\* An answer is one of the codes the handlers write.
LEMMA AnswerTyped ==
  ASSUME HttpTypeOK, NEW c \in Clients, NEW code \in Codes, Answer(c, code)
  PROVE  status' \in [Clients -> Codes]
<1>1. status \in [Clients -> Codes] /\ status' = [status EXCEPT ![c] = code]
  BY DEF HttpTypeOK, Answer, Codes
<1> QED
  BY <1>1

\* The worker's statements leave a table, and no row is lost.
LEMMA WorkerKeepsTable ==
  ASSUME HttpTypeOK, WorkerDone
  PROVE  /\ DOMAIN offers' \in SUBSET Keys
         /\ offers' \in [DOMAIN offers' -> Row]
         /\ DOMAIN offers \subseteq DOMAIN offers'
         /\ \/ DOMAIN offers' = DOMAIN offers
            \/ \E batch \in Batches :
                 DOMAIN offers' = DOMAIN offers \cup BatchKeys(batch)
<1>1. CASE StoreDone
  <2>1. PICK batch \in Batches : UpsertMany(batch, now')
    BY <1>1 DEF StoreDone
  <2>2. batch \in Seq(Quote) /\ now' \in Nat
    BY <1>1, HttpApiAssumption DEF StoreDone, HttpTypeOK
  <2>3. /\ DOMAIN offers' \subseteq Keys
        /\ offers' \in [DOMAIN offers' -> Row]
    BY <2>1, <2>2, UpsertKeepsMarks DEF HttpTypeOK
  <2>4. DOMAIN offers' = DOMAIN offers \cup BatchKeys(batch)
    BY <2>1 DEF UpsertMany
  <2> QED
    BY <2>3, <2>4
<1>2. CASE ListDone
  BY <1>2 DEF ListDone, HttpTypeOK
<1>3. CASE MarkDone
  <2>1. PICK k \in DOMAIN offers : MarkPublished(k)
    BY <1>3 DEF MarkDone, Eligible
  <2> QED
    BY <2>1, MarkKeepsRows DEF HttpTypeOK
<1> QED
  BY <1>1, <1>2, <1>3 DEF WorkerDone

\* The bound on failures is kept.
LEMMA FaultBounded ==
  ASSUME HttpTypeOK, Fault
  PROVE  faults' \in 0..MaxFaults
<1>1. MaxFaults \in Nat
  BY HttpApiAssumption
<1> QED
  BY <1>1 DEF HttpTypeOK, Fault

\* The arrival of a request keeps the types.
LEMMA ArrivalTyped ==
  ASSUME HttpTypeOK, PoolInv', NEW c \in Clients, Arrivals(c)
  PROVE  HttpTypeOK'
<1>0. free' \in 0..MaxConns /\ queue' \in Seq(Clients \cup {"worker"})
  BY DEF PoolInv, Names
<1>1. CASE Ping(c) \/ NotifyInvalid(c)
  <2>1. PICK r \in Asks[c] : Arrive(c, r)
    BY <1>1 DEF Ping, NotifyInvalid
  <2>2. PICK code \in Codes : Answer(c, code)
    BY <1>1 DEF Ping, NotifyInvalid, Codes
  <2>3. status' \in [Clients -> Codes] /\ RequestsTyped'
    BY <2>1, <2>2, AnswerTyped, ArriveTyped DEF Answer, Places
  <2>4. UNCHANGED <<offers, gone, body, before, poolVars, workerVars, db,
                    chanVars, now, faults>>
    BY <1>1 DEF Ping, NotifyInvalid
  <2> QED
    BY <1>0, <2>3, <2>4
       DEF HttpTypeOK, Codes, workerVars, chanVars
<1>2. CASE List(c)
  <2>1. PICK r \in Asks[c] : Arrive(c, r)
    BY <1>2 DEF List
  <2>2. before' \in [Clients -> SUBSET Keys]
    BY <1>2 DEF List, HttpTypeOK
  <2>3. RequestsTyped'
    BY <1>2, <2>1, ArriveTyped DEF List, Places
  <2>4. UNCHANGED <<offers, gone, status, body, workerVars, db, chanVars, now,
                    faults>>
    BY <1>2 DEF List
  <2> QED
    BY <1>0, <2>2, <2>3, <2>4
       DEF HttpTypeOK, workerVars, chanVars
<1>3. CASE Notify(c)
  <2>1. PICK r \in Asks[c] : Arrive(c, r)
    BY <1>3 DEF Notify
  <2>2. tries' \in [Clients -> Nat]
    BY <1>3 DEF Notify, HttpTypeOK
  <2>3. RequestsTyped'
    BY <1>3, <2>1, ArriveTyped DEF Notify, Places
  <2>4. UNCHANGED <<offers, gone, status, body, before, workerVars, db, posted,
                    wire, doubts, told, now, faults>>
    BY <1>3 DEF Notify
  <2> QED
    BY <1>0, <2>2, <2>3, <2>4
       DEF HttpTypeOK, workerVars
<1> QED
  BY <1>1, <1>2, <1>3 DEF Arrivals

\* So does every step of a handler, ...
LEMMA HandlerStepTyped ==
  ASSUME HttpTypeOK, PoolInv', NEW c \in Clients, HandlerStep(c)
  PROVE  HttpTypeOK'
<1>0. free' \in 0..MaxConns /\ queue' \in Seq(Clients \cup {"worker"})
  BY DEF PoolInv, Names
<1>1. CASE ListAnswered(c) \/ ListFails(c) \/ ListCancelled(c)
  <2>0. PICK code \in Codes : Answer(c, code) /\ at[c] # "idle"
    BY <1>1 DEF ListAnswered, ListFails, ListCancelled, Codes
  <2>1. status' \in [Clients -> Codes]
    BY <2>0, AnswerTyped
  <2>2. body' \in [Clients -> SUBSET Keys]
    <3>1. CASE ListAnswered(c)
      <4> DEFINE f == Filter(req[c].filter)
      <4>0. PICK page \in ListedPages(f.origin, f.destination, f.limit) :
              body' = [body EXCEPT ![c] = page]
        BY <3>1 DEF ListAnswered
      <4> HIDE DEF f
      <4>1. page \in SUBSET DOMAIN offers
        BY <4>0 DEF ListedPages, Matching
      <4>2. page \in SUBSET Keys /\ body \in [Clients -> SUBSET Keys]
        BY <4>1 DEF HttpTypeOK
      <4> QED
        BY <4>0, <4>1, <4>2
    <3>2. CASE ListFails(c) \/ ListCancelled(c)
      BY <3>2 DEF ListFails, ListCancelled, HttpTypeOK
    <3> QED
      BY <1>1, <3>1, <3>2
  <2>3. faults' \in 0..MaxFaults
    BY <1>1, FaultBounded DEF ListAnswered, ListFails, ListCancelled, HttpTypeOK
  <2>4. UNCHANGED <<offers, req, gone, before, workerVars, db, chanVars, now>>
    BY <1>1 DEF ListAnswered, ListFails, ListCancelled
  <2>5. RequestsTyped'
    BY <2>0, <2>4, HandlerTyped DEF Answer, Places
  <2> QED
    BY <1>0, <2>1, <2>2, <2>3, <2>4, <2>5
       DEF HttpTypeOK, RequestsTyped, Codes, workerVars, chanVars
<1>2. CASE NotifyAccepted(c) \/ NotifyRefused(c) \/ NotifyGivenUp(c)
  <2>0. PICK code \in Codes : Answer(c, code) /\ at[c] # "idle"
    BY <1>2 DEF NotifyAccepted, NotifyRefused, NotifyGivenUp, Codes
  <2>1. status' \in [Clients -> Codes]
    BY <2>0, AnswerTyped
  <2>2. /\ posted' \in [Clients -> Nat] /\ wire' \in [Clients -> Nat]
        /\ tries' \in [Clients -> Nat] /\ doubts' \in [Clients -> Nat]
    <3>1. CASE NotifyAccepted(c)
      BY <3>1 DEF NotifyAccepted, HttpTypeOK
    <3>2. CASE NotifyRefused(c)
      BY <3>2 DEF NotifyRefused, chanVars, HttpTypeOK
    <3>3. CASE NotifyGivenUp(c)
      BY <3>3 DEF NotifyGivenUp, HttpTypeOK
    <3> QED
      BY <1>2, <3>1, <3>2, <3>3
  <2>3. faults' \in 0..MaxFaults
    BY <1>2, FaultBounded
       DEF NotifyAccepted, NotifyRefused, NotifyGivenUp, HttpTypeOK, chanVars
  <2>4. UNCHANGED <<offers, req, gone, body, before, workerVars, db, told, now>>
    BY <1>2 DEF NotifyAccepted, NotifyRefused, NotifyGivenUp, chanVars
  <2>5. RequestsTyped'
    BY <2>0, <2>4, HandlerTyped DEF Answer, Places
  <2>6. /\ DOMAIN offers' \in SUBSET Keys /\ offers' \in [DOMAIN offers' -> Row]
        /\ gone' \in SUBSET Clients
        /\ body' \in [Clients -> SUBSET Keys]
        /\ before' \in [Clients -> SUBSET Keys]
    BY <2>4 DEF HttpTypeOK
  <2>7. /\ wat' \in {"idle", "acquire", "query", "stopped"}
        /\ stmt' \in {"store", "list", "mark"}
        /\ ctx' \in {"live", "cancelled"}
        /\ db' \in {"up", "hung"}
        /\ told' \in SUBSET Clients
        /\ now' \in 0..MaxNow
    BY <2>4 DEF HttpTypeOK, workerVars
  <2>8. status' \in [Clients -> {0, 200, 204, 400, 500, 502, 503}]
    BY <2>1 DEF Codes
  <2> QED
    BY <1>0, <2>2, <2>3, <2>5, <2>6, <2>7, <2>8 DEF HttpTypeOK
<1>3. CASE Reply(c)
  <2>1. doubts' \in [Clients -> Nat]
    BY <1>3 DEF Reply, HttpTypeOK
  <2>2. told' \in SUBSET Clients /\ gone' \in SUBSET Clients
    BY <1>3 DEF Reply, HttpTypeOK
  <2>3. status' \in [Clients -> Codes]
    BY <1>3 DEF Reply, HttpTypeOK, Codes
  <2>4. /\ body' \in [Clients -> SUBSET Keys]
        /\ before' \in [Clients -> SUBSET Keys]
    BY <1>3 DEF Reply, HttpTypeOK
  <2>5. RequestsTyped'
    BY <1>3 DEF Reply, HttpTypeOK, RequestsTyped, Places
  <2>6. UNCHANGED <<offers, workerVars, db, posted, wire, tries, now, faults>>
    BY <1>3 DEF Reply
  <2> QED
    BY <1>0, <2>1, <2>2, <2>3, <2>4, <2>5, <2>6
       DEF HttpTypeOK, Codes, workerVars
<1> QED
  BY <1>1, <1>2, <1>3 DEF HandlerStep

\* ... of the worker, ...
LEMMA WorkerStepTyped ==
  ASSUME HttpTypeOK, PlaceInv, PoolInv', WorkerStep
  PROVE  HttpTypeOK'
<1>0. free' \in 0..MaxConns /\ queue' \in Seq(Clients \cup {"worker"})
  BY DEF PoolInv, Names
<1>1. /\ DOMAIN offers' \in SUBSET Keys
      /\ offers' \in [DOMAIN offers' -> Row]
  <2>1. CASE WorkerDone
    BY <2>1, WorkerKeepsTable
  <2>2. CASE WorkerAsks \/ WorkerFails \/ WorkerStops
    BY <2>2 DEF WorkerAsks, WorkerFails, WorkerStops, HttpTypeOK
  <2> QED
    BY <2>1, <2>2 DEF WorkerStep
<1>2. /\ wat' \in {"idle", "acquire", "query", "stopped"}
      /\ stmt' \in {"store", "list", "mark"}
      /\ UNCHANGED ctx
  BY DEF WorkerStep, WorkerAsks, WorkerDone, StoreDone, ListDone, MarkDone,
         WorkerFails, WorkerStops, FirstOfCycle, HttpTypeOK
<1>3. now' \in 0..MaxNow
  <2>1. CASE WorkerDone /\ StoreDone
    BY <2>1, HttpApiAssumption DEF WorkerDone, StoreDone, PlaceInv, HttpTypeOK
  <2>2. UNCHANGED now \/ (WorkerDone /\ StoreDone)
    BY DEF WorkerStep, WorkerAsks, WorkerDone, ListDone, MarkDone, WorkerFails,
           WorkerStops
  <2> QED
    BY <2>1, <2>2 DEF HttpTypeOK
<1>4. faults' \in 0..MaxFaults
  BY FaultBounded
     DEF WorkerStep, WorkerAsks, WorkerDone, WorkerFails, WorkerStops,
         HttpTypeOK
<1>5. UNCHANGED <<reqVars, db, chanVars>>
  BY DEF WorkerStep, WorkerAsks, WorkerDone, WorkerFails, WorkerStops
<1> QED
  BY <1>0, <1>1, <1>2, <1>3, <1>4, <1>5
     DEF HttpTypeOK, RequestsTyped, reqVars, chanVars

\* ... and of the surroundings.
LEMMA OtherStepTyped ==
  ASSUME HttpTypeOK, PoolInv', PoolInv,
         \/ Grant \/ Cancel \/ DbHangs \/ DbRecovers \/ Restart
         \/ UNCHANGED vars
         \/ \E c \in Clients : LatePost(c) \/ HangUp(c)
  PROVE  HttpTypeOK'
<1>0. free' \in 0..MaxConns /\ queue' \in Seq(Clients \cup {"worker"})
  BY DEF PoolInv, Names
<1>1. CASE Grant
  <2> DEFINE w == Head(queue)
  <2>1. w \in Waiting
    BY <1>1, HeadLeaves DEF Grant, PoolInv, ConnsAccounted, Members
  <2>2. CASE w = "worker"
    BY <1>0, <1>1, <2>2 DEF Grant, HttpTypeOK, RequestsTyped, chanVars
  <2>3. CASE w # "worker"
    <3>1. w \in Clients /\ at[w] # "idle"
      BY <2>1, <2>3 DEF Waiting
    <3>2. /\ at' = [at EXCEPT ![w] = "query"]
          /\ UNCHANGED <<offers, req, gone, status, body, before, wat, stmt,
                         ctx, db, chanVars, now, faults>>
      BY <1>1, <2>3 DEF Grant
    <3> HIDE DEF w
    <3>3. RequestsTyped'
      BY <3>1, <3>2, HandlerTyped DEF Places
    <3>4. /\ DOMAIN offers' \in SUBSET Keys
          /\ offers' \in [DOMAIN offers' -> Row]
          /\ UNCHANGED <<gone, status, body, before, wat, stmt, ctx, db, posted,
                         wire, tries, doubts, told, now, faults>>
      BY <3>2 DEF HttpTypeOK, chanVars
    <3> QED
      BY <1>0, <3>3, <3>4 DEF HttpTypeOK
  <2> QED
    BY <2>2, <2>3
<1>2. CASE Cancel \/ DbHangs \/ DbRecovers
  <2>1. /\ faults' \in 0..MaxFaults
        /\ ctx' \in {"live", "cancelled"} /\ db' \in {"up", "hung"}
    BY <1>2, FaultBounded
       DEF Cancel, DbHangs, DbRecovers, HttpTypeOK, workerVars
  <2>2. UNCHANGED <<offers, reqVars, wat, stmt, chanVars, now>>
    BY <1>2 DEF Cancel, DbHangs, DbRecovers, workerVars
  <2>3. RequestsTyped'
    BY <2>2 DEF HttpTypeOK, RequestsTyped, reqVars
  <2>4. /\ DOMAIN offers' \in SUBSET Keys
        /\ offers' \in [DOMAIN offers' -> Row]
        /\ UNCHANGED <<gone, status, body, before, wat, stmt, posted, wire,
                       tries, doubts, told, now>>
    BY <2>2 DEF HttpTypeOK, reqVars, chanVars
  <2> QED
    BY <1>0, <2>1, <2>3, <2>4 DEF HttpTypeOK
<1>3. CASE \E c \in Clients : LatePost(c)
  BY <1>0, <1>3 DEF LatePost, HttpTypeOK, RequestsTyped, reqVars, workerVars
<1>4. CASE \E c \in Clients : HangUp(c)
  <2>1. gone' \in SUBSET Clients /\ faults' \in 0..MaxFaults
    <3>1. faults' \in 0..MaxFaults
      BY <1>4, FaultBounded DEF HangUp
    <3>2. gone \in SUBSET Clients /\ \E c \in Clients : gone' = gone \cup {c}
      BY <1>4 DEF HangUp, HttpTypeOK
    <3> QED
      BY <3>1, <3>2
  <2>2. UNCHANGED <<offers, at, req, status, body, before, workerVars, db,
                    chanVars, now>>
    BY <1>4 DEF HangUp
  <2> QED
    BY <1>0, <2>1, <2>2 DEF HttpTypeOK, RequestsTyped, workerVars, chanVars
<1>5. CASE Restart
  <2>1. /\ posted' \in [Clients -> Nat] /\ wire' \in [Clients -> Nat]
        /\ tries' \in [Clients -> Nat] /\ doubts' \in [Clients -> Nat]
    BY <1>5 DEF Restart, HttpTypeOK
  <2>2. faults' \in 0..MaxFaults
    BY <1>5, FaultBounded DEF Restart, HttpTypeOK
  <2> QED
    BY <1>0, <1>5, <2>1, <2>2
       DEF Restart, FirstOfCycle, HttpTypeOK, RequestsTyped
<1>6. CASE UNCHANGED vars
  BY <1>0, <1>6
     DEF vars, HttpTypeOK, RequestsTyped, reqVars, workerVars, chanVars
<1> QED
  BY <1>1, <1>2, <1>3, <1>4, <1>5, <1>6

\* What a handler's place tells stays true.
LEMMA StepKeepsPlace ==
  ASSUME HttpTypeOK, PoolInv, PlaceInv, [Next]_vars
  PROVE  PlaceInv'
<1>1. CASE Grant
  <2> DEFINE w == Head(queue)
  <2>1. w \in Waiting
    BY <1>1, HeadLeaves DEF Grant, PoolInv, ConnsAccounted, Members
  <2>2. CASE w = "worker"
    <3>1. wat = "acquire"
      BY <2>1, <2>2, HttpApiAssumption DEF Waiting
    <3> QED
      BY <1>1, <2>2, <3>1 DEF Grant, PlaceInv
  <2>3. CASE w # "worker"
    <3>1. w \in Clients /\ at[w] = "acquire"
      BY <2>1, <2>3 DEF Waiting
    <3>2. at' = [at EXCEPT ![w] = "query"] /\ UNCHANGED <<req, wat, stmt, now>>
      BY <1>1, <2>3 DEF Grant
    <3> HIDE DEF w
    <3> QED
      BY <3>1, <3>2 DEF HttpTypeOK, PlaceInv
  <2> QED
    BY <2>2, <2>3
<1>2. CASE WorkerStep
  <2>1. UNCHANGED <<at, req>>
    BY <1>2 DEF WorkerStep, WorkerAsks, WorkerDone, WorkerFails, WorkerStops,
                reqVars
  <2>2. wat' \in {"acquire", "query"} /\ stmt' = "store" => now' < MaxNow
    BY <1>2 DEF WorkerStep, WorkerAsks, WorkerDone, ListDone, WorkerFails,
                WorkerStops
  <2> QED
    BY <2>1, <2>2 DEF PlaceInv
<1>3. ASSUME NEW c \in Clients, Arrivals(c)
      PROVE  PlaceInv'
  <2>1. PICK r \in Asks[c] :
          /\ Arrive(c, r)
          /\ \/ at' = [at EXCEPT ![c] = "reply"]
             \/ at' = [at EXCEPT ![c] = "acquire"] /\ r.kind = "offers"
             \/ at' = [at EXCEPT ![c] = "await"] /\ r.kind = "text"
    BY <1>3 DEF Arrivals, Ping, List, NotifyInvalid, Notify, Answer
  <2>2. UNCHANGED <<wat, stmt, now>>
    BY <1>3 DEF Arrivals, Ping, List, NotifyInvalid, Notify, workerVars
  <2>3. \A d \in Clients \ {c} : at'[d] = at[d] /\ req'[d] = req[d]
    BY <2>1 DEF Arrive, HttpTypeOK, RequestsTyped
  <2>4. /\ at'[c] \in {"acquire", "query"} => req'[c].kind = "offers"
        /\ at'[c] = "await" => req'[c].kind = "text"
    BY <2>1 DEF Arrive, HttpTypeOK, RequestsTyped
  <2>5. ASSUME NEW d \in Clients
        PROVE  /\ at'[d] \in {"acquire", "query"} => req'[d].kind = "offers"
               /\ at'[d] = "await" => req'[d].kind = "text"
    <3>1. CASE d = c
      BY <2>4, <3>1
    <3>2. CASE d # c
      BY <2>3, <3>2 DEF PlaceInv
    <3> QED
      BY <3>1, <3>2
  <2> QED
    BY <2>2, <2>5 DEF PlaceInv
<1>4. ASSUME NEW c \in Clients, HandlerStep(c)
      PROVE  PlaceInv'
  <2>1. /\ \/ at' = [at EXCEPT ![c] = "reply"] /\ UNCHANGED req
           \/ at' = [at EXCEPT ![c] = "idle"]
              /\ req' = [req EXCEPT ![c] = NoRequest]
        /\ UNCHANGED <<wat, stmt, now>>
    BY <1>4 DEF HandlerStep, ListAnswered, ListFails, ListCancelled,
                NotifyAccepted, NotifyRefused, NotifyGivenUp, Reply, Answer,
                workerVars
  <2>2. /\ at'[c] \in {"reply", "idle"}
        /\ \A d \in Clients \ {c} : at'[d] = at[d] /\ req'[d] = req[d]
    BY <2>1 DEF HttpTypeOK, RequestsTyped
  <2> QED
    BY <2>1, <2>2 DEF PlaceInv
<1>5. CASE \/ Cancel \/ DbHangs \/ DbRecovers \/ UNCHANGED vars
           \/ \E c \in Clients : LatePost(c) \/ HangUp(c)
  <2>1. UNCHANGED <<at, req, wat, stmt, now>>
    BY <1>5 DEF Cancel, DbHangs, DbRecovers, LatePost, HangUp, vars, reqVars,
                workerVars
  <2> QED
    BY <2>1 DEF PlaceInv
<1>6. CASE Restart
  BY <1>6 DEF Restart, PlaceInv
<1> QED
  BY <1>1, <1>2, <1>3, <1>4, <1>5, <1>6 DEF Next

\* What holds of a process that has just started.
LEMMA InitCorrect ==
  ASSUME Init
  PROVE  HttpTypeOK /\ PlaceInv /\ PoolInv
<1>1. PoolInv
  BY PoolOpened DEF Init
<1>2. PlaceInv
  BY DEF Init, PlaceInv
<1>3. HttpTypeOK
  BY <1>1, HttpApiAssumption
     DEF Init, FirstOfCycle, HttpTypeOK, RequestsTyped, PoolInv, Names
<1> QED
  BY <1>1, <1>2, <1>3

\* Types, places and the pool are kept together: that a connection given back
\* finds room in the pool rests on who holds one.
LEMMA StepKeepsTypes ==
  ASSUME HttpTypeOK, PlaceInv, PoolInv, [Next]_vars
  PROVE  HttpTypeOK' /\ PlaceInv' /\ PoolInv'
<1>1. PoolInv'
  BY StepKeepsPool
<1>2. HttpTypeOK'
  BY <1>1, ArrivalTyped, HandlerStepTyped, WorkerStepTyped, OtherStepTyped
     DEF Next
<1> QED
  BY <1>1, <1>2, StepKeepsPlace

\* Every variable keeps its type: no more connections are idle than the pool
\* has, whatever is answered, fails, is cancelled or restarts.
THEOREM HttpTypeCorrect == Spec => []HttpTypeOK
<1>1. Init => HttpTypeOK /\ PlaceInv /\ PoolInv
  BY InitCorrect
<1>2. HttpTypeOK /\ PlaceInv /\ PoolInv /\ [Next]_vars
        => (HttpTypeOK /\ PlaceInv /\ PoolInv)'
  BY StepKeepsTypes
<1> QED
  BY <1>1, <1>2, PTL DEF Spec

\* A handler's place tells what its request asked for.
THEOREM PlaceCorrect == Spec => []PlaceInv
<1>1. Init => HttpTypeOK /\ PlaceInv /\ PoolInv
  BY InitCorrect
<1>2. HttpTypeOK /\ PlaceInv /\ PoolInv /\ [Next]_vars
        => (HttpTypeOK /\ PlaceInv /\ PoolInv)'
  BY StepKeepsTypes
<1> QED
  BY <1>1, <1>2, PTL DEF Spec

\* No connection is lost or lent twice, for any number of clients and any size
\* of the pool.
THEOREM ConnsCorrect == Spec => []ConnsAccounted
<1>1. Init => HttpTypeOK /\ PlaceInv /\ PoolInv
  BY InitCorrect
<1>2. HttpTypeOK /\ PlaceInv /\ PoolInv /\ [Next]_vars
        => (HttpTypeOK /\ PlaceInv /\ PoolInv)'
  BY StepKeepsTypes
<1>3. PoolInv => ConnsAccounted
  BY DEF PoolInv
<1> QED
  BY <1>1, <1>2, <1>3, PTL DEF Spec

-----------------------------------------------------------------------------
(* The channel.                                                            *)

\* A client's messages: no more than its tries in doubt, and one more when it
\* was told, or is being told, that its message was sent.  Then it was posted,
\* and it is told once.
Account(c) ==
  /\ posted[c] + wire[c] <=
       doubts[c] + (IF c \in told \/ SaysSent(c) THEN 1 ELSE 0)
  /\ c \in told => at[c] # "await" /\ ~ SaysSent(c)
  /\ c \in told \/ SaysSent(c) => posted[c] > 0

ChannelInv == \A c \in Clients : Account(c)

\* Steps of others are no matter of a client's account.
LEMMA AccountKept ==
  ASSUME NEW c \in Clients, Account(c),
         at'[c] = at[c], req'[c] = req[c], status'[c] = status[c],
         posted'[c] = posted[c], wire'[c] = wire[c], doubts'[c] = doubts[c],
         c \in told' <=> c \in told
  PROVE  Account(c)'
BY DEF Account, SaysSent

\* So are its own that neither post, nor give up, nor tell.
LEMMA AccountUntouched ==
  ASSUME HttpTypeOK, ChannelInv, NEW c \in Clients,
         \A d \in Clients \ {c} :
           at'[d] = at[d] /\ req'[d] = req[d] /\ status'[d] = status[d],
         ~ SaysSent(c), ~ SaysSent(c)', at'[c] = "await" => c \notin told,
         UNCHANGED <<posted, wire, doubts, told>>
  PROVE  ChannelInv'
<1>1. Account(c)'
  BY DEF ChannelInv, Account
<1>2. \A d \in Clients \ {c} : Account(d)'
  BY AccountKept DEF ChannelInv
<1> QED
  BY <1>1, <1>2 DEF ChannelInv

\* Telegram's answers, and its silence.
LEMMA NotifyKeepsChannel ==
  ASSUME HttpTypeOK, PlaceInv, ChannelInv, NEW c \in Clients,
         NotifyAccepted(c) \/ NotifyRefused(c) \/ NotifyGivenUp(c)
  PROVE  ChannelInv'
<1>0. /\ at[c] = "await" /\ c \notin told /\ req[c].kind = "text"
      /\ ~ SaysSent(c) /\ posted[c] + wire[c] <= doubts[c]
  BY DEF NotifyAccepted, NotifyRefused, NotifyGivenUp, SaysSent, ChannelInv,
         Account, PlaceInv, HttpTypeOK
<1>1. CASE NotifyAccepted(c)
  <2>1. /\ SaysSent(c)' /\ UNCHANGED told
        /\ posted'[c] = posted[c] + 1 /\ wire'[c] = wire[c]
        /\ doubts'[c] = doubts[c]
    BY <1>0, <1>1
       DEF NotifyAccepted, Answer, SaysSent, HttpTypeOK, RequestsTyped
  <2>2. Account(c)'
    BY <1>0, <2>1 DEF Account, HttpTypeOK
  <2>3. ASSUME NEW d \in Clients \ {c}
        PROVE  Account(d)'
    BY <1>1, AccountKept DEF NotifyAccepted, Answer, ChannelInv, HttpTypeOK
  <2> QED
    BY <2>2, <2>3 DEF ChannelInv
<1>2. CASE NotifyRefused(c)
  BY <1>0, <1>2, AccountUntouched
     DEF NotifyRefused, Answer, SaysSent, HttpTypeOK, RequestsTyped, chanVars
<1>3. CASE NotifyGivenUp(c)
  <2>1. /\ ~ SaysSent(c)' /\ UNCHANGED told /\ at'[c] = "reply"
        /\ posted'[c] = posted[c] /\ wire'[c] = wire[c] + 1
        /\ doubts'[c] = doubts[c] + 1
    BY <1>3 DEF NotifyGivenUp, Answer, SaysSent, HttpTypeOK, RequestsTyped
  <2>2. Account(c)'
    BY <1>0, <2>1 DEF Account, HttpTypeOK
  <2>3. ASSUME NEW d \in Clients \ {c}
        PROVE  Account(d)'
    BY <1>3, AccountKept DEF NotifyGivenUp, Answer, ChannelInv, HttpTypeOK
  <2> QED
    BY <2>2, <2>3 DEF ChannelInv
<1> QED
  BY <1>1, <1>2, <1>3

\* The end of a request: "sent" reaches the client, or is in doubt for it.
LEMMA ReplyKeepsChannel ==
  ASSUME HttpTypeOK, ChannelInv, NEW c \in Clients, Reply(c)
  PROVE  ChannelInv'
<1>1. /\ at'[c] = "idle" /\ UNCHANGED <<posted, wire>>
      /\ ~ SaysSent(c)'
  BY DEF Reply, SaysSent, HttpTypeOK, RequestsTyped
<1>2. /\ c \in told' <=> c \in told \/ (SaysSent(c) /\ c \notin gone)
      /\ doubts'[c] = doubts[c] + IF SaysSent(c) /\ c \in gone THEN 1 ELSE 0
  BY DEF Reply, HttpTypeOK
<1>3. Account(c)'
  <2>1. Account(c)
    BY DEF ChannelInv
  <2>2. posted[c] \in Nat /\ wire[c] \in Nat /\ doubts[c] \in Nat
    BY DEF HttpTypeOK
  <2>3. CASE SaysSent(c)
    BY <1>1, <1>2, <2>1, <2>2, <2>3 DEF Account
  <2>4. CASE ~ SaysSent(c)
    BY <1>1, <1>2, <2>1, <2>2, <2>4 DEF Account
  <2> QED
    BY <2>3, <2>4
<1>4. ASSUME NEW d \in Clients \ {c}
      PROVE  Account(d)'
  <2>1. Account(d)
    BY DEF ChannelInv
  <2>2. /\ at'[d] = at[d] /\ req'[d] = req[d] /\ status'[d] = status[d]
        /\ doubts'[d] = doubts[d]
        /\ d \in told' <=> d \in told
    BY DEF Reply, HttpTypeOK
  <2> QED
    BY <1>1, <2>1, <2>2, AccountKept
<1> QED
  BY <1>3, <1>4 DEF ChannelInv

\* A message given up is posted late; a restart leaves what was at Telegram or
\* on its way back to the client in doubt.
LEMMA LateKeepsChannel ==
  ASSUME HttpTypeOK, ChannelInv, Restart \/ \E c \in Clients : LatePost(c)
  PROVE  ChannelInv'
<1>1. ASSUME NEW c \in Clients, LatePost(c)
      PROVE  ChannelInv'
  <2>1. /\ posted'[c] = posted[c] + 1 /\ wire'[c] = wire[c] - 1
        /\ UNCHANGED <<at, req, status, doubts, told>>
        /\ \A d \in Clients \ {c} : posted'[d] = posted[d] /\ wire'[d] = wire[d]
    BY <1>1 DEF LatePost, HttpTypeOK, reqVars
  <2>2. SaysSent(c)' <=> SaysSent(c)
    BY <2>1 DEF SaysSent
  <2>3. Account(c)'
    BY <2>1, <2>2 DEF ChannelInv, Account, HttpTypeOK
  <2>4. ASSUME NEW d \in Clients \ {c}
        PROVE  Account(d)'
    BY <2>1, AccountKept DEF ChannelInv
  <2> QED
    BY <2>3, <2>4 DEF ChannelInv
<1>2. CASE Restart
  <2> SUFFICES ASSUME NEW c \in Clients
               PROVE  Account(c)'
    BY DEF ChannelInv
  <2>1. /\ at'[c] = "idle" /\ UNCHANGED <<posted, told>> /\ ~ SaysSent(c)'
        /\ wire'[c] = wire[c] + (IF at[c] = "await" THEN 1 ELSE 0)
        /\ doubts'[c] =
             doubts[c] + (IF at[c] = "await" \/ SaysSent(c) THEN 1 ELSE 0)
    BY <1>2 DEF Restart, SaysSent
  <2>2. Account(c) /\ ~ (at[c] = "await" /\ SaysSent(c))
    BY DEF ChannelInv, SaysSent
  <2>3. posted[c] \in Nat /\ wire[c] \in Nat /\ doubts[c] \in Nat
    BY DEF HttpTypeOK
  <2> QED
    BY <2>1, <2>2, <2>3 DEF Account
<1> QED
  BY <1>1, <1>2

\* Every step keeps the accounts of the channel.
LEMMA StepKeepsChannel ==
  ASSUME HttpTypeOK, PlaceInv, PoolInv, ChannelInv, [Next]_vars
  PROVE  ChannelInv'
<1>1. ASSUME NEW c \in Clients, Arrivals(c)
      PROVE  ChannelInv'
  <2>1. /\ at[c] = "idle"
        /\ at'[c] = "await" => c \notin told
        /\ ~ SaysSent(c)'
    BY <1>1 DEF Arrivals, Ping, List, NotifyInvalid, Notify, Arrive, Answer,
                SaysSent, HttpTypeOK, RequestsTyped
  <2>2. /\ UNCHANGED <<posted, wire, doubts, told>>
        /\ \A d \in Clients \ {c} :
             at'[d] = at[d] /\ req'[d] = req[d] /\ status'[d] = status[d]
    BY <1>1 DEF Arrivals, Ping, List, NotifyInvalid, Notify, Arrive, Answer,
                HttpTypeOK, RequestsTyped, chanVars
  <2>3. ~ SaysSent(c)
    BY <2>1 DEF SaysSent
  <2> QED
    BY <2>1, <2>2, <2>3, AccountUntouched
<1>2. ASSUME NEW c \in Clients,
             ListAnswered(c) \/ ListFails(c) \/ ListCancelled(c)
      PROVE  ChannelInv'
  <2>1. req[c].kind = "offers" /\ at[c] # "reply" /\ at'[c] = "reply"
    BY <1>2 DEF ListAnswered, ListFails, ListCancelled, Answer, PlaceInv,
                HttpTypeOK, RequestsTyped
  <2>2. /\ UNCHANGED <<req, posted, wire, doubts, told>>
        /\ \A d \in Clients \ {c} : at'[d] = at[d] /\ status'[d] = status[d]
    BY <1>2 DEF ListAnswered, ListFails, ListCancelled, Answer, HttpTypeOK,
                RequestsTyped, chanVars
  <2>3. ~ SaysSent(c) /\ ~ SaysSent(c)'
    BY <2>1, <2>2 DEF SaysSent
  <2> QED
    BY <2>1, <2>2, <2>3, AccountUntouched
<1>3. ASSUME NEW c \in Clients,
             \/ NotifyAccepted(c) \/ NotifyRefused(c) \/ NotifyGivenUp(c)
             \/ Reply(c)
      PROVE  ChannelInv'
  BY <1>3, NotifyKeepsChannel, ReplyKeepsChannel
<1>4. CASE Restart \/ \E c \in Clients : LatePost(c)
  BY <1>4, LateKeepsChannel
<1>5. CASE Grant
  <2> SUFFICES ASSUME NEW c \in Clients
               PROVE  Account(c)'
    BY DEF ChannelInv
  <2>1. /\ UNCHANGED <<req, status, posted, wire, doubts, told>>
        /\ at'[c] \in {at[c], "query"}
    BY <1>5 DEF Grant, chanVars, HttpTypeOK, RequestsTyped
  <2>2. CASE at'[c] = at[c]
    BY <2>1, <2>2, AccountKept DEF ChannelInv
  <2>3. CASE at'[c] = "query" /\ Head(queue) = c
    <3>1. at[c] = "acquire"
      <4>1. c \in Waiting
        BY <1>5, <2>3, HeadLeaves DEF Grant, PoolInv, ConnsAccounted, Members
      <4> QED
        BY <4>1, HttpApiAssumption DEF Waiting
    <3> QED
      BY <2>1, <2>3, <3>1 DEF ChannelInv, Account, SaysSent
  <2> QED
    BY <1>5, <2>1, <2>2, <2>3 DEF Grant, HttpTypeOK, RequestsTyped
<1>6. CASE \/ WorkerStep \/ Cancel \/ DbHangs \/ DbRecovers \/ UNCHANGED vars
           \/ \E c \in Clients : HangUp(c)
  <2>1. UNCHANGED <<at, req, status, posted, wire, doubts, told>>
    BY <1>6 DEF WorkerStep, WorkerAsks, WorkerDone, WorkerFails, WorkerStops,
                Cancel, DbHangs, DbRecovers, HangUp, vars, reqVars, chanVars
  <2> QED
    BY <2>1, AccountKept DEF ChannelInv
<1> QED
  BY <1>1, <1>2, <1>3, <1>4, <1>5, <1>6 DEF Next, HandlerStep

\* A client is not told before its message is posted, and posting it again
\* takes a try left in doubt.
THEOREM ChannelCorrect == Spec => []ChannelInv
<1>1. Init => HttpTypeOK /\ PlaceInv /\ PoolInv /\ ChannelInv
  <2> SUFFICES ASSUME Init
               PROVE  ChannelInv
    BY InitCorrect
  <2> QED
    BY DEF Init, ChannelInv, Account, SaysSent
<1>2. HttpTypeOK /\ PlaceInv /\ PoolInv /\ ChannelInv /\ [Next]_vars
        => (HttpTypeOK /\ PlaceInv /\ PoolInv /\ ChannelInv)'
  BY StepKeepsTypes, StepKeepsChannel
<1> QED
  BY <1>1, <1>2, PTL DEF Spec

\* A client that asks again until it is told "sent" posts its message once more
\* for every try left in doubt, and no oftener, for any number of clients,
\* tries and failures.
THEOREM RetriesCorrect == Spec => []RetriesAccounted
<1>1. HttpTypeOK /\ ChannelInv => RetriesAccounted
  <2> SUFFICES ASSUME HttpTypeOK, ChannelInv, NEW c \in Clients
               PROVE  posted[c] <= doubts[c] + 1
    BY DEF RetriesAccounted
  <2>1. posted[c] \in Nat /\ wire[c] \in Nat /\ doubts[c] \in Nat
    BY DEF HttpTypeOK
  <2>2. posted[c] + wire[c] <= doubts[c] + 1
    BY <2>1 DEF ChannelInv, Account
  <2> QED
    BY <2>1, <2>2
<1> QED
  BY <1>1, HttpTypeCorrect, ChannelCorrect, PTL

-----------------------------------------------------------------------------
(* POST /api/notify implements module Delivery: a request is asked for when *)
(* it is sent, posted when the channel shows it, refused when Telegram says *)
(* so, and recorded when its client is told.                                *)

Asked(c) == wire[c] + (IF at[c] = "await" THEN 1 ELSE 0)

\* A step that changes nothing Delivery sees is none of it.
LEMMA DeliveryStutters ==
  ASSUME HttpTypeOK, UNCHANGED <<posted, told>>,
         \A c \in Clients : Asked(c)' = Asked(c)
  PROVE  UNCHANGED D!vars
BY DEF D!vars, Asked

\* What one client's count of requests, and no other's, became.
LEMMA OneAsked ==
  ASSUME HttpTypeOK, NEW c \in Clients, NEW n, Asked(c)' = n,
         \A d \in Clients \ {c} : Asked(d)' = Asked(d)
  PROVE  [d \in Clients |-> Asked(d)]' =
           [[d \in Clients |-> Asked(d)] EXCEPT ![c] = n]
OBVIOUS

\* A notify arrives: its message is asked for.
LEMMA NotifyIsAsk ==
  ASSUME HttpTypeOK, NEW c \in Clients, Notify(c)
  PROVE  D!Ask(c)
<1>1. /\ c \notin told /\ UNCHANGED <<posted, told>>
      /\ Asked(c)' = Asked(c) + 1
      /\ \A d \in Clients \ {c} : Asked(d)' = Asked(d)
  BY DEF Notify, Arrive, Asked, HttpTypeOK, RequestsTyped
<1>2. [d \in Clients |-> Asked(d)]' =
        [[d \in Clients |-> Asked(d)] EXCEPT ![c] = Asked(c) + 1]
  BY <1>1, OneAsked
<1> QED
  BY <1>1, <1>2 DEF D!Ask, Asked

\* The message is posted, at once or late.
LEMMA AcceptedIsPost ==
  ASSUME HttpTypeOK, NEW c \in Clients, NotifyAccepted(c) \/ LatePost(c)
  PROVE  D!Post(c)
<1>1. /\ UNCHANGED told /\ Asked(c) > 0
      /\ posted' = [posted EXCEPT ![c] = @ + 1]
      /\ Asked(c)' = Asked(c) - 1
      /\ \A d \in Clients \ {c} : Asked(d)' = Asked(d)
  <2>1. CASE NotifyAccepted(c)
    BY <2>1 DEF NotifyAccepted, Answer, Asked, HttpTypeOK, RequestsTyped
  <2>2. CASE LatePost(c)
    BY <2>2 DEF LatePost, reqVars, Asked, HttpTypeOK
  <2> QED
    BY <2>1, <2>2
<1>2. [d \in Clients |-> Asked(d)]' =
        [[d \in Clients |-> Asked(d)] EXCEPT ![c] = Asked(c) - 1]
  BY <1>1, OneAsked
<1> QED
  BY <1>1, <1>2 DEF D!Post, Asked

\* Telegram refuses it.
LEMMA RefusedIsRefuse ==
  ASSUME HttpTypeOK, NEW c \in Clients, NotifyRefused(c)
  PROVE  D!Refuse(c)
<1>1. /\ UNCHANGED <<posted, told>> /\ Asked(c) > 0
      /\ Asked(c)' = Asked(c) - 1
      /\ \A d \in Clients \ {c} : Asked(d)' = Asked(d)
  BY DEF NotifyRefused, Answer, chanVars, Asked, HttpTypeOK, RequestsTyped
<1>2. [d \in Clients |-> Asked(d)]' =
        [[d \in Clients |-> Asked(d)] EXCEPT ![c] = Asked(c) - 1]
  BY <1>1, OneAsked
<1> QED
  BY <1>1, <1>2 DEF D!Refuse, Asked

\* The answer reaches the client: its message is recorded if it says so, and
\* then it was posted.
LEMMA ReplyIsRecord ==
  ASSUME HttpTypeOK, ChannelInv, NEW c \in Clients, Reply(c)
  PROVE  D!Record(c) \/ UNCHANGED D!vars
<1>1. /\ UNCHANGED posted
      /\ \A d \in Clients : Asked(d)' = Asked(d)
  BY DEF Reply, Asked, HttpTypeOK
<1>2. [d \in Clients |-> Asked(d)]' = [d \in Clients |-> Asked(d)]
  BY <1>1
<1>3. CASE SaysSent(c) /\ c \notin gone
  <2>1. told' = told \cup {c} /\ posted[c] > 0
    BY <1>3 DEF Reply, ChannelInv, Account
  <2> QED
    BY <1>1, <1>2, <2>1 DEF D!Record, Asked
<1>4. CASE ~ (SaysSent(c) /\ c \notin gone)
  <2>1. UNCHANGED told
    BY <1>4 DEF Reply
  <2> QED
    BY <1>1, <2>1, DeliveryStutters
<1> QED
  BY <1>3, <1>4

\* Every step of the API, of its failures and of its surroundings is a step of
\* the abstract delivery or no step of it.
THEOREM NotifyImplementsDelivery == Spec => SentMeansPosted
<1>1. Init => D!Init
  <2> SUFFICES ASSUME Init
               PROVE  D!Init
    OBVIOUS
  <2> QED
    BY DEF Init, D!Init
<1>2. HttpTypeOK /\ PlaceInv /\ PoolInv /\ ChannelInv /\ [Next]_vars
        => [D!Next]_(D!vars)
  <2> SUFFICES ASSUME HttpTypeOK, PlaceInv, PoolInv, ChannelInv, [Next]_vars
               PROVE  D!Next \/ UNCHANGED D!vars
    OBVIOUS
  <2>1. ASSUME NEW c \in Clients, Arrivals(c)
        PROVE  D!Next \/ UNCHANGED D!vars
    <3>1. CASE Notify(c)
      BY <3>1, NotifyIsAsk DEF D!Next
    <3>2. CASE Ping(c) \/ List(c) \/ NotifyInvalid(c)
      <4>1. /\ UNCHANGED <<posted, told>>
            /\ \A d \in Clients : Asked(d)' = Asked(d)
        BY <3>2 DEF Ping, List, NotifyInvalid, Arrive, Answer, Asked, chanVars,
                    HttpTypeOK, RequestsTyped
      <4> QED
        BY <4>1, DeliveryStutters
    <3> QED
      BY <2>1, <3>1, <3>2 DEF Arrivals
  <2>2. ASSUME NEW c \in Clients, HandlerStep(c) \/ LatePost(c)
        PROVE  D!Next \/ UNCHANGED D!vars
    <3>1. CASE ListAnswered(c) \/ ListFails(c) \/ ListCancelled(c)
      <4>1. UNCHANGED <<posted, wire, told>> /\ at[c] # "await"
            /\ at'[c] # "await" /\ \A d \in Clients \ {c} : at'[d] = at[d]
        BY <3>1 DEF ListAnswered, ListFails, ListCancelled, Answer, chanVars,
                    HttpTypeOK, RequestsTyped
      <4>2. \A d \in Clients : Asked(d)' = Asked(d)
        BY <4>1 DEF Asked
      <4> QED
        BY <4>1, <4>2, DeliveryStutters
    <3>2. CASE NotifyAccepted(c) \/ LatePost(c)
      BY <3>2, AcceptedIsPost DEF D!Next
    <3>3. CASE NotifyRefused(c)
      BY <3>3, RefusedIsRefuse DEF D!Next
    <3>4. CASE NotifyGivenUp(c)
      <4>1. /\ UNCHANGED <<posted, told>>
            /\ \A d \in Clients : Asked(d)' = Asked(d)
        BY <3>4 DEF NotifyGivenUp, Answer, Asked, HttpTypeOK, RequestsTyped
      <4> QED
        BY <4>1, DeliveryStutters
    <3>5. CASE Reply(c)
      BY <3>5, ReplyIsRecord DEF D!Next
    <3> QED
      BY <2>2, <3>1, <3>2, <3>3, <3>4, <3>5 DEF HandlerStep
  <2>3. CASE Grant
    <3>1. \A d \in Clients : at'[d] = "await" <=> at[d] = "await"
      <4>1. Head(queue) \in Waiting
        BY <2>3, HeadLeaves DEF Grant, PoolInv, ConnsAccounted, Members
      <4>2. CASE Head(queue) = "worker"
        BY <2>3, <4>2 DEF Grant
      <4>3. CASE Head(queue) # "worker"
        <5>1. PICK c \in Clients : c = Head(queue) /\ at[c] = "acquire"
          BY <4>1, <4>3 DEF Waiting
        <5>2. at' = [at EXCEPT ![c] = "query"]
          BY <2>3, <4>3, <5>1 DEF Grant
        <5> QED
          BY <5>1, <5>2 DEF HttpTypeOK
      <4> QED
        BY <4>2, <4>3
    <3>2. UNCHANGED <<posted, wire, told>>
      BY <2>3 DEF Grant, chanVars
    <3>3. \A d \in Clients : Asked(d)' = Asked(d)
      BY <3>1, <3>2 DEF Asked
    <3> QED
      BY <3>2, <3>3, DeliveryStutters
  <2>4. CASE \/ WorkerStep \/ Cancel \/ DbHangs \/ DbRecovers \/ UNCHANGED vars
             \/ \E c \in Clients : HangUp(c)
    <3>1. UNCHANGED <<at, posted, wire, told>>
      BY <2>4 DEF WorkerStep, WorkerAsks, WorkerDone, WorkerFails, WorkerStops,
                  Cancel, DbHangs, DbRecovers, HangUp, vars, reqVars, chanVars
    <3>2. \A d \in Clients : Asked(d)' = Asked(d)
      BY <3>1 DEF Asked
    <3> QED
      BY <3>1, <3>2, DeliveryStutters
  <2>5. CASE Restart
    <3>1. /\ UNCHANGED <<posted, told>>
          /\ \A d \in Clients : Asked(d)' = Asked(d)
      BY <2>5 DEF Restart, Asked, HttpTypeOK
    <3> QED
      BY <3>1, DeliveryStutters
  <2> QED
    BY <2>1, <2>2, <2>3, <2>4, <2>5 DEF Next
<1>3. Init => HttpTypeOK /\ PlaceInv /\ PoolInv
  BY InitCorrect
<1>4. HttpTypeOK /\ PlaceInv /\ PoolInv /\ [Next]_vars
        => (HttpTypeOK /\ PlaceInv /\ PoolInv)'
  BY StepKeepsTypes
<1> QED
  BY <1>1, <1>2, <1>3, <1>4, ChannelCorrect, PTL
     DEF Spec, SentMeansPosted, D!Spec

-----------------------------------------------------------------------------
(* GET /api/offers.                                                        *)

\* Rows are never deleted: what was stored when a request came is stored when
\* its statement runs.
TableInv ==
  /\ IsFiniteSet(DOMAIN offers)
  /\ \A c \in Clients : before[c] \subseteq DOMAIN offers

\* No step takes a row away or stores infinitely many.
LEMMA StepKeepsTable ==
  ASSUME HttpTypeOK, TableInv, [Next]_vars
  PROVE  TableInv'
<1>1. DOMAIN offers \subseteq DOMAIN offers' /\ IsFiniteSet(DOMAIN offers')
  <2>1. CASE WorkerDone
    <3>1. /\ DOMAIN offers \subseteq DOMAIN offers'
          /\ \/ DOMAIN offers' = DOMAIN offers
             \/ \E batch \in Batches :
                  DOMAIN offers' = DOMAIN offers \cup BatchKeys(batch)
      BY <2>1, WorkerKeepsTable
    <3>2. \A batch \in Batches : IsFiniteSet(BatchKeys(batch))
      BY BatchKeysFinite, HttpApiAssumption
    <3> QED
      BY <3>1, <3>2, FS_Union DEF TableInv
  <2>2. UNCHANGED offers \/ WorkerDone
    BY DEF Next, Grant, WorkerStep, WorkerAsks, WorkerFails, WorkerStops,
           Arrivals, Ping, List, NotifyInvalid, Notify, HandlerStep,
           ListAnswered, ListFails, ListCancelled, NotifyAccepted,
           NotifyRefused, NotifyGivenUp, Reply, LatePost, HangUp, Cancel,
           DbHangs, DbRecovers, Restart, vars
  <2> QED
    BY <2>1, <2>2 DEF TableInv
<1>2. ASSUME NEW c \in Clients
      PROVE  before'[c] \subseteq DOMAIN offers'
  <2>1. before'[c] \in {before[c], DOMAIN offers, {}}
    <3>1. CASE \E d \in Clients : List(d) \/ Reply(d)
      BY <3>1 DEF List, Reply, HttpTypeOK
    <3>2. CASE Restart
      BY <3>2 DEF Restart
    <3>3. \/ UNCHANGED before \/ Restart
          \/ \E d \in Clients : List(d) \/ Reply(d)
      BY DEF Next, Grant, WorkerStep, WorkerAsks, WorkerDone, WorkerFails,
             WorkerStops, Arrivals, Ping, NotifyInvalid, Notify, HandlerStep,
             ListAnswered, ListFails, ListCancelled, NotifyAccepted,
             NotifyRefused, NotifyGivenUp, LatePost, HangUp, Cancel, DbHangs,
             DbRecovers, vars, reqVars
    <3> QED
      BY <3>1, <3>2, <3>3
  <2> QED
    BY <1>1, <2>1 DEF TableInv
<1> QED
  BY <1>1, <1>2 DEF TableInv

\* A client that is not being answered with a list is owed nothing; the answers
\* of the others stay what they were.
LEMMA AnswersKept ==
  ASSUME LeavesNothingOut, NEW C \in SUBSET Clients,
         \A c \in C : ~ (at'[c] = "reply" /\ status'[c] = 200
                         /\ req'[c].kind = "offers"),
         \A c \in Clients \ C :
           /\ at'[c] = at[c] /\ req'[c] = req[c] /\ status'[c] = status[c]
           /\ body'[c] = body[c] /\ before'[c] = before[c]
  PROVE  LeavesNothingOut'
<1> SUFFICES ASSUME NEW c \in Clients,
                    at'[c] = "reply", status'[c] = 200, req'[c].kind = "offers"
             PROVE  Complete(Filter(req'[c].filter), before'[c], body'[c])
  BY DEF LeavesNothingOut
<1>1. c \in Clients \ C
  OBVIOUS
<1> QED
  BY <1>1 DEF LeavesNothingOut

\* The same for one client.
LEMMA OtherAnswersKept ==
  ASSUME LeavesNothingOut, NEW c \in Clients,
         ~ (at'[c] = "reply" /\ status'[c] = 200 /\ req'[c].kind = "offers"),
         \A d \in Clients \ {c} :
           /\ at'[d] = at[d] /\ req'[d] = req[d] /\ status'[d] = status[d]
           /\ body'[d] = body[d] /\ before'[d] = before[d]
  PROVE  LeavesNothingOut'
<1> DEFINE C == {c}
<1>1. C \in SUBSET Clients
  OBVIOUS
<1>2. \A d \in C : ~ (at'[d] = "reply" /\ status'[d] = 200
                     /\ req'[d].kind = "offers")
  OBVIOUS
<1> HIDE DEF C
<1>3. \A d \in Clients \ C :
        /\ at'[d] = at[d] /\ req'[d] = req[d] /\ status'[d] = status[d]
        /\ body'[d] = body[d] /\ before'[d] = before[d]
  BY DEF C
<1> QED
  BY <1>1, <1>2, <1>3, AnswersKept

\* The answer to a list is complete.
LEMMA AnswerComplete ==
  ASSUME HttpTypeOK, PlaceInv, TableInv, LeavesNothingOut,
         NEW c \in Clients, ListAnswered(c)
  PROVE  LeavesNothingOut'
<1> DEFINE f == Filter(req[c].filter)
<1>1. req[c].filter \in Filters
  <2>1. at[c] = "query" /\ req[c] \in Requests \cup {NoRequest}
    BY DEF ListAnswered, HttpTypeOK, RequestsTyped
  <2>2. req[c] # NoRequest
    BY <2>1 DEF HttpTypeOK, RequestsTyped
  <2> QED
    BY <2>1, <2>2 DEF Requests
<1>2. f.limit \in Int
  BY <1>1, HttpApiAssumption DEF Filter
<1>3. PICK page \in ListedPages(f.origin, f.destination, f.limit) :
        body' = [body EXCEPT ![c] = page]
  BY DEF ListAnswered
<1>4. \A k \in DOMAIN offers : k.date \in Nat
  BY HttpApiAssumption DEF HttpTypeOK
<1>5. /\ Cardinality(page) <= EffectiveLimit(f.limit)
      /\ \/ page = Matching(f.origin, f.destination)
         \/ /\ Cardinality(page) = EffectiveLimit(f.limit)
            /\ \A k \in Matching(f.origin, f.destination) \ page, l \in page :
                 k.date >= l.date
  <2> HIDE DEF f
  <2> QED
    BY <1>2, <1>3, <1>4, ListedPageComplete DEF TableInv
<1>6. Complete(f, before[c], page)
  <2> HIDE DEF f
  <2> DEFINE owed == {k \in before[c] :
                        /\ f.origin = "" \/ k.origin = f.origin
                        /\ f.destination = "" \/ k.destination = f.destination}
  <2>1. owed \subseteq Matching(f.origin, f.destination)
    <3>1. before[c] \subseteq DOMAIN offers
      BY DEF TableInv
    <3> QED
      BY <3>1 DEF Matching
  <2>2. /\ Cardinality(page) <= EffectiveLimit(f.limit)
        /\ \/ owed \subseteq page
           \/ /\ Cardinality(page) = EffectiveLimit(f.limit)
              /\ \A k \in owed \ page, l \in page : k.date >= l.date
    <3> HIDE DEF owed
    <3> DEFINE size == EffectiveLimit(f.limit)
               all  == Matching(f.origin, f.destination)
    <3>1. owed \subseteq all
      BY <2>1
    <3>2. /\ Cardinality(page) <= size
          /\ \/ page = all
             \/ /\ Cardinality(page) = size
                /\ \A k \in all \ page, l \in page : k.date >= l.date
      BY <1>5
    <3> HIDE DEF size, all
    <3>3. /\ Cardinality(page) <= size
          /\ \/ owed \subseteq page
             \/ /\ Cardinality(page) = size
                /\ \A k \in owed \ page, l \in page : k.date >= l.date
      BY <3>1, <3>2
    <3> QED
      BY <3>3 DEF size
  <2> QED
    BY <2>2 DEF Complete
<1>7. body'[c] = page /\ req' = req /\ before' = before
  <2>1. body \in [Clients -> SUBSET Keys]
    BY DEF HttpTypeOK
  <2>2. req' = req /\ before' = before
    BY DEF ListAnswered
  <2> QED
    BY <1>3, <2>1, <2>2
<1>8. \A d \in Clients \ {c} :
        at'[d] = at[d] /\ status'[d] = status[d] /\ body'[d] = body[d]
  BY <1>3 DEF ListAnswered, Answer, HttpTypeOK
<1>9. ASSUME NEW d \in Clients,
             at'[d] = "reply", status'[d] = 200, req'[d].kind = "offers"
      PROVE  Complete(Filter(req'[d].filter), before'[d], body'[d])
  <2>1. CASE d = c
    BY <1>6, <1>7, <2>1
  <2>2. CASE d # c
    BY <1>7, <1>8, <1>9, <2>2 DEF LeavesNothingOut
  <2> QED
    BY <2>1, <2>2
<1> QED
  BY <1>9 DEF LeavesNothingOut

\* Every step keeps the answers complete.
LEMMA StepKeepsAnswers ==
  ASSUME HttpTypeOK, PlaceInv, PoolInv, TableInv, LeavesNothingOut, [Next]_vars
  PROVE  LeavesNothingOut'
<1>1. ASSUME NEW c \in Clients, Arrivals(c)
      PROVE  LeavesNothingOut'
  <2>1. ~ (at'[c] = "reply" /\ status'[c] = 200 /\ req'[c].kind = "offers")
    BY <1>1 DEF Arrivals, Ping, List, NotifyInvalid, Notify, Arrive, Answer,
                HttpTypeOK, RequestsTyped
  <2>2. \A d \in Clients \ {c} :
          /\ at'[d] = at[d] /\ req'[d] = req[d] /\ status'[d] = status[d]
          /\ body'[d] = body[d] /\ before'[d] = before[d]
    BY <1>1 DEF Arrivals, Ping, List, NotifyInvalid, Notify, Arrive, Answer,
                HttpTypeOK, RequestsTyped
  <2> QED
    BY <2>1, <2>2, OtherAnswersKept
<1>2. ASSUME NEW c \in Clients, HandlerStep(c)
      PROVE  LeavesNothingOut'
  <2>1. CASE ListAnswered(c)
    BY <2>1, AnswerComplete
  <2>2. CASE \/ ListFails(c) \/ ListCancelled(c)
             \/ NotifyAccepted(c) \/ NotifyRefused(c) \/ NotifyGivenUp(c)
             \/ Reply(c)
    <3>1. ~ (at'[c] = "reply" /\ status'[c] = 200 /\ req'[c].kind = "offers")
      BY <2>2 DEF ListFails, ListCancelled, NotifyAccepted, NotifyRefused,
                  NotifyGivenUp, Reply, Answer, HttpTypeOK, PlaceInv
    <3>2. \A d \in Clients \ {c} :
            /\ at'[d] = at[d] /\ req'[d] = req[d] /\ status'[d] = status[d]
            /\ body'[d] = body[d] /\ before'[d] = before[d]
      BY <2>2 DEF ListFails, ListCancelled, NotifyAccepted, NotifyRefused,
                  NotifyGivenUp, Reply, Answer, HttpTypeOK, RequestsTyped
    <3> QED
      BY <3>1, <3>2, OtherAnswersKept
  <2> QED
    BY <1>2, <2>1, <2>2 DEF HandlerStep
<1>3. CASE Grant
  <2> DEFINE C == {c \in Clients : at'[c] = "query"}
  <2>1. /\ \A c \in Clients \ C : at'[c] = at[c]
        /\ UNCHANGED <<req, status, body, before>>
    BY <1>3 DEF Grant, HttpTypeOK, RequestsTyped
  <2>2. \A c \in C : at'[c] # "reply"
    OBVIOUS
  <2> HIDE DEF C
  <2>3. C \in SUBSET Clients
    BY DEF C
  <2> QED
    BY <2>1, <2>2, <2>3, AnswersKept
<1>4. CASE Restart
  <2>1. \A c \in Clients : at'[c] = "idle"
    BY <1>4 DEF Restart
  <2> QED
    BY <2>1 DEF LeavesNothingOut
<1>5. CASE \/ WorkerStep \/ Cancel \/ DbHangs \/ DbRecovers \/ UNCHANGED vars
           \/ \E c \in Clients : LatePost(c) \/ HangUp(c)
  <2>1. UNCHANGED <<at, req, status, body, before>>
    BY <1>5 DEF WorkerStep, WorkerAsks, WorkerDone, WorkerFails, WorkerStops,
                Cancel, DbHangs, DbRecovers, LatePost, HangUp, vars, reqVars
  <2> QED
    BY <2>1 DEF LeavesNothingOut
<1> QED
  BY <1>1, <1>2, <1>3, <1>4, <1>5 DEF Next

\* An answer to GET /api/offers leaves out nothing that was stored before the
\* request came, unless the limit does, and then nothing that departs before
\* what it shows: for every table, filter and limit, whatever the worker stores
\* meanwhile.
THEOREM ListsComplete == Spec => []LeavesNothingOut
<1>1. Init => TableInv /\ LeavesNothingOut
  BY FS_EmptySet DEF Init, TableInv, LeavesNothingOut
<1>2. Init => HttpTypeOK /\ PlaceInv /\ PoolInv
  BY InitCorrect
<1>3. HttpTypeOK /\ PlaceInv /\ PoolInv /\ TableInv /\ LeavesNothingOut
        /\ [Next]_vars
        => (HttpTypeOK /\ PlaceInv /\ PoolInv /\ TableInv /\ LeavesNothingOut)'
  BY StepKeepsTypes, StepKeepsTable, StepKeepsAnswers
<1> QED
  BY <1>1, <1>2, <1>3, PTL DEF Spec

=============================================================================
