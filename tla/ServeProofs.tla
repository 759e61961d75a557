------------------------------ MODULE ServeProofs ------------------------------
(***************************************************************************)
(* Theorems of Serve, for any number of requests, workers and faults.      *)
(*                                                                         *)
(* JobKept is all but inductive.  What a step drops it marks in `head`, so *)
(* the one thing to add is what makes a shutdown safe: a worker told to    *)
(* shut down has an empty queue that no sender is left to fill.            *)
(*                                                                         *)
(* PoolBounds has an invariant of its own: where running handlers are, and *)
(* how many a worker holds.  The bound on all of them then is a matter of  *)
(* counting: one to one, they map to the slots of the workers.             *)
(***************************************************************************)
EXTENDS Serve, WorkerTime, FunctionTheorems, SequenceTheorems, FiniteSetTheorems, TLAPS

(* A request being dispatched has its connection open, and none is open     *)
(* once the connections were drained.                                       *)
Connected ==
    /\ \A r \in Requests : ~Unread(r) => conn[r] = "open"
    /\ SendersGone => \A r \in Requests : conn[r] # "open"

(* recv answers None only for good.                                         *)
ClosedIsEmpty ==
    \A w \in Workers : stopping[w] = "shutdown" => SendersGone /\ queue[w] = <<>>

Inv == TypeOK /\ JobKept /\ Connected /\ ClosedIsEmpty

-----------------------------------------------------------------------------
LEMMA NextWorker == ASSUME NEW n \in Workers PROVE (n + 1) % NWorkers \in Workers
BY ServeAssumption DEF ServeAssumption, Workers

(* What a queue holds after a job is put in, or taken.                      *)
LEMMA AppendedJobs ==
    ASSUME NEW q \in Seq(Requests), NEW r \in Requests
    PROVE  /\ Append(q, r) \in Seq(Requests)
           /\ {Append(q, r)[i] : i \in 1..Len(Append(q, r))}
                = {q[i] : i \in 1..Len(q)} \cup {r}
<1>1. Append(q, r) \in Seq(Requests) /\ Len(Append(q, r)) = Len(q) + 1 /\ Len(q) \in Nat
  OBVIOUS
<1>2. \A i \in 1..Len(q) : Append(q, r)[i] = q[i]
  OBVIOUS
<1>3. Append(q, r)[Len(q) + 1] = r
  OBVIOUS
<1> QED BY <1>1, <1>2, <1>3

LEMMA TakenJobs ==
    ASSUME NEW q \in Seq(Requests), q # <<>>
    PROVE  /\ Tail(q) \in Seq(Requests) /\ Head(q) \in Requests
           /\ {q[i] : i \in 1..Len(q)}
                = {Tail(q)[i] : i \in 1..Len(Tail(q))} \cup {Head(q)}
<1>1. /\ Tail(q) \in Seq(Requests) /\ Head(q) \in Requests
      /\ Len(Tail(q)) = Len(q) - 1 /\ Len(q) \in Nat \ {0}
      /\ \A i \in 1..Len(Tail(q)) : Tail(q)[i] = q[i + 1]
  BY HeadTailProperties
<1>2. Head(q) = q[1]
  OBVIOUS
<1>3. ASSUME NEW i \in 1..Len(q), i # 1
      PROVE  i - 1 \in 1..Len(Tail(q)) /\ q[i] = Tail(q)[i - 1]
  <2>1. i - 1 \in 1..Len(Tail(q)) /\ (i - 1) + 1 = i
    BY <1>1, <1>3
  <2> QED BY <1>1, <2>1
<1>4. \A i \in 1..Len(Tail(q)) : i + 1 \in 1..Len(q)
  BY <1>1
<1>5. 1 \in 1..Len(q)
  BY <1>1
<1>6. ASSUME NEW i \in 1..Len(q)
      PROVE  q[i] \in {Tail(q)[j] : j \in 1..Len(Tail(q))} \cup {Head(q)}
  BY <1>2, <1>3
<1>7. ASSUME NEW i \in 1..Len(Tail(q))
      PROVE  Tail(q)[i] \in {q[j] : j \in 1..Len(q)}
  BY <1>1, <1>4
<1>8. Head(q) \in {q[j] : j \in 1..Len(q)}
  BY <1>2, <1>5
<1> QED BY <1>1, <1>6, <1>7, <1>8

-----------------------------------------------------------------------------
(* Types.                                                                   *)

LEMMA TypeInit == Init => TypeOK
BY ServeAssumption DEF Init, TypeOK, Workers, ServeAssumption

LEMMA ClientTypes ==
    ASSUME TypeOK, NEW r \in Requests, Client(r) PROVE TypeOK'
<1> USE DEF TypeOK, serverVars, clientVars, workerVars, Answer
<1>1. CASE Connect(r) BY <1>1 DEF Connect
<1>2. CASE Arrive(r) BY <1>2, NextWorker DEF Arrive
<1>3. CASE DeadlinePasses(r) BY <1>3 DEF DeadlinePasses
<1>4. CASE Enqueue(r)
  <2>1. Append(queue[at[r]], r) \in Seq(Requests)
    BY AppendedJobs
  <2> QED BY <1>4, <2>1 DEF Enqueue
<1>5. CASE WorkerGone(r) BY <1>5 DEF WorkerGone
<1>6. CASE GiveUp(r) BY <1>6 DEF GiveUp
<1>7. CASE Respond(r) BY <1>7 DEF Respond, Outcome
<1>8. CASE Close(r) BY <1>8 DEF Close, Left
<1> QED BY <1>1, <1>2, <1>3, <1>4, <1>5, <1>6, <1>7, <1>8 DEF Client

LEMMA HandlerTypes ==
    ASSUME TypeOK, NEW r \in Requests, Guest(r) \/ Abandon(r) PROVE TypeOK'
<1> USE DEF TypeOK, serverVars, clientVars, workerVars, HandlerStep
<1>1. CASE SendHead(r) BY <1>1 DEF SendHead
<1>2. CASE Fail(r) BY <1>2 DEF Fail
<1>3. CASE Abandon(r) BY <1>3 DEF Abandon
<1>4. CASE EndBody(r) BY <1>4 DEF EndBody
<1> QED BY <1>1, <1>2, <1>3, <1>4 DEF Guest

(* Jobs that are dropped.                                                   *)
LEMMA DropTypes ==
    ASSUME TypeOK, NEW rs
    PROVE  /\ Lost(rs) \in [Requests -> {"empty", "streaming", "error", "trapped", "dropped"}]
           /\ Ended(rs) \in [Requests -> {"none", "queued", "calling", "pumping", "ended"}]
BY DEF TypeOK, Lost, Ended

LEMMA WorkerTypes ==
    ASSUME TypeOK, NEW w \in Workers, Worker(w) PROVE TypeOK'
<1> USE DEF TypeOK, serverVars, clientVars, workerVars
<1>1. CASE Build(w) BY <1>1 DEF Build
<1>2. CASE FailToBuild(w)
  BY <1>2, DropTypes, ServeAssumption DEF FailToBuild, EndWorker, ServeAssumption
<1>3. CASE Take(w)
  <2>1. Tail(queue[w]) \in Seq(Requests) /\ Head(queue[w]) \in Requests
    BY <1>3, TakenJobs DEF Take
  <2> QED BY SMTT(30), <1>3, <2>1 DEF Take
<1>4. CASE SeeClosed(w) BY <1>4 DEF SeeClosed
<1>5. CASE Reap(w) BY <1>5 DEF Reap
<1>6. CASE Recycle(w) BY <1>6, DropTypes DEF Recycle, DropStore
<1>7. CASE Shutdown(w) BY <1>7, DropTypes DEF Shutdown, EndWorker
<1>8. CASE Trap(w) BY <1>8, DropTypes, ServeAssumption DEF Trap, DropStore, ServeAssumption
<1>9. CASE Wake(w) BY <1>9 DEF Wake
<1> QED BY <1>1, <1>2, <1>3, <1>4, <1>5, <1>6, <1>7, <1>8, <1>9 DEF Worker, Turn

LEMMA ServerTypes ==
    ASSUME TypeOK, Signal \/ WorkerEnded \/ Drained \/ WoundDown PROVE TypeOK'
<1> USE DEF TypeOK, serverVars, clientVars, workerVars
<1>1. CASE Signal BY <1>1 DEF Signal, BeginDrain
<1>2. CASE WorkerEnded BY <1>2 DEF WorkerEnded, BeginDrain
<1>3. CASE Drained BY <1>3 DEF Drained, Left
<1>4. CASE WoundDown BY <1>4 DEF WoundDown
<1> QED BY <1>1, <1>2, <1>3, <1>4

-----------------------------------------------------------------------------
(* Jobs.                                                                    *)

LEMMA QueueGrows ==
    ASSUME NEW w, NEW r \in Requests, queue[w] \in Seq(Requests),
           queue'[w] = Append(queue[w], r)
    PROVE  Queued(w)' = Queued(w) \cup {r}
<1>1. Queued(w)' = {Append(queue[w], r)[i] : i \in 1..Len(Append(queue[w], r))}
  BY DEF Queued
<1> QED BY <1>1, AppendedJobs DEF Queued

LEMMA QueueShrinks ==
    ASSUME NEW w, queue[w] \in Seq(Requests), queue[w] # <<>>, queue'[w] = Tail(queue[w])
    PROVE  Queued(w) = Queued(w)' \cup {Head(queue[w])} /\ Head(queue[w]) \in Requests
<1>1. Queued(w)' = {Tail(queue[w])[i] : i \in 1..Len(Tail(queue[w]))}
  BY DEF Queued
<1> QED BY <1>1, TakenJobs DEF Queued

LEMMA QueueKept == ASSUME NEW w, queue'[w] = queue[w] PROVE Queued(w)' = Queued(w)
BY DEF Queued

LEMMA EnqueuedThere ==
    ASSUME TypeOK, NEW r \in Requests, NEW w \in Workers, at[r] = w, Enqueue(r)
    PROVE  r \in Queued(w)' /\ \A v \in Workers : Queued(v) \subseteq Queued(v)'
<1>1. queue[w] \in Seq(Requests) /\ queue'[w] = Append(queue[w], r)
  BY DEF TypeOK, Enqueue
<1>2. \A v \in Workers \ {w} : queue'[v] = queue[v]
  BY DEF TypeOK, Enqueue
<1>3. Queued(w)' = Queued(w) \cup {r}
  BY <1>1, QueueGrows
<1>4. \A v \in Workers \ {w} : Queued(v)' = Queued(v)
  BY <1>2, QueueKept
<1> QED BY <1>3, <1>4

LEMMA ClientKeepsJobs ==
    ASSUME Inv, NEW r \in Requests, Client(r)
    PROVE  JobKept' /\ Connected' /\ ClosedIsEmpty'
<1> USE DEF Inv, TypeOK, JobKept, Connected, ClosedIsEmpty, Running, Unread, Answer,
            SendersGone, serverVars, clientVars, workerVars
<1>0. UNCHANGED queue => \A v \in Workers : Queued(v)' = Queued(v)
  BY QueueKept
<1>1. CASE Connect(r) BY <1>0, <1>1 DEF Connect
<1>2. CASE Arrive(r) BY <1>0, <1>2 DEF Arrive
<1>3. CASE DeadlinePasses(r) BY <1>0, <1>3 DEF DeadlinePasses
<1>4. CASE Enqueue(r)
  <2>1. PICK w \in Workers : w = at[r]
    OBVIOUS
  <2>2. r \in Queued(w)'
    BY <1>4, <2>1, EnqueuedThere
  <2>3. \A v \in Workers : Queued(v) \subseteq Queued(v)'
    BY <1>4, <2>1, EnqueuedThere
  <2>4. ASSUME NEW s \in Requests, client'[s] = "waiting", head'[s] = "empty"
        PROVE  s \in Queued(at[s])' \/ (handler'[s] = "calling" /\ Running(s)')
    <3>1. CASE s = r
      <4>1. at'[s] = w
        BY <1>4, <2>1, <3>1 DEF Enqueue
      <4> QED BY <2>2, <3>1, <4>1
    <3>2. CASE s # r
      <4>1. PICK v \in Workers : v = at[s]
        OBVIOUS
      <4>2. at'[s] = v
        BY <1>4, <4>1 DEF Enqueue
      <4>3. s \in Queued(v) \/ (handler[s] = "calling" /\ Running(s))
        BY <1>4, <2>4, <3>2, <4>1 DEF Enqueue
      <4> QED BY <1>4, <2>3, <3>2, <4>2, <4>3 DEF Enqueue
    <3> QED BY <3>1, <3>2
  <2> QED BY <1>4, <2>4 DEF Enqueue
<1>5. CASE WorkerGone(r) BY <1>0, <1>5 DEF WorkerGone
<1>6. CASE GiveUp(r) BY <1>0, <1>6 DEF GiveUp
<1>7. CASE Respond(r) BY <1>0, <1>7 DEF Respond, Outcome
<1>8. CASE Close(r) BY <1>0, <1>8 DEF Close, Left
<1> QED BY <1>1, <1>2, <1>3, <1>4, <1>5, <1>6, <1>7, <1>8 DEF Client

LEMMA HandlerKeepsJobs ==
    ASSUME Inv, NEW r \in Requests, Guest(r) \/ Abandon(r)
    PROVE  JobKept' /\ Connected' /\ ClosedIsEmpty'
<1> USE DEF Inv, TypeOK, JobKept, Connected, ClosedIsEmpty, Running, Unread,
            SendersGone, serverVars, clientVars, workerVars, HandlerStep
<1>0. UNCHANGED queue => \A v \in Workers : Queued(v)' = Queued(v)
  BY QueueKept
<1>1. CASE SendHead(r) BY <1>0, <1>1 DEF SendHead
<1>2. CASE Fail(r) BY <1>0, <1>2 DEF Fail
<1>3. CASE Abandon(r) BY <1>0, <1>3 DEF Abandon
<1>4. CASE EndBody(r) BY <1>0, <1>4 DEF EndBody
<1> QED BY <1>1, <1>2, <1>3, <1>4 DEF Guest

(* A worker's step disturbs no other worker's jobs, and of its own it marks *)
(* those it drops.                                                          *)
LEMMA WorkerKeepsJobs ==
    ASSUME Inv, NEW w \in Workers, Worker(w)
    PROVE  JobKept' /\ Connected' /\ ClosedIsEmpty'
<1> USE DEF Inv, TypeOK, JobKept, Connected, ClosedIsEmpty, Running, Unread,
            SendersGone, serverVars, clientVars, workerVars
<1>0. UNCHANGED queue => \A v \in Workers : Queued(v)' = Queued(v)
  BY QueueKept
<1>1. CASE Build(w) BY <1>0, <1>1 DEF Build
<1>2. CASE FailToBuild(w)
  <2>1. \A v \in Workers \ {w} : Queued(v)' = Queued(v)
    BY <1>2, QueueKept DEF FailToBuild, EndWorker
  <2>2. JobKept'
    BY <1>2, <2>1 DEF FailToBuild, EndWorker, Lost, Ended
  <2> QED BY <1>2, <2>2 DEF FailToBuild, EndWorker
<1>3. CASE Take(w)
  <2>1. /\ queue'[w] = Tail(queue[w])
        /\ \A v \in Workers \ {w} : queue'[v] = queue[v]
    BY <1>3 DEF Take
  <2>2. Queued(w) = Queued(w)' \cup {Head(queue[w])} /\ Head(queue[w]) \in Requests
    BY <1>3, <2>1, QueueShrinks DEF Take
  <2>3. \A v \in Workers \ {w} : Queued(v)' = Queued(v)
    BY <2>1, QueueKept
  <2>4. JobKept'
    BY <1>3, <2>2, <2>3 DEF Take, Taking
  <2> QED BY <1>3, <2>4 DEF Take, Taking
<1>4. CASE SeeClosed(w) BY <1>0, <1>4 DEF SeeClosed
<1>5. CASE Reap(w) BY <1>0, <1>5 DEF Reap
<1>6. CASE Recycle(w) BY <1>0, <1>6 DEF Recycle, DropStore, Lost, Ended
<1>7. CASE Shutdown(w) BY <1>0, <1>7 DEF Shutdown, EndWorker, Lost, Ended
<1>8. CASE Trap(w) BY <1>0, <1>8 DEF Trap, DropStore, Lost, Ended
<1>9. CASE Wake(w) BY <1>0, <1>9 DEF Wake
<1> QED BY <1>1, <1>2, <1>3, <1>4, <1>5, <1>6, <1>7, <1>8, <1>9 DEF Worker, Turn

LEMMA ServerKeepsJobs ==
    ASSUME Inv, Signal \/ WorkerEnded \/ Drained \/ WoundDown
    PROVE  JobKept' /\ Connected' /\ ClosedIsEmpty'
<1> USE DEF Inv, TypeOK, JobKept, Connected, ClosedIsEmpty, Running, Unread,
            SendersGone, serverVars, clientVars, workerVars
<1>0. UNCHANGED queue => \A v \in Workers : Queued(v)' = Queued(v)
  BY QueueKept
<1>1. CASE Signal BY <1>0, <1>1 DEF Signal, BeginDrain
<1>2. CASE WorkerEnded BY <1>0, <1>2 DEF WorkerEnded, BeginDrain
<1>3. CASE Drained BY <1>0, <1>3 DEF Drained, Left
<1>4. CASE WoundDown BY <1>0, <1>4 DEF WoundDown
<1> QED BY <1>1, <1>2, <1>3, <1>4

LEMMA InvInit == Init => Inv
<1> SUFFICES ASSUME Init PROVE Inv
  OBVIOUS
<1>1. JobKept /\ Connected
  BY DEF Init, JobKept, Connected, Unread, SendersGone
<1>2. ClosedIsEmpty
  BY DEF Init, ClosedIsEmpty
<1> QED BY <1>1, <1>2, TypeInit DEF Inv

LEMMA InvStep == Inv /\ [Next]_vars => Inv'
<1> SUFFICES ASSUME Inv, [Next]_vars PROVE Inv'
  OBVIOUS
<1> USE DEF Inv
<1>1. CASE \E r \in Requests : Client(r)
  BY <1>1, ClientTypes, ClientKeepsJobs
<1>2. CASE \E r \in Requests : Guest(r) \/ Abandon(r)
  BY <1>2, HandlerTypes, HandlerKeepsJobs
<1>3. CASE \E w \in Workers : Worker(w)
  BY <1>3, WorkerTypes, WorkerKeepsJobs
<1>4. CASE Signal \/ WorkerEnded \/ Drained \/ WoundDown
  BY <1>4, ServerTypes, ServerKeepsJobs
<1>5. CASE UNCHANGED vars
  BY <1>5 DEF vars, serverVars, clientVars, workerVars, TypeOK, JobKept, Connected,
     ClosedIsEmpty, Queued, Running, Unread, SendersGone
<1> QED BY <1>1, <1>2, <1>3, <1>4, <1>5 DEF Next

(* Every reachable state is well typed, and in each a request that waits    *)
(* with nothing sent to it has its job queued or running: no recycling,     *)
(* trap, failed rebuild, disconnect or shutdown leaves it nowhere.          *)
THEOREM ServeJobKept == Spec => [](TypeOK /\ JobKept)
<1>1. Spec => []Inv
  BY InvInit, InvStep, PTL DEF Spec
<1> QED BY <1>1, PTL DEF Inv

-----------------------------------------------------------------------------
(* What drops a job.                                                        *)

NoneDropped == \A r \in Requests : head'[r] = "dropped" => head[r] = "dropped"

LEMMA DropsAreFaults ==
    ASSUME Inv, [Next]_vars PROVE NoneDropped \/ faults' > faults
<1> USE DEF Inv, TypeOK, NoneDropped, serverVars, clientVars, workerVars
<1>1. ASSUME NEW r \in Requests, Client(r) PROVE NoneDropped
  BY <1>1 DEF Client, Connect, Arrive, DeadlinePasses, Enqueue, WorkerGone, GiveUp, Respond, Close
<1>2. ASSUME NEW r \in Requests, Guest(r) \/ Abandon(r) PROVE NoneDropped
  BY <1>2 DEF Guest, SendHead, Fail, EndBody, Abandon, HandlerStep
<1>3. ASSUME NEW w \in Workers, Worker(w) PROVE NoneDropped \/ faults' > faults
  <2>1. CASE FailToBuild(w) \/ Trap(w)
    BY <2>1, ServeAssumption DEF FailToBuild, Trap, ServeAssumption
  <2>2. CASE Recycle(w)
    BY <2>2 DEF Recycle, DropStore, Lost
  <2>3. CASE Shutdown(w)
    <3>1. Queued(w) = {}
      BY <2>3 DEF Shutdown, ClosedIsEmpty, Queued
    <3> QED BY <2>3, <3>1 DEF Shutdown, EndWorker, Lost
  <2>4. CASE Build(w) \/ Take(w) \/ SeeClosed(w) \/ Reap(w) \/ Wake(w)
    BY <2>4 DEF Build, Take, SeeClosed, Reap, Wake
  <2> QED BY <1>3, <2>1, <2>2, <2>3, <2>4 DEF Worker, Turn
<1>4. CASE Signal \/ WorkerEnded \/ Drained \/ WoundDown
  BY <1>4 DEF Signal, WorkerEnded, BeginDrain, Drained, WoundDown
<1>5. CASE UNCHANGED vars
  BY <1>5 DEF vars
<1> QED BY <1>1, <1>2, <1>3, <1>4, <1>5 DEF Next

(* A job is dropped unanswered only in the step of a trap or of a failed    *)
(* instantiation: recycling and shutting down wait for what they would drop.*)
THEOREM ServeOnlyFaultsDrop == Spec => OnlyFaultsDrop
<1>1. Inv /\ [Next]_vars =>
        [(\E r \in Requests : head[r] # "dropped" /\ head'[r] = "dropped")
            => faults' > faults]_vars
  BY DropsAreFaults DEF NoneDropped
<1>2. Spec => []Inv
  BY InvInit, InvStep, PTL DEF Spec
<1> QED BY <1>1, <1>2, PTL DEF Spec, OnlyFaultsDrop

-----------------------------------------------------------------------------
(* Serve implements the safety of HttpService.                              *)


LEMMA PhaseMoves ==
    ASSUME TypeOK, NEW r \in Requests, NEW c, client' = [client EXCEPT ![r] = c]
    PROVE  ServicePhase' = [ServicePhase EXCEPT ![r] = PhaseOf(c)]
BY DEF TypeOK, ServicePhase

LEMMA ClientMoves ==
    ASSUME Inv, NEW r \in Requests, Client(r)
    PROVE  [Service!Next]_(Service!vars)
<1> USE DEF Inv, Answer, Service!Next, Service!vars, Service!Move
<1>1. server' = server /\ ServiceState' = ServiceState
  BY DEF Client, Connect, Arrive, DeadlinePasses, Enqueue, WorkerGone, GiveUp, Respond, Close,
         serverVars, ServiceState
<1>2. conn[r] = "open" => ServiceState # "down"
  BY DEF TypeOK, Connected, SendersGone, ServiceState
<1>3. ASSUME UNCHANGED client PROVE [Service!Next]_(Service!vars)
  BY <1>1, <1>3 DEF ServicePhase
<1>4. CASE Arrive(r)
  <2>1. ServicePhase[r] = "absent"
    BY <1>4 DEF Arrive, ServicePhase, PhaseOf
  <2>2. ServicePhase' = [ServicePhase EXCEPT ![r] = "pending"]
    BY <1>4, PhaseMoves DEF Arrive, PhaseOf
  <2> QED BY <1>1, <1>2, <1>4, <2>1, <2>2 DEF Arrive, Service!Arrive
<1>5. ASSUME ~Unread(r), NEW c \in {"head", "500", "503", "504", "gone"},
             client' = [client EXCEPT ![r] = c]
      PROVE  [Service!Next]_(Service!vars)
  <2>1. ServicePhase[r] = "pending" /\ ServiceState # "down"
    BY <1>2, <1>5 DEF ServicePhase, PhaseOf, Unread, Connected
  <2>2. ServicePhase' = [ServicePhase EXCEPT ![r] = IF c = "gone" THEN "parted" ELSE "replied"]
    BY <1>5, PhaseMoves DEF PhaseOf
  <2> QED BY <1>1, <2>1, <2>2 DEF Service!Reply, Service!Part
<1>6. CASE Enqueue(r)
  <2>1. CASE r \in late
    BY <1>5, <1>6, <2>1 DEF Enqueue, Unread
  <2>2. CASE r \notin late
    <3>1. ServicePhase' = [ServicePhase EXCEPT ![r] = "pending"]
      BY <1>6, <2>2, PhaseMoves DEF Enqueue, PhaseOf
    <3>2. ServicePhase[r] = "pending"
      BY <1>6 DEF Enqueue, ServicePhase, PhaseOf
    <3>3. ServicePhase' = ServicePhase
      BY <3>1, <3>2 DEF ServicePhase
    <3> QED BY <1>1, <3>3
  <2> QED BY <2>1, <2>2
<1>7. CASE WorkerGone(r) BY <1>5, <1>7 DEF WorkerGone, Unread
<1>8. CASE GiveUp(r) BY <1>5, <1>8 DEF GiveUp
<1>9. CASE Respond(r) BY <1>5, <1>9 DEF Respond, Outcome, Unread
<1>10. CASE Close(r)
  <2>1. CASE Unread(r)
    BY <1>3, <1>10, <2>1 DEF Close, Left, TypeOK
  <2>2. CASE ~Unread(r)
    BY <1>5, <1>10, <2>2 DEF Close, Left
  <2> QED BY <2>1, <2>2
<1>11. CASE Connect(r) \/ DeadlinePasses(r)
  BY <1>3, <1>11 DEF Connect, DeadlinePasses
<1> QED BY <1>4, <1>6, <1>7, <1>8, <1>9, <1>10, <1>11 DEF Client

LEMMA DrainMoves == ASSUME Inv, Drained PROVE Service!Down
<1>1. ServiceState = "closing" /\ ServiceState' = "down"
  BY DEF Drained, ServiceState
<1>2. ASSUME NEW r \in Requests
      PROVE  PhaseOf(client'[r]) =
               IF PhaseOf(client[r]) = "pending" THEN "parted" ELSE PhaseOf(client[r])
  <2>1. CASE Unread(r)
    BY <2>1 DEF Inv, TypeOK, Drained, Left, PhaseOf, Unread
  <2>2. CASE ~Unread(r)
    BY <2>2 DEF Inv, TypeOK, Drained, Left, PhaseOf, Unread, Connected
  <2> QED BY <2>1, <2>2
<1> QED BY <1>1, <1>2 DEF Service!Down, ServicePhase

LEMMA OtherMoves ==
    ASSUME Inv, UNCHANGED client, UNCHANGED server \/ Signal \/ WorkerEnded \/ WoundDown
    PROVE  [Service!Next]_(Service!vars)
<1>1. ServicePhase' = ServicePhase
  BY DEF ServicePhase
<1>2. CASE UNCHANGED server \/ WoundDown
  BY <1>1, <1>2 DEF WoundDown, ServiceState, Service!vars
<1>3. CASE Signal \/ WorkerEnded
  BY <1>1, <1>3 DEF Signal, WorkerEnded, BeginDrain, ServiceState, Service!Next, Service!Shut
<1> QED BY <1>2, <1>3

(* Every step of the pool is a step of the service it promises, or none of  *)
(* the client's: no request is answered twice, or after its connection      *)
(* ended, or by a server that went down.                                    *)
THEOREM ServeImplementsSafety == Spec => Service!Init /\ [][Service!Next]_(Service!vars)
<1>1. Init => Service!Init
  BY DEF Init, Service!Init, ServicePhase, PhaseOf, ServiceState
<1>2. Inv /\ [Next]_vars => [Service!Next]_(Service!vars)
  <2> SUFFICES ASSUME Inv, [Next]_vars PROVE [Service!Next]_(Service!vars)
    OBVIOUS
  <2>1. CASE \E r \in Requests : Client(r)
    BY <2>1, ClientMoves
  <2>2. CASE Drained
    BY <2>2, DrainMoves DEF Service!Next
  <2>3. CASE Signal \/ WorkerEnded \/ WoundDown
    BY <2>3, OtherMoves DEF Signal, WorkerEnded, BeginDrain, WoundDown, clientVars
  <2>4. CASE \E r \in Requests : Guest(r) \/ Abandon(r)
    BY <2>4, OtherMoves
       DEF Guest, SendHead, Fail, EndBody, Abandon, HandlerStep, serverVars, clientVars
  <2>5. CASE \E w \in Workers : Worker(w)
    BY <2>5, OtherMoves DEF Worker, Turn, Build, FailToBuild, Take, SeeClosed, Reap, Recycle,
       Shutdown, Trap, Wake, serverVars, clientVars
  <2>6. CASE UNCHANGED vars
    BY <2>6, OtherMoves DEF vars, serverVars, clientVars
  <2> QED BY <2>1, <2>2, <2>3, <2>4, <2>5, <2>6 DEF Next
<1>3. Spec => []Inv
  BY InvInit, InvStep, PTL DEF Spec
<1> QED BY <1>1, <1>2, <1>3, PTL DEF Spec

-----------------------------------------------------------------------------
(* The pool's bounds.  Each running handler holds a slot of the worker it   *)
(* was striped to, so a worker's bound is one for the handlers it runs; and *)
(* one that still takes jobs has some left before it recycles.              *)

Runs == {"calling", "pumping"}
Unsent == {"idle", "sending"}

Placed ==
    /\ \A w \in Workers :
         /\ \A r \in Queued(w) : at[r] = w /\ client[r] \notin Unsent
         /\ \A r \in inflight[w] : client[r] \notin Unsent
    /\ \A r \in Requests : client[r] \in Unsent => handler[r] = "none"
    /\ \A r \in Requests : handler[r] \in Runs => r \in inflight[at[r]]

Sized == \A w \in Workers :
    IsFiniteSet(inflight[w]) /\ Cardinality(inflight[w]) <= PerWorker

Counted == RecycleRequests # 0 => \A w \in Workers :
    /\ handled[w] <= RecycleRequests
    /\ stopping[w] = "no" => handled[w] < RecycleRequests

PInv == TypeOK /\ Placed /\ Sized /\ Counted

LEMMA PerWorkerNat == PerWorker \in Nat /\ NWorkers * PerWorker <= MaxConcurrency
BY ServeAssumption DEF ServeAssumption, PerWorker

LEMMA QueuedAreRequests ==
    ASSUME TypeOK, NEW w \in Workers PROVE Queued(w) \subseteq Requests
<1>1. queue[w] \in Seq(Requests)
  BY DEF TypeOK
<1> QED BY <1>1 DEF Queued

LEMMA PInvInit == Init => PInv
<1> SUFFICES ASSUME Init PROVE PInv
  OBVIOUS
<1>1. Placed
  BY DEF Init, Placed, Queued, Runs
<1>2. Sized
  BY FS_EmptySet, PerWorkerNat DEF Init, Sized
<1>3. Counted
  BY ServeAssumption DEF Init, Counted, ServeAssumption
<1> QED BY <1>1, <1>2, <1>3, TypeInit DEF PInv

LEMMA SameWorkers ==
    ASSUME PInv, UNCHANGED inflight, UNCHANGED handled, UNCHANGED stopping
    PROVE  Sized' /\ Counted'
BY DEF PInv, Sized, Counted

LEMMA ClientPlaces == ASSUME PInv, NEW r \in Requests, Client(r) PROVE Placed'
<1> USE DEF PInv, TypeOK, Placed, Answer, Unread, Unsent, Runs, serverVars, workerVars
<1>0. UNCHANGED queue => \A v \in Workers : Queued(v)' = Queued(v)
  BY QueueKept
<1>1. \A v \in Workers : Queued(v) \subseteq Requests
  BY QueuedAreRequests
<1>2. CASE Connect(r) BY <1>0, <1>2 DEF Connect
<1>3. CASE Arrive(r) BY <1>0, <1>1, <1>3 DEF Arrive
<1>4. CASE DeadlinePasses(r) BY <1>0, <1>4 DEF DeadlinePasses
<1>5. CASE Enqueue(r)
  <2>1. PICK w \in Workers : w = at[r]
    OBVIOUS
  <2>2. queue[w] \in Seq(Requests) /\ queue'[w] = Append(queue[w], r)
    BY <1>5, <2>1 DEF Enqueue
  <2>3. Queued(w)' = Queued(w) \cup {r}
    BY <2>2, QueueGrows
  <2>4. \A v \in Workers \ {w} : Queued(v)' = Queued(v)
    BY <1>5, <2>1, QueueKept DEF Enqueue
  <2>5. client[r] = "sending" /\ handler[r] = "none" /\ handler'[r] = "queued"
    BY <1>5 DEF Enqueue
  <2>6. /\ at' = at /\ inflight' = inflight /\ client'[r] \notin Unsent
        /\ \A s \in Requests \ {r} : client'[s] = client[s] /\ handler'[s] = handler[s]
    BY <1>5 DEF Enqueue
  <2>7. ASSUME NEW v \in Workers, NEW s \in Queued(v)'
        PROVE  at'[s] = v /\ client'[s] \notin Unsent
    <3>1. (s = r /\ v = w) \/ s \in Queued(v)
      BY <2>3, <2>4
    <3> QED BY <1>1, <2>1, <2>6, <3>1
  <2>8. ASSUME NEW v \in Workers, NEW s \in inflight'[v] PROVE client'[s] \notin Unsent
    <3>1. s \in inflight[v] /\ s \in Requests
      BY <2>6
    <3> QED BY <2>6, <3>1
  <2>9. \A s \in Requests :
          /\ client'[s] \in Unsent => handler'[s] = "none"
          /\ handler'[s] \in Runs => s \in inflight'[at'[s]]
    BY <2>5, <2>6
  <2> QED BY <2>7, <2>8, <2>9
<1>6. CASE WorkerGone(r) BY <1>0, <1>1, <1>6 DEF WorkerGone
<1>7. CASE GiveUp(r) BY <1>0, <1>1, <1>7 DEF GiveUp
<1>8. CASE Respond(r) BY <1>0, <1>1, <1>8 DEF Respond, Outcome
<1>9. CASE Close(r) BY <1>0, <1>1, <1>9 DEF Close, Left
<1> QED BY <1>2, <1>3, <1>4, <1>5, <1>6, <1>7, <1>8, <1>9 DEF Client

LEMMA HandlerPlaces ==
    ASSUME PInv, NEW r \in Requests, Guest(r) \/ Abandon(r) PROVE Placed'
<1> USE DEF PInv, TypeOK, Placed, Runs, Running, HandlerStep, clientVars, workerVars
<1>1. \A v \in Workers : Queued(v)' = Queued(v)
  BY QueueKept DEF Guest, SendHead, Fail, EndBody, Abandon
<1>2. CASE SendHead(r) BY <1>1, <1>2 DEF SendHead
<1>3. CASE Fail(r) \/ EndBody(r) \/ Abandon(r)
  BY <1>1, <1>3 DEF Fail, EndBody, Abandon
<1> QED BY <1>2, <1>3 DEF Guest

(* Dropping handlers, or the jobs of a queue, leaves those that run placed. *)
LEMMA DropPlaces ==
    ASSUME PInv, NEW w \in Workers, UNCHANGED clientVars,
           \/ queue' = queue /\ inflight' = [inflight EXCEPT ![w] = {}]
                /\ handler' = Ended(inflight[w])
           \/ queue' = [queue EXCEPT ![w] = <<>>] /\ inflight' = inflight
                /\ handler' = Ended(Queued(w))
    PROVE  Placed'
<1>1. ASSUME NEW v \in Workers PROVE Queued(v)' \subseteq Queued(v)
  <2>1. CASE queue'[v] = queue[v]
    BY <2>1, QueueKept
  <2>2. CASE queue'[v] = <<>>
    BY <2>2 DEF Queued
  <2>3. queue'[v] = queue[v] \/ queue'[v] = <<>>
    BY DEF PInv, TypeOK
  <2> QED BY <2>1, <2>2, <2>3
<1>2. ASSUME NEW r \in Requests
      PROVE  /\ handler'[r] \in Runs => handler[r] \in Runs /\ r \in inflight'[at[r]]
             /\ client[r] \in Unsent => handler'[r] = "none"
  <2>1. at[r] \in Workers /\ (handler[r] \in Runs => r \in inflight[at[r]])
    BY DEF PInv, TypeOK, Placed
  <2>2. client[r] \in Unsent => handler[r] = "none" /\ r \notin inflight[w] /\ r \notin Queued(w)
    BY DEF PInv, Placed
  <2>3. CASE handler' = Ended(inflight[w]) /\ inflight' = [inflight EXCEPT ![w] = {}]
    <3>1. handler'[r] = IF r \in inflight[w] THEN "ended" ELSE handler[r]
      BY <2>3 DEF Ended
    <3>2. \A v \in Workers \ {w} : inflight'[v] = inflight[v]
      BY <2>3 DEF PInv, TypeOK
    <3> QED BY <2>1, <2>2, <3>1, <3>2 DEF Runs
  <2>4. CASE handler' = Ended(Queued(w)) /\ inflight' = inflight
    <3>1. handler'[r] = IF r \in Queued(w) THEN "ended" ELSE handler[r]
      BY <2>4 DEF Ended
    <3> QED BY <2>1, <2>2, <2>4, <3>1 DEF Runs
  <2> QED BY <2>3, <2>4
<1>3. \A v \in Workers : inflight'[v] \subseteq inflight[v]
  BY DEF PInv, TypeOK
<1>4. at' = at /\ client' = client
  BY DEF clientVars
<1>5. ASSUME NEW v \in Workers
      PROVE  /\ \A r \in Queued(v)' : at'[r] = v /\ client'[r] \notin Unsent
             /\ \A r \in inflight'[v] : client'[r] \notin Unsent
  BY <1>1, <1>3, <1>4 DEF PInv, Placed
<1>6. \A r \in Requests :
        /\ client'[r] \in Unsent => handler'[r] = "none"
        /\ handler'[r] \in Runs => r \in inflight'[at'[r]]
  BY <1>2, <1>4
<1> QED BY <1>5, <1>6 DEF Placed

LEMMA TakePlaces ==
    ASSUME PInv, NEW w \in Workers, Take(w) PROVE Placed' /\ Sized' /\ Counted'
<1> DEFINE r == Head(queue[w])
<1>1. /\ queue[w] \in Seq(Requests) /\ queue[w] # <<>> /\ queue'[w] = Tail(queue[w])
      /\ \A v \in Workers \ {w} : queue'[v] = queue[v]
  BY DEF PInv, TypeOK, Take
<1>2. Queued(w) = Queued(w)' \cup {r} /\ r \in Requests
  BY <1>1, QueueShrinks
<1>3. \A v \in Workers \ {w} : Queued(v)' = Queued(v)
  BY <1>1, QueueKept
<1>4. at[r] = w /\ client[r] \notin Unsent
  BY <1>2 DEF PInv, Placed
<1> HIDE DEF r
<1>5. /\ at' = at /\ client' = client
      /\ \A s \in Requests : handler'[s] = IF s = r THEN "calling" ELSE handler[s]
      /\ \A v \in Workers : inflight'[v] = IF v = w THEN inflight[w] \cup {r} ELSE inflight[v]
  BY <1>2 DEF r, PInv, TypeOK, Take, clientVars
<1>6. Placed'
  <2>1. ASSUME NEW v \in Workers
        PROVE  /\ \A s \in Queued(v)' : at'[s] = v /\ client'[s] \notin Unsent
               /\ \A s \in inflight'[v] : client'[s] \notin Unsent
    <3>1. Queued(v)' \subseteq Queued(v)
      BY <1>2, <1>3
    <3> QED BY <1>4, <1>5, <3>1 DEF PInv, Placed
  <2>2. ASSUME NEW s \in Requests
        PROVE  /\ client'[s] \in Unsent => handler'[s] = "none"
               /\ handler'[s] \in Runs => s \in inflight'[at'[s]]
    <3>1. at[s] \in Workers
      BY DEF PInv, TypeOK
    <3>2. CASE s = r
      BY <1>4, <1>5, <3>1, <3>2
    <3>3. CASE s # r
      BY <1>5, <3>1, <3>3 DEF PInv, Placed
    <3> QED BY <3>2, <3>3
  <2> QED BY <2>1, <2>2 DEF Placed
<1>7. Sized'
  <2>1. /\ IsFiniteSet(inflight[w] \cup {r})
        /\ Cardinality(inflight[w] \cup {r}) <= Cardinality(inflight[w]) + 1
        /\ Cardinality(inflight[w]) \in Nat
    <3>1. IsFiniteSet(inflight[w]) /\ Cardinality(inflight[w]) \in Nat
      BY FS_CardinalityType DEF PInv, Sized
    <3>2. /\ IsFiniteSet(inflight[w] \cup {r})
          /\ Cardinality(inflight[w] \cup {r})
               = IF r \in inflight[w] THEN Cardinality(inflight[w])
                 ELSE Cardinality(inflight[w]) + 1
      BY <3>1, FS_AddElement
    <3> QED BY <3>1, <3>2
  <2>2. Cardinality(inflight[w] \cup {r}) <= PerWorker
    <3>1. Cardinality(inflight[w]) < PerWorker
      BY DEF Take, Taking
    <3>2. Cardinality(inflight[w] \cup {r}) \in Nat
      BY <2>1, FS_CardinalityType
    <3> QED BY <2>1, <3>1, <3>2, PerWorkerNat
  <2> QED BY <1>5, <2>1, <2>2 DEF PInv, Sized
<1>8. Counted'
  BY ServeAssumption DEF ServeAssumption, PInv, TypeOK, Counted, Take, Taking
<1> QED BY <1>6, <1>7, <1>8

LEMMA WorkerPlaces ==
    ASSUME PInv, NEW w \in Workers, Worker(w) PROVE Placed' /\ Sized' /\ Counted'
<1>1. UNCHANGED queue => \A v \in Workers : Queued(v)' = Queued(v)
  BY QueueKept
<1>2. CASE Take(w)
  BY <1>2, TakePlaces
<1>3. CASE Build(w) \/ SeeClosed(w) \/ Wake(w)
  <2>1. Placed' /\ Sized'
    BY <1>1, <1>3 DEF Build, SeeClosed, Wake, PInv, Placed, Sized, clientVars
  <2>2. Counted'
    <3>1. CASE Build(w)
      BY <3>1, ServeAssumption DEF ServeAssumption, Build, PInv, TypeOK, Counted
    <3>2. CASE SeeClosed(w) \/ Wake(w)
      <4>1. /\ handled' = handled
            /\ \A v \in Workers : stopping'[v] = "no" => stopping[v] = "no"
        BY <3>2 DEF SeeClosed, Wake, PInv, TypeOK
      <4> QED BY <4>1 DEF PInv, Counted
    <3> QED BY <1>3, <3>1, <3>2
  <2> QED BY <2>1, <2>2
<1>4. CASE Reap(w)
  <2>1. PICK r \in inflight[w] : handler[r] = "ended" /\ inflight' = [inflight EXCEPT ![w] = @ \ {r}]
    BY <1>4 DEF Reap
  <2>2. UNCHANGED <<at, client, queue, handler, handled, stopping>>
    BY <1>4 DEF Reap, clientVars
  <2>3. \A v \in Workers : inflight'[v] = IF v = w THEN inflight[w] \ {r} ELSE inflight[v]
    BY <2>1 DEF PInv, TypeOK
  <2>4. Placed'
    BY <1>1, <2>1, <2>2, <2>3 DEF PInv, TypeOK, Placed, Runs
  <2>5. Sized'
    <3>1. IsFiniteSet(inflight[w]) /\ inflight[w] \ {r} \in SUBSET inflight[w]
      BY DEF PInv, Sized
    <3>2. /\ IsFiniteSet(inflight[w] \ {r})
          /\ Cardinality(inflight[w] \ {r}) <= Cardinality(inflight[w])
      BY <3>1, FS_Subset
    <3>3. Cardinality(inflight[w] \ {r}) \in Nat /\ Cardinality(inflight[w]) \in Nat
      BY <3>1, <3>2, FS_CardinalityType
    <3>4. Cardinality(inflight[w] \ {r}) <= PerWorker
      BY <3>2, <3>3, PerWorkerNat DEF PInv, Sized
    <3> QED BY <2>3, <3>2, <3>4 DEF PInv, Sized
  <2> QED BY <2>2, <2>4, <2>5 DEF PInv, Counted
<1>5. CASE Recycle(w) \/ Trap(w)
  <2>1. Placed'
    BY <1>5, DropPlaces DEF Recycle, Trap, DropStore
  <2>2. Sized'
    <3>1. \A v \in Workers : inflight'[v] = IF v = w THEN {} ELSE inflight[v]
      BY <1>5 DEF Recycle, Trap, DropStore, PInv, TypeOK
    <3> QED BY <3>1, FS_EmptySet, PerWorkerNat DEF PInv, Sized
  <2>3. Counted'
    BY <1>5 DEF Recycle, Trap, PInv, Counted
  <2> QED BY <2>1, <2>2, <2>3
<1>6. CASE FailToBuild(w) \/ Shutdown(w)
  <2>1. Placed'
    BY <1>6, DropPlaces DEF FailToBuild, Shutdown, EndWorker
  <2> QED BY <1>6, <2>1, SameWorkers DEF FailToBuild, Shutdown
<1> QED BY <1>2, <1>3, <1>4, <1>5, <1>6 DEF Worker, Turn

LEMMA PInvStep == PInv /\ [Next]_vars => PInv'
<1> SUFFICES ASSUME PInv, [Next]_vars PROVE PInv'
  OBVIOUS
<1>0. TypeOK
  BY DEF PInv
<1>1. ASSUME NEW r \in Requests, Client(r) PROVE PInv'
  <2>1. UNCHANGED <<inflight, handled, stopping>>
    BY <1>1 DEF Client, Connect, Arrive, DeadlinePasses, Enqueue, WorkerGone, GiveUp, Respond,
           Close, workerVars
  <2> QED BY <1>0, <1>1, <2>1, ClientTypes, ClientPlaces, SameWorkers DEF PInv
<1>2. ASSUME NEW r \in Requests, Guest(r) \/ Abandon(r) PROVE PInv'
  <2>1. UNCHANGED <<inflight, handled, stopping>>
    BY <1>2 DEF Guest, SendHead, Fail, EndBody, Abandon, HandlerStep, workerVars
  <2> QED BY <1>0, <1>2, <2>1, HandlerTypes, HandlerPlaces, SameWorkers DEF PInv
<1>3. ASSUME NEW w \in Workers, Worker(w) PROVE PInv'
  BY <1>0, <1>3, WorkerTypes, WorkerPlaces DEF PInv
<1>4. CASE Signal \/ WorkerEnded \/ Drained \/ WoundDown
  <2>1. UNCHANGED <<inflight, handled, stopping, at, queue, handler>>
    BY <1>4 DEF Signal, WorkerEnded, BeginDrain, Drained, WoundDown, clientVars, workerVars
  <2>2. \A r \in Requests : client'[r] \in Unsent => client[r] \in Unsent
    BY <1>0, <1>4 DEF Signal, WorkerEnded, BeginDrain, Drained, WoundDown, Left, clientVars,
           TypeOK, Unsent
  <2>3. \A w \in Workers : Queued(w)' = Queued(w) /\ Queued(w) \subseteq Requests
    BY <1>0, <2>1, QueueKept, QueuedAreRequests
  <2>4. Placed'
    BY <1>0, <2>1, <2>2, <2>3 DEF PInv, TypeOK, Placed
  <2> QED BY <1>0, <1>4, <2>1, <2>4, ServerTypes, SameWorkers DEF PInv
<1>5. CASE UNCHANGED vars
  <2>1. \A w \in Workers : Queued(w)' = Queued(w)
    BY <1>5, QueueKept DEF vars
  <2> QED BY <1>5, <2>1 DEF vars, serverVars, clientVars, workerVars, PInv, TypeOK, Placed,
          Sized, Counted
<1> QED BY <1>1, <1>2, <1>3, <1>4, <1>5 DEF Next

(* The running handlers map one to one to slots, PerWorker of each worker.  *)
LEMMA RunningAreFew ==
    ASSUME PInv
    PROVE  Cardinality({r \in Requests : handler[r] \in Runs}) <= MaxConcurrency
<1> DEFINE S == {r \in Requests : handler[r] \in Runs}
           T == Workers \X (1..PerWorker)
           n(w) == Cardinality(inflight[w])
<1>1. \A w \in Workers : n(w) \in Nat /\ n(w) <= PerWorker
        /\ \E g : g \in Injection(inflight[w], 1..n(w))
  <2> SUFFICES ASSUME NEW w \in Workers
               PROVE  /\ n(w) \in Nat /\ n(w) <= PerWorker
                      /\ \E g : g \in Injection(inflight[w], 1..n(w))
    OBVIOUS
  <2>1. IsFiniteSet(inflight[w]) /\ n(w) <= PerWorker
    BY DEF PInv, Sized
  <2>2. n(w) \in Nat /\ ExistsBijection(1..n(w), inflight[w])
    BY <2>1, FS_CardinalityType
  <2>3. ExistsBijection(inflight[w], 1..n(w))
    BY <2>2, Fun_ExistsBijSymmetric
  <2> QED BY <2>1, <2>2, <2>3 DEF ExistsBijection, Bijection
<1> DEFINE slot == [w \in Workers |-> CHOOSE g : g \in Injection(inflight[w], 1..n(w))]
           f == [r \in S |-> <<at[r], slot[at[r]][r]>>]
<1>2. \A w \in Workers : slot[w] \in Injection(inflight[w], 1..n(w))
  BY <1>1
<1>3. \A r \in S : at[r] \in Workers /\ r \in inflight[at[r]]
  BY DEF PInv, TypeOK, Placed
<1> HIDE DEF slot
<1>4. \A r \in S : slot[at[r]][r] \in 1..PerWorker
  <2> SUFFICES ASSUME NEW r \in S PROVE slot[at[r]][r] \in 1..PerWorker
    OBVIOUS
  <2>1. slot[at[r]] \in [inflight[at[r]] -> 1..n(at[r])]
    BY <1>2, <1>3 DEF Injection
  <2> QED BY <1>1, <1>3, <2>1, PerWorkerNat
<1>5. f \in Injection(S, T)
  <2>1. f \in [S -> T]
    BY <1>3, <1>4
  <2>2. ASSUME NEW r \in S, NEW s \in S, f[r] = f[s] PROVE r = s
    <3>1. at[r] = at[s] /\ slot[at[r]][r] = slot[at[r]][s]
      BY <2>2
    <3> QED BY <1>2, <1>3, <3>1 DEF Injection, IsInjective
  <2> QED BY <2>1, <2>2 DEF Injection, IsInjective
<1>6. IsFiniteSet(T) /\ Cardinality(T) = NWorkers * PerWorker
  <2>1. IsFiniteSet(Workers) /\ Cardinality(Workers) = NWorkers
    BY FS_Interval, ServeAssumption DEF Workers, ServeAssumption
  <2>2. IsFiniteSet(1..PerWorker) /\ Cardinality(1..PerWorker) = PerWorker
    BY FS_Interval, PerWorkerNat
  <2> QED BY <2>1, <2>2, FS_Product
<1> HIDE DEF S, T, f
<1>7. IsFiniteSet(S) /\ Cardinality(S) <= Cardinality(T)
  BY <1>5, <1>6, FS_Injection
<1>8. Cardinality(S) \in Nat
  BY <1>7, FS_CardinalityType
<1>9. Cardinality(S) <= MaxConcurrency
  BY <1>6, <1>7, <1>8, PerWorkerNat, ServeAssumption DEF ServeAssumption
<1> QED BY <1>9 DEF S

(* At most MaxConcurrency handlers hold a fiber of the stack pool at once,  *)
(* over the whole server and across recycling and traps; and no instance    *)
(* takes more than its share of requests.                                   *)
THEOREM ServePoolBounds == Spec => []PoolBounds
<1>1. PInv => PoolBounds
  BY RunningAreFew DEF PoolBounds, Runs, PInv, Counted
<1> QED BY <1>1, PInvInit, PInvStep, PTL DEF Spec

-----------------------------------------------------------------------------
(***************************************************************************)
(* ServeEpoch, one worker's time, for any set of requests and any timeout. *)
(* The assumption on Grace is the weakest there is: with a grace of one    *)
(* second TLC finds the trap that comes ahead of the 504.                  *)
(*                                                                         *)
(* What bounds the deadline from below is a sum that time keeps: an epoch  *)
(* tick takes one from `left` and counts until the second ends, and the    *)
(* end of the second gives it to the age of every request in flight and to *)
(* the time the guest has held the thread.                                 *)
(***************************************************************************)
Spent(t) == IF t \in ticks THEN 1 ELSE 0

EpochTypeOK ==
    /\ job \in [Striped -> {"new", "queued", "running", "done"}]
    /\ reply \in [Striped -> {"none", "head", "504", "500"}]
    /\ age \in [Striped -> 0..Timeout]
    /\ left \in 0..Epoch!EpochTicks /\ ran \in 0..Epoch!EpochTicks
    /\ wasm \in {"none", "request", "leftover"}
    /\ leftover \subseteq Striped
    /\ ticks \subseteq {"epoch", "server"} /\ unseen \in BOOLEAN

(* A request past its deadline waits for this second's server tick at most. *)
OverdueIsShort ==
    \A r \in Striped :
        /\ job[r] \in {"queued", "running"}
        /\ reply[r] = "none" /\ age[r] = Timeout
        => "server" \notin ticks

(* The deadline was moved when the oldest job was taken, or later.          *)
TakenInTime ==
    \A r \in Epoch!Running :
        reply[r] = "none" => left + age[r] + Spent("epoch") >= Epoch!EpochTicks

(* and on the last server tick, unless the guest held the thread then.      *)
TurnedInTime ==
    Epoch!Running # {} /\ ~unseen =>
        left + Spent("epoch") + 1 >= Epoch!EpochTicks + Spent("server")

HeldInTime ==
    Epoch!Running # {} /\ wasm # "none" =>
        left + ran + Spent("epoch") + 1 >= Epoch!EpochTicks

EpochInv ==
    /\ EpochTypeOK /\ OverdueIsShort /\ TakenInTime /\ TurnedInTime /\ HeldInTime
    /\ (wasm = "none" => ~unseen)
    /\ \A r \in Striped : job[r] = "new" => age[r] = 0
    /\ Epoch!TimeoutPrecedesTrap

-----------------------------------------------------------------------------
LEMMA EpochNumbers ==
    /\ Timeout \in Nat /\ Grace \in Nat /\ Timeout >= 1 /\ Grace >= 2
    /\ Epoch!EpochTicks = Timeout + Grace
BY TimeAssumption DEF Epoch!EpochAssumption, Epoch!EpochTicks

LEMMA EpochInit == ASSUME Epoch!Init PROVE EpochInv
<1> USE EpochNumbers
<1>1. EpochTypeOK
  <2>1. 0 \in 0..Timeout /\ 0 \in 0..Epoch!EpochTicks
        /\ Epoch!EpochTicks \in 0..Epoch!EpochTicks
    BY EpochNumbers
  <2> QED BY <2>1 DEF Epoch!Init, EpochTypeOK
<1>2. Epoch!Running = {}
  BY DEF Epoch!Init, Epoch!Running
<1>3. OverdueIsShort
  BY DEF Epoch!Init, OverdueIsShort
<1>4. /\ wasm = "none" => ~unseen
      /\ \A r \in Striped : job[r] = "new" => age[r] = 0
      /\ Epoch!TimeoutPrecedesTrap
  BY DEF Epoch!Init, Epoch!TimeoutPrecedesTrap
<1> QED
  BY <1>1, <1>2, <1>3, <1>4
  DEF EpochInv, TakenInTime, TurnedInTime, HeldInTime

(* No request in flight is unanswered when the deadline is reached.         *)
LEMMA TrapComesLate ==
    ASSUME EpochInv, left = 0, NEW r \in Epoch!Running
    PROVE  reply[r] # "none"
<1> SUFFICES ASSUME reply[r] = "none" PROVE FALSE
  OBVIOUS
<1>1. age[r] \in 0..Timeout /\ Spent("epoch") \in {0, 1}
  BY DEF EpochInv, EpochTypeOK, Spent, Epoch!Running
<1>2. left + age[r] + Spent("epoch") >= Epoch!EpochTicks
  BY DEF EpochInv, TakenInTime
<1> QED BY <1>1, <1>2, EpochNumbers

LEMMA EpochTakeKeeps ==
    ASSUME EpochInv, NEW r \in Striped, Epoch!Take(r)
    PROVE  EpochInv'
<1> USE EpochNumbers DEF EpochInv
<1>1. EpochTypeOK'
  BY DEF Epoch!Take, EpochTypeOK
<1>2. Epoch!Running' = Epoch!Running \cup {r}
  BY DEF Epoch!Take, Epoch!Running, EpochTypeOK
<1>3. Spent("epoch")' \in {0, 1} /\ Spent("server")' \in {0, 1}
  BY DEF Spent
<1>4. left' = Epoch!EpochTicks /\ age' \in [Striped -> 0..Timeout] /\ wasm' = "none"
  BY <1>1 DEF Epoch!Take, EpochTypeOK
<1>5. OverdueIsShort'
  BY DEF Epoch!Take, OverdueIsShort, EpochTypeOK
<1>6. TakenInTime'
  <2> SUFFICES ASSUME NEW q \in Epoch!Running'
               PROVE  left' + age'[q] + Spent("epoch")' >= Epoch!EpochTicks
    BY DEF TakenInTime
  <2>1. age'[q] \in 0..Timeout
    BY <1>4 DEF Epoch!Running
  <2> QED BY <1>3, <1>4, <2>1
<1>7. TurnedInTime' /\ HeldInTime'
  BY <1>3, <1>4 DEF TurnedInTime, HeldInTime
<1>8. /\ wasm' = "none" => ~unseen'
      /\ \A q \in Striped : job'[q] = "new" => age'[q] = 0
      /\ Epoch!TimeoutPrecedesTrap'
  BY DEF Epoch!Take, Epoch!TimeoutPrecedesTrap, EpochTypeOK
<1> QED BY <1>1, <1>5, <1>6, <1>7, <1>8

(* A step that leaves time alone, and puts nothing in flight or answers it  *)
(* with a 500, keeps the invariant.                                         *)
LEMMA EpochCalmKeeps ==
    ASSUME EpochInv, EpochTypeOK',
           UNCHANGED <<age, left, ticks>>,
           Epoch!Running' \subseteq Epoch!Running,
           \A r \in Striped : reply'[r] = "none" => reply[r] = "none",
           \A r \in Striped : reply'[r] # "500",
           \A r \in Striped : job'[r] \in {"queued", "running"} =>
               job[r] \in {"new", "queued", "running"},
           \A r \in Striped : job'[r] = "new" => job[r] = "new",
           unseen' = unseen,
           \/ UNCHANGED <<wasm, ran>>
           \/ wasm = "none"
           \/ wasm' = "none" /\ ~unseen
    PROVE  EpochInv'
<1> USE EpochNumbers DEF EpochInv
<1>1. Spent("epoch")' = Spent("epoch") /\ Spent("server")' = Spent("server")
  BY DEF Spent
<1>2. OverdueIsShort'
  <2> SUFFICES ASSUME NEW r \in Striped, job'[r] \in {"queued", "running"},
                      reply'[r] = "none", age'[r] = Timeout
               PROVE  "server" \notin ticks
    BY DEF OverdueIsShort
  <2>1. job[r] \in {"queued", "running"}
    OBVIOUS         \* one that is new has no age
  <2> QED BY <2>1 DEF OverdueIsShort
<1>3. TakenInTime'
  BY <1>1 DEF TakenInTime, Epoch!Running
<1>4. TurnedInTime'
  BY <1>1 DEF TurnedInTime
<1>5. HeldInTime'
  <2> SUFFICES ASSUME Epoch!Running # {}, wasm' # "none"
               PROVE  left + ran' + Spent("epoch") + 1 >= Epoch!EpochTicks
    BY <1>1 DEF HeldInTime
  <2>1. left \in Nat /\ ran \in Nat /\ ran' \in Nat
        /\ Spent("epoch") \in {0, 1} /\ Spent("server") \in {0, 1}
    BY DEF EpochTypeOK, Spent
  <2>2. CASE UNCHANGED <<wasm, ran>>
    BY <2>2 DEF HeldInTime
  <2>3. CASE wasm = "none"
    BY <2>1, <2>3 DEF TurnedInTime
  <2> QED BY <2>2, <2>3
<1>6. (wasm = "none" => ~unseen)'
  OBVIOUS
<1> QED BY <1>2, <1>3, <1>4, <1>5, <1>6 DEF Epoch!TimeoutPrecedesTrap

LEMMA EpochArriveKeeps ==
    ASSUME EpochInv, NEW r \in Striped, Epoch!Arrive(r)
    PROVE  EpochInv'
<1>1. EpochTypeOK'
  BY DEF EpochInv, Epoch!Arrive, EpochTypeOK
<1>2. Epoch!Running' = Epoch!Running
  BY DEF EpochInv, Epoch!Arrive, EpochTypeOK, Epoch!Running
<1> QED
  BY <1>1, <1>2, EpochCalmKeeps
  DEF EpochInv, Epoch!Arrive, EpochTypeOK, Epoch!TimeoutPrecedesTrap

LEMMA EpochFinishKeeps ==
    ASSUME EpochInv, NEW r \in Striped, Epoch!Finish(r)
    PROVE  EpochInv'
<1>1. EpochTypeOK'
  BY DEF EpochInv, Epoch!Finish, EpochTypeOK
<1>2. Epoch!Running' \subseteq Epoch!Running
  BY DEF EpochInv, Epoch!Finish, EpochTypeOK, Epoch!Running
<1> QED
  BY <1>1, <1>2, EpochCalmKeeps
  DEF EpochInv, Epoch!Finish, EpochTypeOK, Epoch!TimeoutPrecedesTrap

LEMMA EpochAbandonKeeps ==
    ASSUME EpochInv, NEW r \in Striped, Epoch!Abandon(r)
    PROVE  EpochInv'
<1>1. EpochTypeOK'
  BY DEF EpochInv, Epoch!Abandon, EpochTypeOK
<1>2. Epoch!Running' \subseteq Epoch!Running
  BY DEF EpochInv, Epoch!Abandon, EpochTypeOK, Epoch!Running
<1> QED
  BY <1>1, <1>2, EpochCalmKeeps
  DEF EpochInv, Epoch!Abandon, EpochTypeOK, Epoch!TimeoutPrecedesTrap

LEMMA EpochLeftoverEndsKeeps ==
    ASSUME EpochInv, NEW r \in Striped, Epoch!LeftoverEnds(r)
    PROVE  EpochInv'
<1>1. EpochTypeOK' /\ Epoch!Running' = Epoch!Running
  BY DEF EpochInv, Epoch!LeftoverEnds, EpochTypeOK, Epoch!Running
<1> QED
  BY <1>1, EpochCalmKeeps
  DEF EpochInv, Epoch!LeftoverEnds, Epoch!TimeoutPrecedesTrap

LEMMA EpochResumeKeeps ==
    ASSUME EpochInv, Epoch!Resume PROVE EpochInv'
<1>1. EpochTypeOK'
  <2>1. 0 \in 0..Epoch!EpochTicks
    BY EpochNumbers
  <2> QED BY <2>1 DEF EpochInv, Epoch!Resume, EpochTypeOK
<1>2. Epoch!Running' = Epoch!Running
  BY DEF Epoch!Resume, Epoch!Running
<1> QED
  BY <1>1, <1>2, EpochCalmKeeps
  DEF EpochInv, Epoch!Resume, Epoch!TimeoutPrecedesTrap

(* The guest goes into a host call: the loop turns if a tick came while it  *)
(* ran, and none came if it does not.                                       *)
LEMMA EpochYieldKeeps ==
    ASSUME EpochInv, Epoch!Yield PROVE EpochInv'
<1> USE EpochNumbers DEF EpochInv, Epoch!Yield
<1>1. EpochTypeOK'
  <2>1. left' \in 0..Epoch!EpochTicks /\ ran' \in 0..Epoch!EpochTicks
    BY DEF EpochTypeOK
  <2> QED BY <2>1 DEF EpochTypeOK
<1>2. Epoch!Running' = Epoch!Running
      /\ Spent("epoch")' = Spent("epoch") /\ Spent("server")' = Spent("server")
      /\ Spent("epoch") \in {0, 1} /\ Spent("server") \in {0, 1}
  BY DEF Epoch!Running, Spent
<1>3. OverdueIsShort'
  BY DEF OverdueIsShort
<1>4. TakenInTime'
  <2> SUFFICES ASSUME NEW r \in Epoch!Running, reply[r] = "none"
               PROVE  left' + age[r] + Spent("epoch") >= Epoch!EpochTicks
    BY <1>2 DEF TakenInTime
  <2>1. left + age[r] + Spent("epoch") >= Epoch!EpochTicks
    BY DEF TakenInTime
  <2>2. age[r] \in 0..Timeout /\ left \in 0..Epoch!EpochTicks
    BY DEF EpochTypeOK, Epoch!Running
  <2> QED BY <1>2, <2>1, <2>2
<1>5. TurnedInTime'
  <2> SUFFICES ASSUME Epoch!Running # {}
               PROVE  left' + Spent("epoch") + 1 >= Epoch!EpochTicks + Spent("server")
    BY <1>2 DEF TurnedInTime
  <2>1. CASE unseen
    BY <1>2, <2>1
  <2>2. CASE ~unseen
    BY <1>2, <2>2 DEF TurnedInTime
  <2> QED BY <2>1, <2>2 DEF EpochTypeOK
<1>6. HeldInTime' /\ Epoch!TimeoutPrecedesTrap'
  BY DEF HeldInTime, Epoch!TimeoutPrecedesTrap
<1> QED BY <1>1, <1>3, <1>4, <1>5, <1>6

LEMMA EpochTrapKeeps ==
    ASSUME EpochInv, Epoch!Trap PROVE EpochInv'
<1> USE EpochNumbers DEF EpochInv, Epoch!Trap
<1>1. Epoch!Running' = {}
  BY DEF Epoch!Running, EpochTypeOK
<1>2. \A r \in Epoch!Running : reply[r] # "none"
  BY TrapComesLate
<1>3. reply' = reply
  BY <1>2 DEF Epoch!Running, EpochTypeOK
<1>4. EpochTypeOK'
  <2>1. 0 \in 0..Epoch!EpochTicks /\ Epoch!EpochTicks \in 0..Epoch!EpochTicks
    OBVIOUS
  <2>2. job' \in [Striped -> {"new", "queued", "running", "done"}]
    BY DEF EpochTypeOK
  <2> QED BY <1>3, <2>1, <2>2 DEF EpochTypeOK
<1>5. OverdueIsShort'
  BY <1>3 DEF OverdueIsShort, EpochTypeOK, Epoch!Running
<1>6. TakenInTime' /\ TurnedInTime' /\ HeldInTime'
  BY <1>1 DEF TakenInTime, TurnedInTime, HeldInTime
<1>7. (\A r \in Striped : job'[r] = "new" => age'[r] = 0)
      /\ Epoch!TimeoutPrecedesTrap'
  BY <1>3 DEF Epoch!TimeoutPrecedesTrap, EpochTypeOK
<1> QED BY <1>4, <1>5, <1>6, <1>7

LEMMA EpochTickKeeps ==
    ASSUME EpochInv, Epoch!EpochTick PROVE EpochInv'
<1> USE EpochNumbers DEF EpochInv, Epoch!EpochTick
<1>1. /\ Spent("epoch") = 0 /\ Spent("epoch")' = 1
      /\ Spent("server")' = Spent("server") /\ Spent("server") \in {0, 1}
      /\ Epoch!Running' = Epoch!Running
  BY DEF Spent, Epoch!Running
<1>2. /\ left \in 0..Epoch!EpochTicks /\ left' \in 0..Epoch!EpochTicks
      /\ left' + 1 >= left /\ ran \in 0..Epoch!EpochTicks
  BY DEF EpochTypeOK
<1>3. EpochTypeOK'
  BY <1>2 DEF EpochTypeOK
<1>4. OverdueIsShort'
  BY DEF OverdueIsShort
<1>5. TakenInTime'
  <2> SUFFICES ASSUME NEW r \in Epoch!Running, reply[r] = "none"
               PROVE  left' + age[r] + 1 >= Epoch!EpochTicks
    BY <1>1 DEF TakenInTime
  <2>1. left + age[r] + 0 >= Epoch!EpochTicks /\ age[r] \in 0..Timeout
    BY <1>1 DEF TakenInTime, EpochTypeOK, Epoch!Running
  <2> QED BY <1>2, <2>1
<1>6. TurnedInTime' /\ HeldInTime'
  BY <1>1, <1>2 DEF TurnedInTime, HeldInTime
<1>7. Epoch!TimeoutPrecedesTrap'
  BY DEF Epoch!TimeoutPrecedesTrap
<1> QED BY <1>3, <1>4, <1>5, <1>6, <1>7

LEMMA EpochServerTickKeeps ==
    ASSUME EpochInv, Epoch!ServerTick PROVE EpochInv'
<1> USE EpochNumbers DEF EpochInv, Epoch!ServerTick
<1>1. /\ Spent("server") = 0 /\ Spent("server")' = 1
      /\ Spent("epoch")' = Spent("epoch") /\ Spent("epoch") \in {0, 1}
      /\ Epoch!Running' = Epoch!Running
  BY DEF Spent, Epoch!Running
<1>2. /\ left \in 0..Epoch!EpochTicks /\ ran \in 0..Epoch!EpochTicks
      /\ left' \in 0..Epoch!EpochTicks /\ left' >= left
  BY DEF EpochTypeOK
<1>3. EpochTypeOK'
  BY <1>2 DEF EpochTypeOK
<1>4. OverdueIsShort'
  <2> SUFFICES ASSUME NEW r \in Striped, job[r] \in {"queued", "running"},
                      age[r] = Timeout
               PROVE  reply'[r] # "none"
    BY DEF OverdueIsShort
  <2>1. age[r] >= Timeout
    OBVIOUS
  <2> QED BY <2>1
<1>5. TakenInTime'
  <2> SUFFICES ASSUME NEW r \in Epoch!Running, reply'[r] = "none"
               PROVE  left' + age[r] + Spent("epoch") >= Epoch!EpochTicks
    BY <1>1 DEF TakenInTime
  <2>1. reply[r] = "none" /\ age[r] \in 0..Timeout
    BY DEF Epoch!Running, EpochTypeOK
  <2>2. left + age[r] + Spent("epoch") >= Epoch!EpochTicks
    BY <2>1 DEF TakenInTime
  <2> QED BY <1>1, <1>2, <2>1, <2>2
<1>6. TurnedInTime'
  <2> SUFFICES ASSUME Epoch!Running # {}, ~unseen'
               PROVE  left' + Spent("epoch") + 1 >= Epoch!EpochTicks + 1
    BY <1>1 DEF TurnedInTime
  <2>1. left' = Epoch!EpochTicks
    BY DEF Epoch!TickTurnsLoop
  <2> QED BY <1>1, <2>1
<1>7. HeldInTime'
  BY <1>1, <1>2 DEF HeldInTime
<1>8. Epoch!TimeoutPrecedesTrap'
  BY DEF Epoch!TimeoutPrecedesTrap, EpochTypeOK
<1> QED BY <1>3, <1>4, <1>5, <1>6, <1>7, <1>8

LEMMA EpochSecondKeeps ==
    ASSUME EpochInv, Epoch!Second PROVE EpochInv'
<1> USE EpochNumbers DEF EpochInv, Epoch!Second
<1>1. /\ Spent("server") = 1 /\ Spent("server")' = 0
      /\ Spent("epoch") = 1 /\ Spent("epoch")' = 0
      /\ Epoch!Running' = Epoch!Running
  BY DEF Spent, Epoch!Running
<1>2. /\ left \in 0..Epoch!EpochTicks /\ ran \in 0..Epoch!EpochTicks
      /\ ran' \in 0..Epoch!EpochTicks
  BY DEF EpochTypeOK
<1>3. \A r \in Striped : age[r] \in 0..Timeout /\ age'[r] \in 0..Timeout
  BY DEF EpochTypeOK
<1>4. EpochTypeOK'
  BY <1>2, <1>3 DEF EpochTypeOK
<1>5. OverdueIsShort'
  BY DEF OverdueIsShort
<1>6. TakenInTime'
  <2> SUFFICES ASSUME NEW r \in Epoch!Running, reply[r] = "none"
               PROVE  left + age'[r] + 0 >= Epoch!EpochTicks
    BY <1>1 DEF TakenInTime
  <2>1. left + age[r] + 1 >= Epoch!EpochTicks
    BY <1>1 DEF TakenInTime
  <2>2. r \in Striped /\ job[r] \in {"queued", "running"} /\ age[r] # Timeout
    BY DEF Epoch!Running, OverdueIsShort
  <2>3. age'[r] = age[r] + 1
    BY <1>3, <2>2
  <2> QED BY <1>2, <1>3, <2>1, <2>2, <2>3
<1>7. TurnedInTime'
  BY <1>1, <1>2 DEF TurnedInTime
<1>8. HeldInTime'
  BY <1>1, <1>2 DEF HeldInTime
<1>9. Epoch!TimeoutPrecedesTrap' /\ \A r \in Striped : job[r] = "new" => age'[r] = 0
  BY <1>3 DEF Epoch!TimeoutPrecedesTrap
<1> QED BY <1>4, <1>5, <1>6, <1>7, <1>8, <1>9

LEMMA EpochStep ==
    ASSUME EpochInv, [Epoch!Next]_Epoch!vars PROVE EpochInv'
<1>1. CASE UNCHANGED Epoch!vars
  BY <1>1
  DEF Epoch!vars, EpochInv, EpochTypeOK, OverdueIsShort, TakenInTime, TurnedInTime,
      HeldInTime, Spent, Epoch!Running, Epoch!TimeoutPrecedesTrap
<1>2. ASSUME NEW r \in Striped,
             \/ Epoch!Arrive(r) \/ Epoch!Take(r) \/ Epoch!Finish(r)
             \/ Epoch!Abandon(r) \/ Epoch!LeftoverEnds(r)
      PROVE  EpochInv'
  BY <1>2, EpochArriveKeeps, EpochTakeKeeps, EpochFinishKeeps, EpochAbandonKeeps,
     EpochLeftoverEndsKeeps
<1> QED
  BY <1>1, <1>2, EpochResumeKeeps, EpochYieldKeeps, EpochTrapKeeps, EpochTickKeeps,
     EpochServerTickKeeps, EpochSecondKeeps
  DEF Epoch!Next, Epoch!Time

(* A trap that takes requests with it has `left` at nothing, so what the    *)
(* guest held the thread for makes up the sum.                              *)
LEMMA BusyTrapRan ==
    ASSUME EpochInv, Epoch!Trap, Epoch!Running # {}
    PROVE  ran >= Timeout
<1>1. ran \in Nat /\ Spent("epoch") \in {0, 1}
  BY EpochNumbers DEF EpochInv, EpochTypeOK, Spent
<1>2. left + ran + Spent("epoch") + 1 >= Epoch!EpochTicks /\ left = 0
  BY DEF EpochInv, HeldInTime, Epoch!Trap
<1> QED BY <1>1, <1>2, EpochNumbers

(* serve.rs:805.  With a grace of two seconds or more, and the code's is    *)
(* five, the 504 precedes the trap: whatever the timeout, the load and the  *)
(* guest, no request in flight learns of a runaway guest by a 500.          *)
THEOREM EpochTimeoutPrecedesTrap ==
    TimeSpec => []TimeoutPrecedesTrap
<1>1. EpochInv => Epoch!TimeoutPrecedesTrap
  BY DEF EpochInv
<1>2. Epoch!Init => EpochInv
  BY EpochInit
<1>3. EpochInv /\ [Epoch!Next]_Epoch!vars => EpochInv'
  BY EpochStep
<1> QED BY <1>1, <1>2, <1>3, PTL DEF TimeSpec, Epoch!Spec, TimeoutPrecedesTrap

(* The epoch trap takes requests in flight with it only when a guest ran    *)
(* on, without a host call, for the whole of --timeout.                     *)
THEOREM EpochBusyTrapIsARunaway ==
    TimeSpec => BusyTrapIsARunaway
<1>1. EpochInv /\ [Epoch!Next]_Epoch!vars
        => [Epoch!Trap /\ Epoch!Running # {} => ran >= Timeout]_Epoch!vars
  BY BusyTrapRan
<1>2. Epoch!Init => EpochInv
  BY EpochInit
<1>3. EpochInv /\ [Epoch!Next]_Epoch!vars => EpochInv'
  BY EpochStep
<1> QED BY <1>1, <1>2, <1>3, PTL
  DEF TimeSpec, Epoch!Spec, BusyTrapIsARunaway, Epoch!BusyTrapIsARunaway
=============================================================================
