-------------------------------- MODULE Serve --------------------------------
(***************************************************************************)
(* wado-cli/src/serve.rs: an HTTP server that stripes requests over a pool *)
(* of workers.  A worker is one long-lived component instance; it takes    *)
(* jobs from its own bounded queue, runs a bounded number at once, drains  *)
(* and rebuilds its instance every RecycleRequests jobs, and rebuilds it   *)
(* after a trap.  One deadline bounds a request up to its response head.   *)
(*                                                                         *)
(* Each request has a connection of its own.  Whether the deadline passed  *)
(* is a flag per request; a server tick is the step that looks at it.      *)
(* What the guest does is open: it may answer, fail, trap, or never move   *)
(* again.  Frames of a response body are ServeBody's, and the epoch that   *)
(* ends a guest running away is ServeEpoch's.                              *)
(***************************************************************************)
EXTENDS Naturals, Sequences, FiniteSets

CONSTANTS Requests,         \* the requests clients may send
          NWorkers,         \* --workers, after the clamps of `run`
          MaxConcurrency,   \* --max-concurrency
          RecycleRequests,  \* --recycle-requests, 0 for never
          MaxFaults         \* bound: traps and failed instantiations

ASSUME ServeAssumption ==
    /\ NWorkers \in Nat \ {0} /\ MaxConcurrency \in Nat /\ NWorkers <= MaxConcurrency
    /\ RecycleRequests \in Nat /\ MaxFaults \in Nat

Workers == 0..NWorkers - 1

(* per_worker_inflight: how many jobs a worker runs, and how many it queues *)
PerWorker == MaxConcurrency \div NWorkers

VARIABLES
    server,     \* accepting, draining (connections), winding (down), stopped
    cause,      \* what began the shutdown: none, a signal, a failed worker
    conn,       \* of each request: its connection is none, open or closed
    client,     \* of each request: dispatch_request is at ..., or what it returned
    late,       \* the requests whose deadline has passed
    next,       \* Dispatch.next, modulo NWorkers
    at,         \* the worker each request was striped to
    queue,      \* of each worker: job_rx
    head,       \* of each request: what its oneshot channel carries
    handler,    \* of each request: where its HandlerTask is
    inflight,   \* of each worker: the tasks it has not seen end
    handled,    \* of each worker: jobs taken by this instance
    phase,      \* of each worker: where worker_loop is
    stopping,   \* of each worker: WorkerStop, or "no"
    faults      \* traps and failed instantiations so far

serverVars == <<server, cause>>
clientVars == <<conn, client, late, next, at>>
workerVars == <<inflight, handled, phase, stopping, faults>>
vars == <<serverVars, clientVars, queue, head, handler, workerVars>>

TypeOK ==
    /\ server \in {"accepting", "draining", "winding", "stopped"}
    /\ cause \in {"none", "signal", "worker"}
    /\ conn \in [Requests -> {"none", "open", "closed"}]
    /\ client \in [Requests ->
         {"idle", "sending", "waiting", "head", "500", "503", "504", "gone"}]
    /\ late \subseteq Requests /\ next \in Workers /\ at \in [Requests -> Workers]
    /\ queue \in [Workers -> Seq(Requests)]
    /\ head \in [Requests -> {"empty", "streaming", "error", "trapped", "dropped"}]
    /\ handler \in [Requests -> {"none", "queued", "calling", "pumping", "ended"}]
    /\ inflight \in [Workers -> SUBSET Requests]
    /\ handled \in [Workers -> Nat]
    /\ phase \in [Workers -> {"building", "serving", "asleep", "stopped"}]
    /\ stopping \in [Workers -> {"no", "recycle", "shutdown"}]
    /\ faults \in 0..MaxFaults

Init ==
    /\ server = "accepting" /\ cause = "none"
    /\ conn = [r \in Requests |-> "none"] /\ client = [r \in Requests |-> "idle"]
    /\ late = {} /\ next = 0 /\ at = [r \in Requests |-> 0]
    /\ queue = [w \in Workers |-> <<>>] /\ head = [r \in Requests |-> "empty"]
    /\ handler = [r \in Requests |-> "none"]
    /\ inflight = [w \in Workers |-> {}] /\ handled = [w \in Workers |-> 0]
    /\ phase = [w \in Workers |-> "building"] /\ stopping = [w \in Workers |-> "no"]
    /\ faults = 0

-----------------------------------------------------------------------------
(* A connection, and dispatch_request on it.                                *)

(* Nobody holds the head's receiver: the request was answered or is gone.   *)
Unread(r) == client[r] \notin {"sending", "waiting"}

Answer(r, what) == client' = [client EXCEPT ![r] = what]

Connect(r) ==
    /\ server = "accepting" /\ conn[r] = "none"
    /\ conn' = [conn EXCEPT ![r] = "open"]
    /\ UNCHANGED <<serverVars, client, late, next, at, queue, head, handler, workerVars>>

(* submit picks the worker before it waits for room in its queue.           *)
Arrive(r) ==
    /\ conn[r] = "open" /\ client[r] = "idle"
    /\ Answer(r, "sending")
    /\ at' = [at EXCEPT ![r] = next] /\ next' = (next + 1) % NWorkers
    /\ UNCHANGED <<serverVars, conn, late, queue, head, handler, workerVars>>

DeadlinePasses(r) ==
    /\ ~Unread(r) /\ r \notin late /\ late' = late \cup {r}
    /\ UNCHANGED <<serverVars, conn, client, next, at, queue, head, handler, workerVars>>

(* before_deadline drops what a wait brought once the deadline has passed,  *)
(* so a job can be in the queue while its client reads a 504.               *)
Enqueue(r) ==
    /\ client[r] = "sending" /\ phase[at[r]] # "stopped" /\ Len(queue[at[r]]) < PerWorker
    /\ queue' = [queue EXCEPT ![at[r]] = Append(@, r)]
    /\ handler' = [handler EXCEPT ![r] = "queued"]
    /\ Answer(r, IF r \in late THEN "504" ELSE "waiting")
    /\ UNCHANGED <<serverVars, conn, late, next, at, head, workerVars>>

WorkerGone(r) ==
    /\ client[r] = "sending" /\ phase[at[r]] = "stopped"
    /\ Answer(r, IF r \in late THEN "504" ELSE "503")
    /\ UNCHANGED <<serverVars, conn, late, next, at, queue, head, handler, workerVars>>

GiveUp_InQueueOnly(r) ==
    /\ r \in late /\ client[r] = "sending" /\ Answer(r, "504")
    /\ UNCHANGED <<serverVars, conn, late, next, at, queue, head, handler, workerVars>>
GiveUp(r) ==            \* a server tick
    /\ r \in late /\ ~Unread(r) /\ Answer(r, "504")
    /\ UNCHANGED <<serverVars, conn, late, next, at, queue, head, handler, workerVars>>

Outcome(r) ==
    IF r \in late THEN "504" ELSE IF head[r] = "streaming" THEN "head" ELSE "500"

Respond(r) ==
    /\ client[r] = "waiting" /\ head[r] # "empty" /\ Answer(r, Outcome(r))
    /\ UNCHANGED <<serverVars, conn, late, next, at, queue, head, handler, workerVars>>

(* The connection ends, and drops the request's future or response body.    *)
Left(r) == IF Unread(r) THEN client[r] ELSE "gone"

Close(r) ==
    /\ conn[r] = "open" /\ conn' = [conn EXCEPT ![r] = "closed"]
    /\ Answer(r, Left(r))
    /\ UNCHANGED <<serverVars, late, next, at, queue, head, handler, workerVars>>

-----------------------------------------------------------------------------
(* HandlerTask::run, on the instance of worker at[r].                       *)

Running(r) == r \in inflight[at[r]] /\ phase[at[r]] = "serving"

HandlerStep(r, from, to) ==
    /\ Running(r) /\ handler[r] = from /\ handler' = [handler EXCEPT ![r] = to]
    /\ UNCHANGED <<serverVars, clientVars, queue, workerVars>>

SendHead(r) ==          \* the guest returned a response
    /\ HandlerStep(r, "calling", IF Unread(r) THEN "ended" ELSE "pumping")
    /\ head' = IF Unread(r) THEN head ELSE [head EXCEPT ![r] = "streaming"]

Fail(r) ==              \* it returned an error code, or the call itself failed
    /\ HandlerStep(r, "calling", "ended")
    /\ \E e \in {"error", "trapped"} :
         head' = IF Unread(r) THEN head ELSE [head EXCEPT ![r] = e]

Abandon_Never(r) == FALSE /\ UNCHANGED vars
Abandon(r) ==           \* nobody waits for the head any more
    /\ Unread(r) /\ HandlerStep(r, "calling", "ended") /\ UNCHANGED head

EndBody(r) ==           \* the body ended, or a frame of it met a closed or stalled client
    /\ HandlerStep(r, "pumping", "ended") /\ UNCHANGED head

-----------------------------------------------------------------------------
(* worker_loop.                                                             *)

(* A task or job dropped before its head was sent drops the sender with it. *)
Lost(rs) == [r \in Requests |->
    IF r \in rs /\ head[r] = "empty" THEN "dropped" ELSE head[r]]

Ended(rs) == [r \in Requests |-> IF r \in rs THEN "ended" ELSE handler[r]]

Queued(w) == {queue[w][i] : i \in 1..Len(queue[w])}

(* The loop ends, and with it the receiver of the queue.                    *)
EndWorker(w) ==
    /\ phase' = [phase EXCEPT ![w] = "stopped"]
    /\ queue' = [queue EXCEPT ![w] = <<>>]
    /\ head' = Lost(Queued(w)) /\ handler' = Ended(Queued(w))

Build(w) ==
    /\ phase[w] = "building" /\ phase' = [phase EXCEPT ![w] = "serving"]
    /\ handled' = [handled EXCEPT ![w] = 0] /\ stopping' = [stopping EXCEPT ![w] = "no"]
    /\ UNCHANGED <<serverVars, clientVars, queue, head, handler, inflight, faults>>

FailToBuild(w) ==
    /\ phase[w] = "building" /\ faults < MaxFaults /\ faults' = faults + 1
    /\ EndWorker(w)
    /\ UNCHANGED <<serverVars, clientVars, inflight, handled, stopping>>

(* At the bound, or draining towards a stop, a worker takes nothing new.    *)
Taking(w) ==
    /\ phase[w] = "serving" /\ stopping[w] = "no" /\ Cardinality(inflight[w]) < PerWorker

Take_NoBound(w) ==
    /\ phase[w] = "serving" /\ stopping[w] = "no" /\ queue[w] # <<>>
    /\ queue' = [queue EXCEPT ![w] = Tail(@)]
    /\ handler' = [handler EXCEPT ![Head(queue[w])] = "calling"]
    /\ inflight' = [inflight EXCEPT ![w] = @ \cup {Head(queue[w])}]
    /\ handled' = [handled EXCEPT ![w] = @ + 1]
    /\ stopping' = IF RecycleRequests # 0 /\ handled[w] + 1 >= RecycleRequests
                   THEN [stopping EXCEPT ![w] = "recycle"] ELSE stopping
    /\ UNCHANGED <<serverVars, clientVars, head, phase, faults>>
Take(w) ==
    /\ Taking(w) /\ queue[w] # <<>>
    /\ queue' = [queue EXCEPT ![w] = Tail(@)]
    /\ handler' = [handler EXCEPT ![Head(queue[w])] = "calling"]
    /\ inflight' = [inflight EXCEPT ![w] = @ \cup {Head(queue[w])}]
    /\ handled' = [handled EXCEPT ![w] = @ + 1]
    /\ stopping' = IF RecycleRequests # 0 /\ handled[w] + 1 >= RecycleRequests
                   THEN [stopping EXCEPT ![w] = "recycle"] ELSE stopping
    /\ UNCHANGED <<serverVars, clientVars, head, phase, faults>>

SendersGone == server \in {"winding", "stopped"}

SeeClosed(w) ==         \* recv answers None
    /\ Taking(w) /\ queue[w] = <<>> /\ SendersGone
    /\ stopping' = [stopping EXCEPT ![w] = "shutdown"]
    /\ UNCHANGED <<serverVars, clientVars, queue, head, handler, inflight, handled, phase, faults>>

Reap_UnlessStopping(w) ==
    /\ phase[w] = "serving" /\ stopping[w] = "no"
    /\ \E r \in inflight[w] :
         handler[r] = "ended" /\ inflight' = [inflight EXCEPT ![w] = @ \ {r}]
    /\ UNCHANGED <<serverVars, clientVars, queue, head, handler, handled, phase, stopping, faults>>
Reap(w) ==              \* inflight.next()
    /\ phase[w] = "serving"
    /\ \E r \in inflight[w] :
         handler[r] = "ended" /\ inflight' = [inflight EXCEPT ![w] = @ \ {r}]
    /\ UNCHANGED <<serverVars, clientVars, queue, head, handler, handled, phase, stopping, faults>>

(* Dropping the store drops every task on it.                               *)
DropStore(w) ==
    /\ head' = Lost(inflight[w]) /\ handler' = Ended(inflight[w])
    /\ inflight' = [inflight EXCEPT ![w] = {}]

Recycle_NoDrain(w) ==
    /\ phase[w] = "serving" /\ stopping[w] = "recycle"
    /\ DropStore(w) /\ phase' = [phase EXCEPT ![w] = "building"]
    /\ UNCHANGED <<serverVars, clientVars, queue, handled, stopping, faults>>
Recycle(w) ==
    /\ phase[w] = "serving" /\ stopping[w] = "recycle" /\ inflight[w] = {}
    /\ DropStore(w) /\ phase' = [phase EXCEPT ![w] = "building"]
    /\ UNCHANGED <<serverVars, clientVars, queue, handled, stopping, faults>>

Shutdown(w) ==
    /\ phase[w] = "serving" /\ stopping[w] = "shutdown" /\ inflight[w] = {}
    /\ EndWorker(w)
    /\ UNCHANGED <<serverVars, clientVars, inflight, handled, stopping, faults>>

(* A guest traps: a request of this instance, or what one left running      *)
(* after its response.  The tasks in flight are lost, the queue is kept.    *)
Trap_DropsQueue(w) ==
    /\ phase[w] = "serving" /\ handled[w] > 0 /\ faults < MaxFaults /\ faults' = faults + 1
    /\ DropStore(w) /\ phase' = [phase EXCEPT ![w] = "asleep"]
    /\ queue' = [queue EXCEPT ![w] = <<>>]
    /\ UNCHANGED <<serverVars, clientVars, handled, stopping>>
Trap(w) ==
    /\ phase[w] = "serving" /\ handled[w] > 0 /\ faults < MaxFaults /\ faults' = faults + 1
    /\ DropStore(w) /\ phase' = [phase EXCEPT ![w] = "asleep"]
    /\ UNCHANGED <<serverVars, clientVars, queue, handled, stopping>>

Wake(w) ==              \* 100 ms later
    /\ phase[w] = "asleep" /\ phase' = [phase EXCEPT ![w] = "building"]
    /\ UNCHANGED <<serverVars, clientVars, queue, head, handler, inflight, handled, stopping, faults>>

Turn(w) == Build(w) \/ Take(w) \/ SeeClosed(w) \/ Reap(w) \/ Recycle(w) \/ Shutdown(w) \/ Wake(w)

-----------------------------------------------------------------------------
(* run_http_server, from its accept loop on.                                *)

BeginDrain(why) ==
    /\ server = "accepting" /\ server' = "draining" /\ cause' = why
    /\ UNCHANGED <<clientVars, queue, head, handler, workerVars>>

Signal == BeginDrain("signal")

WorkerEnded_Never == FALSE /\ UNCHANGED vars
WorkerEnded == (\E w \in Workers : phase[w] = "stopped") /\ BeginDrain("worker")

(* The last connection closed, or the cap on the drain aborts the rest.     *)
(* Either way the dispatcher drops next.                                    *)
Drained ==
    /\ server = "draining" /\ server' = "winding"
    /\ conn' = [r \in Requests |-> IF conn[r] = "open" THEN "closed" ELSE conn[r]]
    /\ client' = [r \in Requests |-> IF conn[r] = "open" THEN Left(r) ELSE client[r]]
    /\ UNCHANGED <<cause, late, next, at, queue, head, handler, workerVars>>

(* Every worker stopped, or the cap on the wind-down leaves some behind.    *)
WoundDown ==
    /\ server = "winding" /\ server' = "stopped"
    /\ UNCHANGED <<cause, clientVars, queue, head, handler, workerVars>>

-----------------------------------------------------------------------------
Client(r) ==
    \/ Connect(r) \/ Arrive(r) \/ DeadlinePasses(r) \/ Enqueue(r) \/ WorkerGone(r)
    \/ GiveUp(r) \/ Respond(r) \/ Close(r)
Guest(r) == SendHead(r) \/ Fail(r) \/ EndBody(r)
Worker(w) == Turn(w) \/ FailToBuild(w) \/ Trap(w)

Next ==
    \/ \E r \in Requests : Client(r) \/ Guest(r) \/ Abandon(r)
    \/ \E w \in Workers : Worker(w)
    \/ Signal \/ WorkerEnded \/ Drained \/ WoundDown

(* The host's own steps: tokio polls what is ready and timers fire.  No     *)
(* client and no guest has to move.                                         *)
HostFairness ==
    /\ \A r \in Requests :
         /\ WF_vars(DeadlinePasses(r)) /\ WF_vars(GiveUp(r))
         /\ WF_vars(Respond(r)) /\ WF_vars(Abandon(r))
    /\ \A w \in Workers : WF_vars(Turn(w))
    /\ WF_vars(WorkerEnded) /\ WF_vars(Drained) /\ WF_vars(WoundDown)

Spec == Init /\ [][Next]_vars /\ HostFairness

(* A guest that always answers, and always ends the body it began.          *)
GuestAnswers == \A r \in Requests : WF_vars(SendHead(r) \/ Fail(r)) /\ WF_vars(EndBody(r))

-----------------------------------------------------------------------------
(* A request still waiting with nothing sent to it has its job in its       *)
(* worker's queue or running there: recycling, traps and rebuilds never     *)
(* leave a client waiting for a job that is nowhere.                        *)
JobKept ==
    \A r \in Requests : client[r] = "waiting" /\ head[r] = "empty" =>
        \/ r \in Queued(at[r])
        \/ handler[r] = "calling" /\ Running(r)

(* What sizes the stack pool: over the whole server at most MaxConcurrency  *)
(* handlers hold a fiber, and no instance outlives its share of requests.   *)
PoolBounds ==
    /\ Cardinality({r \in Requests : handler[r] \in {"calling", "pumping"}}) <= MaxConcurrency
    /\ RecycleRequests # 0 => \A w \in Workers : handled[w] <= RecycleRequests

(* A request is dropped unanswered only by a trap of its instance or by a   *)
(* rebuild that failed: recycling and shutting down lose nothing.           *)
OnlyFaultsDrop ==
    [][(\E r \in Requests : head[r] # "dropped" /\ head'[r] = "dropped") => faults' > faults]_vars

(* A handler nobody reads the head of gives its slot up, though its guest   *)
(* is parked in a host call (docs/wep-2026-02-21-wasi-http.md:132).         *)
UnreadHandlerEnds ==
    \A r \in Requests : handler[r] = "calling" /\ Unread(r) ~> handler[r] = "ended"

(* serve.rs:843: a worker that cannot instantiate shuts the server down,    *)
(* rather than leave the others to serve around it.                         *)
FailedWorkerEndsServer ==
    (\E w \in Workers : phase[w] = "stopped") ~> server # "accepting"

(* A worker gets to what it is told, if its guest answers. One that recycles *)
(* runs out of requests in flight, whatever arrives meanwhile; one whose     *)
(* dispatcher is dropped ends, asleep or rebuilding too.                     *)
WorkersObey ==
    GuestAnswers =>
        /\ \A w \in Workers :
             phase[w] = "serving" /\ stopping[w] = "recycle" ~> phase[w] # "serving"
        /\ server = "winding" ~> \A w \in Workers : phase[w] = "stopped"

(* The pool keeps what the service promises.                                *)
PhaseOf(c) ==
    CASE c = "idle" -> "absent"
      [] c \in {"sending", "waiting"} -> "pending"
      [] c = "gone" -> "parted"
      [] OTHER -> "replied"
ServicePhase == [r \in Requests |-> PhaseOf(client[r])]
ServiceState ==
    CASE server = "accepting" -> "up" [] server = "draining" -> "closing" [] OTHER -> "down"

Service == INSTANCE HttpService WITH phase <- ServicePhase, server <- ServiceState
KeepsPromise == Service!Spec
=============================================================================
