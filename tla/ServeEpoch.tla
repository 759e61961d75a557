------------------------------ MODULE ServeEpoch ------------------------------
(***************************************************************************)
(* wado-cli/src/serve.rs, one worker's time.  An OS thread advances the    *)
(* engine's epoch each second; wasm that runs at or past the store's       *)
(* deadline traps the store.  The worker's loop pushes the deadline out    *)
(* every time it turns, which a guest that runs without yielding prevents. *)
(* A server tick answers the requests past their own deadline.             *)
(*                                                                         *)
(* A second has one epoch tick and one server tick, in either order, and   *)
(* what they wake runs within it: the host has a tokio thread to spare.    *)
(***************************************************************************)
EXTENDS Integers

CONSTANTS Requests,     \* requests striped to this worker
          Timeout,      \* timeout_secs
          Grace         \* what the epoch deadline adds to it: 5

EpochAssumption == Timeout \in Nat \ {0} /\ Grace \in Nat

VARIABLES
    job,        \* of each request: new, queued, running, or done
    reply,      \* of each request: none, head, 504 or 500
    age,        \* of each request: seconds since it arrived
    left,       \* epochs before the store's deadline
    wasm,       \* what runs wasm and does not yield: nothing, a request's
                \* guest task, or one left over from a request that is done
    ran,        \* seconds it has run
    leftover,   \* the requests whose guest task outlives them
    ticks,      \* of this second's ticks, those that came
    unseen      \* a server tick came that the loop has not turned on

vars == <<job, reply, age, left, wasm, ran, leftover, ticks, unseen>>

EpochTicks_NoGrace == Timeout
EpochTicks == Timeout + Grace

Running == {r \in Requests : job[r] = "running"}

Init ==
    /\ job = [r \in Requests |-> "new"] /\ reply = [r \in Requests |-> "none"]
    /\ age = [r \in Requests |-> 0] /\ left = EpochTicks
    /\ wasm = "none" /\ ran = 0 /\ leftover = {} /\ ticks = {} /\ unseen = FALSE

Arrive(r) ==
    /\ job[r] = "new" /\ job' = [job EXCEPT ![r] = "queued"]
    /\ UNCHANGED <<reply, age, left, wasm, ran, leftover, ticks, unseen>>

(* A turn of the dispatch loop that brings a job: the deadline moves before *)
(* the guest runs.                                                          *)
Take_Stale(r) ==
    /\ job[r] = "queued" /\ wasm = "none"
    /\ job' = [job EXCEPT ![r] = "running"]
    /\ UNCHANGED <<reply, age, left, wasm, ran, leftover, ticks, unseen>>
Take(r) ==
    /\ job[r] = "queued" /\ wasm = "none"
    /\ job' = [job EXCEPT ![r] = "running"] /\ left' = EpochTicks
    /\ UNCHANGED <<reply, age, wasm, ran, leftover, ticks, unseen>>

(* The guest answers; its task may go on.                                   *)
Finish(r) ==
    /\ job[r] = "running" /\ wasm = "none" /\ left > 0
    /\ job' = [job EXCEPT ![r] = "done"]
    /\ reply' = [reply EXCEPT ![r] = IF @ = "none" THEN "head" ELSE @]
    /\ leftover' \in {leftover, leftover \cup {r}}
    /\ UNCHANGED <<age, left, wasm, ran, ticks, unseen>>

(* Nobody reads the head: the handler ends, and wasmtime cannot cancel the  *)
(* guest task it called.                                                    *)
Abandon(r) ==
    /\ job[r] = "running" /\ reply[r] # "none" /\ wasm = "none"
    /\ job' = [job EXCEPT ![r] = "done"] /\ leftover' = leftover \cup {r}
    /\ UNCHANGED <<reply, age, left, wasm, ran, ticks, unseen>>

LeftoverEnds(r) ==
    /\ r \in leftover /\ wasm = "none" /\ left > 0 /\ leftover' = leftover \ {r}
    /\ UNCHANGED <<job, reply, age, left, wasm, ran, ticks, unseen>>

Resume ==               \* a guest task comes back from a host call
    /\ wasm = "none" /\ ran' = 0
    /\ \/ Running # {} /\ wasm' = "request"
       \/ leftover # {} /\ wasm' = "leftover"
    /\ UNCHANGED <<job, reply, age, left, leftover, ticks, unseen>>

(* and goes into another in time: a loop that waits on the tick turns on    *)
(* one that came meanwhile.                                                 *)
Yield ==
    /\ wasm # "none" /\ left > 0 /\ wasm' = "none" /\ ran' = 0
    /\ left' = IF unseen /\ Running # {} THEN EpochTicks ELSE left
    /\ unseen' = FALSE
    /\ UNCHANGED <<job, reply, age, leftover, ticks>>

(* run_concurrent fails, the store goes with what is in flight, and the     *)
(* worker builds another.                                                   *)
Trap ==
    /\ wasm # "none" /\ left = 0
    /\ job' = [r \in Requests |-> IF r \in Running THEN "done" ELSE job[r]]
    /\ reply' = [r \in Requests |->
         IF r \in Running /\ reply[r] = "none" THEN "500" ELSE reply[r]]
    /\ left' = EpochTicks /\ wasm' = "none" /\ ran' = 0 /\ leftover' = {}
    /\ unseen' = FALSE /\ UNCHANGED <<age, ticks>>

EpochTick ==
    /\ "epoch" \notin ticks /\ ticks' = ticks \cup {"epoch"}
    /\ left' = IF left > 0 THEN left - 1 ELSE 0
    /\ UNCHANGED <<job, reply, age, wasm, ran, leftover, unseen>>

(* A busy loop turns on the tick; an idle one waits for a job alone, and    *)
(* one whose guest holds the thread does not turn.                          *)
TickTurnsLoop_Always == TRUE
TickTurnsLoop == Running # {} /\ wasm = "none"

ServerTick ==
    /\ "server" \notin ticks /\ ticks' = ticks \cup {"server"}
    /\ reply' = [r \in Requests |->
         IF job[r] \in {"queued", "running"} /\ reply[r] = "none" /\ age[r] >= Timeout
         THEN "504" ELSE reply[r]]
    /\ left' = IF TickTurnsLoop THEN EpochTicks ELSE left
    /\ unseen' = (wasm # "none")
    /\ UNCHANGED <<job, age, wasm, ran, leftover>>

Second ==
    /\ ticks = {"epoch", "server"} /\ ticks' = {}
    /\ ~(wasm # "none" /\ left = 0)
    /\ age' = [r \in Requests |->
         IF job[r] \in {"queued", "running"} /\ age[r] < Timeout THEN age[r] + 1 ELSE age[r]]
    /\ ran' = IF wasm # "none" /\ ran < EpochTicks THEN ran + 1 ELSE ran
    /\ UNCHANGED <<job, reply, left, wasm, leftover, unseen>>

Time == EpochTick \/ ServerTick \/ Second

Next ==
    \/ \E r \in Requests :
         Arrive(r) \/ Take(r) \/ Finish(r) \/ Abandon(r) \/ LeftoverEnds(r)
    \/ Resume \/ Yield \/ Trap \/ Time

(* The clock and the trap; the guest never has to yield.                    *)
Spec == Init /\ [][Next]_vars /\ WF_vars(Time) /\ WF_vars(Trap)

-----------------------------------------------------------------------------
(* serve.rs:805: the grace lets the 504 precede the trap, so no request in  *)
(* flight learns of a runaway guest by a 500.                               *)
TimeoutPrecedesTrap == \A r \in Requests : reply[r] # "500"

(* A trap that takes requests in flight with it comes of a guest that ran   *)
(* on for the whole of --timeout.                                           *)
BusyTrapIsARunaway == [][Trap /\ Running # {} => ran >= Timeout]_vars

(* A guest that runs away holds its worker for a bounded time.              *)
RunawayEnds == wasm # "none" ~> wasm = "none"
=============================================================================
