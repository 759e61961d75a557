------------------------------- MODULE Ticker -------------------------------
(***************************************************************************)
(* wado-host/src/ticker.rs: an OS thread that calls `tick` every interval  *)
(* until its owner drops it.  The owner's two calls, `restart` and `drop`, *)
(* meet the thread at one mutex and one condition variable.                *)
(*                                                                         *)
(* A critical section is one step.  Time is discrete: `age` is how long    *)
(* the wait in flight has lasted and `quiet` how long ago the last         *)
(* `restart` set its flag, both counted up to Interval, past which nothing *)
(* tells two instants apart.                                               *)
(***************************************************************************)
EXTENDS Naturals

CONSTANTS Interval,     \* the interval in clock steps; 0 is Duration::ZERO
          MaxRestarts   \* bound: how often the owner calls `restart`

ASSUME TickerAssumption == Interval \in Nat /\ MaxRestarts \in Nat

VARIABLES
    control,    \* the flags of TickerControl that are set
    pc,         \* the thread: at the loop head, waiting on the condvar, woken,
                \* about to tick, ticking, or done
    owner,      \* between calls, in one with its notification still to send,
                \* joining the thread, or past the drop
    age, quiet, \* the clocks
    restarts    \* calls of `restart` so far

vars == <<control, pc, owner, age, quiet, restarts>>

TypeOK ==
    /\ control \subseteq {"stopped", "restarted"}
    /\ pc \in {"head", "waiting", "woken", "due", "ticking", "done"}
    /\ owner \in {"free", "restarting", "dropping", "joining", "dropped"}
    /\ age \in 0..Interval /\ quiet \in 0..Interval
    /\ restarts \in 0..MaxRestarts

Init ==
    /\ control = {} /\ pc = "head" /\ owner = "free"
    /\ age = 0 /\ quiet = Interval /\ restarts = 0

-----------------------------------------------------------------------------
(* The thread.  wait_timeout_while tests the flags before the clock, on     *)
(* entry and after every wake, so a flag set before it has the lock again   *)
(* wins over the timeout, and `timed_out` is then false.                    *)

Leave_TimeoutWins ==
    \/ "stopped" \in control /\ pc' = "done" /\ UNCHANGED control
    \/ "stopped" \notin control /\ pc' = "due" /\ control' = {}
Leave_FlagKept ==
    /\ pc' = IF "stopped" \in control THEN "done" ELSE IF control = {} THEN "due" ELSE "head"
    /\ UNCHANGED control
Leave ==
    \/ "stopped" \in control /\ pc' = "done" /\ UNCHANGED control
    \/ /\ "stopped" \notin control
       /\ pc' = IF "restarted" \in control THEN "head" ELSE "due"
       /\ control' = control \ {"restarted"}

Look(elapsed) ==
    /\ IF control # {} \/ elapsed THEN Leave ELSE pc' = "waiting" /\ UNCHANGED control
    /\ UNCHANGED <<owner, quiet, restarts>>

Enter == pc = "head" /\ age' = 0 /\ Look(Interval = 0)

Relock == pc = "woken" /\ Look(age = Interval) /\ UNCHANGED age

Wake ==                 \* the condvar's timeout, or a spurious wake
    /\ pc = "waiting" /\ pc' = "woken"
    /\ UNCHANGED <<control, owner, age, quiet, restarts>>

StartTick ==
    /\ pc = "due" /\ pc' = "ticking"
    /\ UNCHANGED <<control, owner, age, quiet, restarts>>

EndTick ==              \* `tick` returns, or its panic ends the thread
    /\ pc = "ticking" /\ pc' \in {"head", "done"}
    /\ UNCHANGED <<control, owner, age, quiet, restarts>>

-----------------------------------------------------------------------------
(* The owner sets a flag under the lock, and notifies once it let it go.    *)

Restart ==
    /\ restarts < MaxRestarts
    /\ owner = "free" /\ owner' = "restarting"
    /\ control' = control \cup {"restarted"}
    /\ restarts' = restarts + 1 /\ quiet' = 0
    /\ UNCHANGED <<pc, age>>

Drop ==
    /\ owner = "free" /\ owner' = "dropping"
    /\ control' = control \cup {"stopped"}
    /\ UNCHANGED <<pc, age, quiet, restarts>>

NotifyAll_Lost ==
    /\ owner \in {"restarting", "dropping"}
    /\ owner' = IF owner = "dropping" THEN "joining" ELSE "free"
    /\ UNCHANGED <<control, pc, age, quiet, restarts>>
NotifyAll ==
    /\ owner \in {"restarting", "dropping"}
    /\ owner' = IF owner = "dropping" THEN "joining" ELSE "free"
    /\ pc' = IF pc = "waiting" THEN "woken" ELSE pc
    /\ UNCHANGED <<control, age, quiet, restarts>>

Join_Detached ==
    /\ owner = "joining" /\ owner' = "dropped"
    /\ UNCHANGED <<control, pc, age, quiet, restarts>>
Join ==
    /\ owner = "joining" /\ pc = "done" /\ owner' = "dropped"
    /\ UNCHANGED <<control, pc, age, quiet, restarts>>

Clock ==
    /\ age < Interval \/ quiet < Interval
    /\ age' = IF age < Interval THEN age + 1 ELSE age
    /\ quiet' = IF quiet < Interval THEN quiet + 1 ELSE quiet
    /\ UNCHANGED <<control, pc, owner, restarts>>

Thread == Enter \/ Relock \/ StartTick \/ EndTick
Next == Thread \/ Wake \/ Restart \/ Drop \/ NotifyAll \/ Join \/ Clock

(* The OS runs both threads and `tick` returns.  The condvar's timeout is   *)
(* promised only once the interval has passed, and nothing makes the owner  *)
(* call anything.                                                           *)
Spec ==
    /\ Init /\ [][Next]_vars
    /\ WF_vars(Thread) /\ WF_vars(NotifyAll) /\ WF_vars(Join)
    /\ WF_vars(age = Interval /\ Wake)

TimeGoesOn == WF_vars(Clock)

-----------------------------------------------------------------------------
(* Dropping joins the thread: once `drop` returned, no tick runs or will.   *)
NoTickAfterDrop == owner = "dropped" => pc \notin {"due", "ticking"}

(* A wait ends in a tick only if a whole interval passed since the last     *)
(* `restart`: the flag outlives the tick it could not stop, and a wait      *)
(* begun before the restart never counts.                                   *)
RestartHoldsOff == [][pc' = "due" /\ pc # "due" => quiet = Interval]_vars

(* ticker.rs:10: a drop wakes the thread, so it returns without the clock   *)
(* moving and without the timeout of the wait in flight.                    *)
DropReturns == owner = "joining" ~> owner = "dropped"

(* While time goes on, a ticker nobody drops ticks again and again: its     *)
(* restarts only postpone a tick.                                           *)
KeepsTicking == TimeGoesOn => []<>(pc \in {"ticking", "done"})
=============================================================================
