---------------------------- MODULE TickerProofs ----------------------------
(* For every interval and any number of restarts: types, and that a wait    *)
(* ends in a tick only a whole interval after the last restart.             *)
EXTENDS Ticker, TLAPS

(* A wait nobody has flagged began no earlier than the last restart did, so *)
(* its age never exceeds the time since.                                    *)
WaitBeganAfterRestart == pc \in {"waiting", "woken"} /\ "restarted" \notin control => age <= quiet

IInv == TypeOK /\ WaitBeganAfterRestart

(* Every state of the ticker is well typed and its wait is younger than the *)
(* last restart, unless a restart is still to be seen.                      *)
THEOREM TickerInv == Spec => []IInv
<1>1. Init => IInv
  BY TickerAssumption DEF TickerAssumption, Init, IInv, TypeOK, WaitBeganAfterRestart
<1>2. IInv /\ [Next]_vars => IInv'
  <2> SUFFICES ASSUME IInv, [Next]_vars PROVE IInv'
    OBVIOUS
  <2> USE TickerAssumption DEF TickerAssumption, IInv, TypeOK, WaitBeganAfterRestart
  <2>1. CASE Enter
    <3>1. pc' \in {"head", "due", "done", "waiting"} /\ control' \subseteq control
      BY <2>1 DEF Enter, Look, Leave
    <3>2. age' = 0 /\ UNCHANGED <<owner, quiet, restarts>>
      BY <2>1 DEF Enter, Look
    <3> QED
      BY <3>1, <3>2
  <2>2. CASE Relock
    <3>1. pc' \in {"head", "due", "done", "waiting"} /\ control' \subseteq control
      BY <2>2 DEF Relock, Look, Leave
    <3>2. pc' = "waiting" => UNCHANGED control
      BY <2>2 DEF Relock, Look, Leave
    <3>3. pc = "woken" /\ UNCHANGED <<owner, age, quiet, restarts>>
      BY <2>2 DEF Relock, Look
    <3> QED
      BY <3>1, <3>2, <3>3
  <2>3. CASE StartTick \/ EndTick \/ Wake
    BY <2>3 DEF StartTick, EndTick, Wake
  <2>4. CASE Restart
    BY <2>4 DEF Restart
  <2>5. CASE Drop \/ NotifyAll \/ Join
    BY <2>5 DEF Drop, NotifyAll, Join
  <2>6. CASE Clock
    BY <2>6 DEF Clock
  <2>7. CASE UNCHANGED vars
    BY <2>7 DEF vars
  <2> QED
    BY <2>1, <2>2, <2>3, <2>4, <2>5, <2>6, <2>7 DEF Next, Thread
<1> QED
  BY <1>1, <1>2, PTL DEF Spec

(* A tick is decided on only when a whole interval passed since the last    *)
(* `restart`.                                                               *)
THEOREM TickerRestartHoldsOff == Spec => RestartHoldsOff
<1>1. IInv /\ [Next]_vars => [pc' = "due" /\ pc # "due" => quiet = Interval]_vars
  <2> SUFFICES ASSUME IInv, Next, pc' = "due", pc # "due" PROVE quiet = Interval
    BY DEF vars
  <2> USE TickerAssumption DEF TickerAssumption, IInv, TypeOK, WaitBeganAfterRestart
  <2>1. CASE Enter
    <3>1. control # {} \/ Interval = 0
      BY <2>1 DEF Enter, Look, Leave
    <3>2. control = {}
      BY <2>1, <3>1, control \subseteq {"stopped", "restarted"} DEF Enter, Look, Leave
    <3> QED
      BY <3>1, <3>2
  <2>2. CASE Relock
    <3>1. control = {} /\ pc = "woken" /\ age = Interval
      BY <2>2, control \subseteq {"stopped", "restarted"} DEF Relock, Look, Leave
    <3> QED
      BY <3>1
  <2>3. CASE StartTick \/ EndTick \/ Wake \/ Restart \/ Drop \/ NotifyAll \/ Join \/ Clock
    BY <2>3 DEF StartTick, EndTick, Wake, Restart, Drop, NotifyAll, Join, Clock
  <2> QED
    BY <2>1, <2>2, <2>3 DEF Next, Thread
<1> QED
  BY <1>1, TickerInv, PTL DEF Spec, RestartHoldsOff

(* Once `drop` returned no tick is decided on, running, or to come: the     *)
(* join waited for the thread's end.                                        *)
THEOREM TickerNoTickAfterDrop == Spec => []NoTickAfterDrop
<1> DEFINE Joined == owner = "dropped" => pc = "done"
<1>1. Init => Joined
  BY DEF Init
<1>2. Joined /\ [Next]_vars => Joined'
  <2> SUFFICES ASSUME Joined, [Next]_vars PROVE Joined'
    OBVIOUS
  <2>1. CASE Thread
    BY <2>1 DEF Thread, Enter, Relock, Look, StartTick, EndTick
  <2>2. CASE Wake \/ Restart \/ Drop \/ NotifyAll \/ Join \/ Clock
    BY <2>2 DEF Wake, Restart, Drop, NotifyAll, Join, Clock
  <2>3. CASE UNCHANGED vars
    BY <2>3 DEF vars
  <2> QED
    BY <2>1, <2>2, <2>3 DEF Next
<1>3. Joined => NoTickAfterDrop
  BY DEF NoTickAfterDrop
<1> QED
  BY <1>1, <1>2, <1>3, PTL DEF Spec
=============================================================================
