------------------------------ MODULE WorkerTime ------------------------------
(***************************************************************************)
(* The time of one worker of Serve, beside the pool's own steps: `Striped` *)
(* are the requests the dispatcher gives it.                               *)
(***************************************************************************)
EXTENDS Integers

CONSTANTS Striped, Timeout, Grace

VARIABLES job, reply, age, left, wasm, ran, leftover, ticks, unseen

Epoch == INSTANCE ServeEpoch WITH Requests <- Striped

(* With less of a grace the trap can come ahead of the 504.                 *)
ASSUME TimeAssumption == Epoch!EpochAssumption /\ Grace >= 2

TimeSpec == Epoch!Spec

-----------------------------------------------------------------------------
(* The 504 precedes the epoch trap, a trap takes requests in flight with it *)
(* only after a guest ran on for the whole timeout, and the worker is not   *)
(* held for longer: see ServeEpoch.                                         *)
TimeoutPrecedesTrap == Epoch!TimeoutPrecedesTrap
BusyTrapIsARunaway == Epoch!BusyTrapIsARunaway
RunawayEnds == Epoch!RunawayEnds
=============================================================================
