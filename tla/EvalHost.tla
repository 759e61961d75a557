------------------------------- MODULE EvalHost -------------------------------
(***************************************************************************)
(* wado-cli/src/eval_host.rs: the `core:eval` host of one `wado test` run, *)
(* and its calls by the tests of test.rs.  Tests and evaluations share one *)
(* budget of CPU permits; a call gives its test's permit back and takes    *)
(* one for each piece of its own work.  Calls with one key share a slot: a *)
(* once-cell that the first to reach it fills.  A compile past its limit   *)
(* goes on by itself, keeping its permit as far as strand permits allow.   *)
(* A test whose own time was up as it entered `eval` is dropped inside.    *)
(***************************************************************************)
EXTENDS Naturals, FiniteSets

CONSTANTS Tests, Keys,
          Cpus,         \* permits of the budget: --parallel
          MaxCalls,     \* bound: calls of eval by one test
          Slow          \* tests whose time may be up as they enter eval

ASSUME EvalAssumption ==
    /\ IsFiniteSet(Tests) /\ Slow \subseteq Tests
    /\ Cpus \in Nat \ {0} /\ MaxCalls \in Nat \ {0}

VARIABLES at,           \* where each test is, in its body or inside eval
          call,         \* its latest call: its number and key
          slot,         \* the slot the call took; none outside eval
          overdue,      \* tests in eval whose own time is up
          slots,        \* of each key, the slot in the map
          resolved,     \* slots whose cell is filled
          cache,        \* keys with an outcome on disk
          thread,       \* of each call, its compile's thread
          kept,         \* the permits held for that compile
          stranded,     \* compiles past the limit, to be joined at the end
          running,      \* AOT compiles and runs on blocking threads
          run           \* the run: on, over, or ended by a panic

tests == <<at, call, slot, overdue>>
compiles == <<thread, kept, stranded>>
vars == <<tests, slots, resolved, cache, compiles, running, run>>

Calls == Tests \X (1..MaxCalls)
None == <<>>

(* The stages of a call, in the cell's initializer and around it.           *)
Filling == {"to compile", "compiling", "to run", "evaluating"}
Inside == {"slot", "back"} \cup Filling

Current(t) == <<t, call[t].n>>

TypeOK ==
    /\ at \in [Tests -> {"queued", "body", "done"} \cup Inside]
    /\ call \in [Tests -> [n : 0..MaxCalls, key : Keys]]
    /\ slot \in [Tests -> Calls \cup {None}] /\ overdue \subseteq Slow
    /\ slots \in [Keys -> Calls \cup {None}] /\ resolved \subseteq Calls /\ cache \subseteq Keys
    /\ thread \in [Calls -> {"none", "working", "hung", "ended", "panicked"}]
    /\ kept \in [Calls -> SUBSET {"cpu", "strand"}]
    /\ stranded \subseteq Calls /\ running \subseteq Calls
    /\ run \in {"on", "over", "panicked"}

Init ==
    /\ at = [t \in Tests |-> "queued"]
    /\ \E k \in Keys : call = [t \in Tests |-> [n |-> 0, key |-> k]]
    /\ slot = [t \in Tests |-> None] /\ overdue = {}
    /\ slots = [k \in Keys |-> None] /\ resolved = {} /\ cache = {}
    /\ thread = [c \in Calls |-> "none"] /\ kept = [c \in Calls |-> {}]
    /\ stranded = {} /\ running = {} /\ run = "on"

-----------------------------------------------------------------------------
(* Permits.                                                                 *)

Alive(c) == thread[c] \in {"working", "hung"}

(* `held` is shared by the compile's thread and the call that awaits it.    *)
Awaited(c) == at[c[1]] = "compiling" /\ Current(c[1]) = c

Keeping(permit) == {c \in Calls : permit \in kept[c] /\ (Alive(c) \/ Awaited(c))}

CpuFree ==
    Cardinality({t \in Tests : at[t] = "body"}) + Cardinality(Keeping("cpu"))
        + Cardinality(running) < Cpus

StrandFree_All == Cardinality(Keeping("strand")) < Cpus
StrandFree == Cardinality(Keeping("strand")) < Cpus - 1

-----------------------------------------------------------------------------
(* A test, outside eval.                                                    *)

Go(t, from, to) == at[t] = from /\ at' = [at EXCEPT ![t] = to]

Start(t) ==
    /\ CpuFree /\ Go(t, "queued", "body")
    /\ UNCHANGED <<call, slot, overdue, slots, resolved, cache, compiles, running, run>>

(* It returns, traps, or runs out of time in its own code.                  *)
Finish(t) ==
    /\ Go(t, "body", "done")
    /\ UNCHANGED <<call, slot, overdue, slots, resolved, cache, compiles, running, run>>

Enter(t, k) ==
    LET c == <<t, call[t].n + 1>>
        live == IF slots[k] = None THEN c ELSE slots[k]
    IN  /\ call[t].n < MaxCalls /\ Go(t, "body", "slot")
        /\ call' = [call EXCEPT ![t] = [n |-> c[2], key |-> k]]
        /\ slots' = [slots EXCEPT ![k] = live] /\ slot' = [slot EXCEPT ![t] = live]
        /\ \/ UNCHANGED overdue
           \/ t \in Slow /\ overdue' = overdue \cup {t}
        /\ UNCHANGED <<resolved, cache, compiles, running, run>>

(* The test is dropped where it waits, and with it what the call awaits.    *)
Drop(t) ==
    /\ t \in overdue /\ at[t] \in Inside
    /\ at' = [at EXCEPT ![t] = "done"] /\ slot' = [slot EXCEPT ![t] = None]
    /\ UNCHANGED <<call, overdue, slots, resolved, cache, compiles, running, run>>

-----------------------------------------------------------------------------
(* EvalHost::outcome, cached_or_evaluate and compile.                       *)

Filler(s) == {t \in Tests : slot[t] = s /\ at[t] \in Filling}

(* The cell's initializer: an entry that still holds, or an evaluation.     *)
Begin(t) ==
    /\ at[t] = "slot" /\ slot[t] \notin resolved /\ Filler(slot[t]) = {}
    /\ \/ /\ call[t].key \in cache /\ resolved' = resolved \cup {slot[t]}
          /\ UNCHANGED at
       \/ at' = [at EXCEPT ![t] = "to compile"] /\ UNCHANGED resolved
    /\ UNCHANGED <<call, slot, overdue, slots, cache, compiles, running, run>>

(* The cell is filled; a timeout, or reads nothing vouches for, is not kept. *)
Resolve(t, written) ==
    /\ at' = [at EXCEPT ![t] = "slot"] /\ resolved' = resolved \cup {slot[t]}
    /\ cache' = cache \cup written

StartCompile(t) ==
    /\ CpuFree /\ Go(t, "to compile", "compiling")
    /\ \E how \in {"working", "hung"} : thread' = [thread EXCEPT ![Current(t)] = how]
    /\ kept' = [kept EXCEPT ![Current(t)] = {"cpu"}]
    /\ UNCHANGED <<call, slot, overdue, slots, resolved, cache, stranded, running, run>>

ThreadEnds(c) ==
    /\ thread[c] = "working"
    /\ \E how \in {"ended", "panicked"} : thread' = [thread EXCEPT ![c] = how]
    /\ UNCHANGED <<tests, slots, resolved, cache, kept, stranded, running, run>>

(* What the thread reported, or its panic, which goes on in the test's task *)
(* and ends the run.                                                        *)
TakeReport(t) ==
    /\ at[t] = "compiling"
    /\ \/ /\ thread[Current(t)] = "ended"
          /\ at' = [at EXCEPT ![t] = "to run"] /\ UNCHANGED <<resolved, cache, run>>
       \/ /\ thread[Current(t)] = "ended"
          /\ \E written \in {{}, {call[t].key}} : Resolve(t, written)
          /\ UNCHANGED run
       \/ /\ thread[Current(t)] = "panicked"
          /\ run' = "panicked" /\ UNCHANGED <<at, resolved, cache>>
    /\ UNCHANGED <<call, slot, overdue, slots, compiles, running>>

Abandon_Unjoined(t) ==
    /\ at[t] = "compiling" /\ Alive(Current(t))
    /\ kept' = [kept EXCEPT ![Current(t)] = IF StrandFree THEN @ \cup {"strand"} ELSE {}]
    /\ Resolve(t, {})
    /\ UNCHANGED <<call, slot, overdue, slots, thread, stranded, running, run>>

(* COMPILE_TIME_LIMIT passed.                                               *)
Abandon(t) ==
    /\ at[t] = "compiling" /\ Alive(Current(t))
    /\ kept' = [kept EXCEPT ![Current(t)] = IF StrandFree THEN @ \cup {"strand"} ELSE {}]
    /\ stranded' = stranded \cup {Current(t)}
    /\ Resolve(t, {})
    /\ UNCHANGED <<call, slot, overdue, slots, thread, running, run>>

-----------------------------------------------------------------------------
(* EvalHost::evaluate, and the way back to the test.                        *)

StartRun(t) ==
    /\ CpuFree /\ Go(t, "to run", "evaluating")
    /\ running' = running \cup {Current(t)}
    /\ UNCHANGED <<call, slot, overdue, slots, resolved, cache, compiles, run>>

(* Fuel and the ceiling end every run.  Nobody hears of one whose call was  *)
(* dropped.                                                                 *)
RunEnds(c) ==
    LET t == c[1]
        heard == at[t] = "evaluating" /\ Current(t) = c
    IN  /\ c \in running /\ running' = running \ {c}
        /\ \/ /\ heard /\ UNCHANGED run
              /\ \E written \in {{}, {call[t].key}} : Resolve(t, written)
           \/ heard /\ run' = "panicked" /\ UNCHANGED <<at, resolved, cache>>
           \/ ~heard /\ UNCHANGED <<at, resolved, cache, run>>
        /\ UNCHANGED <<call, slot, overdue, slots, compiles>>

(* The slot leaves the map, unless a newer one has taken its place.         *)
Leave_Any(t) ==
    /\ slot[t] \in resolved /\ Go(t, "slot", "back")
    /\ slots' = [slots EXCEPT ![call[t].key] = None]
    /\ slot' = [slot EXCEPT ![t] = None]
    /\ UNCHANGED <<call, overdue, resolved, cache, compiles, running, run>>
Leave(t) ==
    /\ slot[t] \in resolved /\ Go(t, "slot", "back")
    /\ slots' = [slots EXCEPT ![call[t].key] = IF @ = slot[t] THEN None ELSE @]
    /\ slot' = [slot EXCEPT ![t] = None]
    /\ UNCHANGED <<call, overdue, resolved, cache, compiles, running, run>>

Return(t) ==
    /\ CpuFree /\ Go(t, "back", "body") /\ overdue' = overdue \ {t}
    /\ UNCHANGED <<call, slot, slots, resolved, cache, compiles, running, run>>

(* The host drops with the run, and joins the abandoned compiles that ended. *)
Close ==
    /\ \A t \in Tests : at[t] = "done"
    /\ running = {}
    /\ run' = IF \E c \in stranded : thread[c] = "panicked" THEN "panicked" ELSE "over"
    /\ UNCHANGED <<tests, slots, resolved, cache, compiles, running>>

-----------------------------------------------------------------------------
TakePermit(t) == Start(t) \/ StartCompile(t) \/ StartRun(t) \/ Return(t)

GoOn(t) ==
    \/ Finish(t) \/ Begin(t) \/ TakeReport(t) \/ Abandon(t) \/ Leave(t)
    \/ \E k \in Keys : Enter(t, k)

HostStep == \E c \in Calls : ThreadEnds(c) \/ RunEnds(c)

Next ==
    /\ run = "on"
    /\ \/ \E t \in Tests : TakePermit(t) \/ GoOn(t) \/ Drop(t)
       \/ HostStep
       \/ Close

(* The semaphore is first in, first out: who waits for a permit gets one if *)
(* permits keep coming back.  A test's own code ends within its timeout, a  *)
(* run within its fuel, a compile that does not hang by itself.             *)
On(action) == run = "on" /\ action
Fairness ==
    /\ \A t \in Tests : SF_vars(On(TakePermit(t))) /\ WF_vars(On(GoOn(t)))
    /\ WF_vars(On(HostStep))

Spec == Init /\ [][Next]_vars
FairSpec == Spec /\ Fairness

-----------------------------------------------------------------------------
(* Calls sharing a key at once evaluate once.                               *)
OneEvaluation ==
    \A t, u \in Tests : at[t] \in Filling /\ at[u] \in Filling /\ call[t].key = call[u].key
        => t = u

(* A compile whose call was dropped: no one awaits its thread, or joins it.  *)
Forgotten(c) ==
    /\ thread[c] # "none" /\ c \notin stranded
    /\ c[1] \in overdue /\ at[c[1]] = "done" /\ Current(c[1]) = c

(* A panic in a compile that a call awaited, or gave up on, ends the run.   *)
PanicsSurface ==
    run = "over" => \A c \in Calls : thread[c] = "panicked" => Forgotten(c)

(* No compile that hangs takes the budget from the rest, so every test ends: *)
(* unless the hung one is forgotten, for then no strand permit limits what  *)
(* it keeps.                                                                *)
AllEnd == <>(run = "panicked" \/ \A t \in Tests : at[t] = "done")
TestsEnd == [](\A c \in Calls : thread[c] = "hung" => ~Forgotten(c)) => AllEnd

(* What eval_host.rs:102 says: compiles that never end cannot stall the run. *)
HangsCannotStall == AllEnd
=============================================================================
