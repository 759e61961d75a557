----------------------------- MODULE TestPipeline -----------------------------
(***************************************************************************)
(* wado-cli/src/test.rs: the pipeline of `wado test`.  Three stages of     *)
(* spawned tasks, joined by bounded channels, share a budget of CPU        *)
(* permits and one of loaded modules; collectors drain what comes out.     *)
(* A stage is a loop that keeps up to its number of tasks going, and takes *)
(* in none while it waits for room to send.  Channels are sets here: no    *)
(* property depends on their order.                                        *)
(***************************************************************************)
EXTENDS Naturals, FiniteSets

CONSTANTS Files, MaxTests,                      \* bound: tests in a file
          CompileJobs, LoadJobs, ExecuteJobs,   \* tasks of a stage
          Cpus                                  \* the CPU budget

ASSUME PipelineAssumption ==
    /\ IsFiniteSet(Files) /\ MaxTests \in Nat
    /\ {CompileJobs, LoadJobs, ExecuteJobs, Cpus} \subseteq Nat \ {0}

VARIABLES file,         \* where each file is, and the channel it goes to
          test,         \* where each test is
          stages,       \* the stages that have not returned
          mode          \* "run"; "compile" under --no-run; "panicked"

vars == <<file, test, stages, mode>>

Tests == Files \X (1..MaxTests)
Stages == {"compile", "load", "execute"}
Sinks == {"todo", "cfail", "lfail", "result"}

Jobs(s) ==
    CASE s = "compile" -> CompileJobs [] s = "load" -> LoadJobs [] s = "execute" -> ExecuteJobs

Capacity(channel) ==
    CASE channel = "loaded" -> LoadJobs
      [] channel = "result" -> 2 * ExecuteJobs
      [] OTHER -> CompileJobs

-----------------------------------------------------------------------------
(* Tasks: a file is one in the first two stages, a test in the third.       *)

At(s, places) ==
    IF s = "execute" THEN {t \in Tests : test[t] \in places}
    ELSE {f \in Files : file[f].stage = s /\ file[f].at \in places}

(* What buffer_unordered holds, finished tasks included.                    *)
InFlight(s) == At(s, {"task", "half", "working", "finished"})

(* The loop is parked on a send.                                            *)
Parked(s) == At(s, {"sending"}) # {}

TakesIn(s) == ~Parked(s) /\ Cardinality(InFlight(s)) < Jobs(s)

Sent(channel) ==
    {f \in Files : file[f].at = "sent" /\ file[f].to = channel}
        \cup {t \in Tests : test[t] = "sent" /\ channel = "result"}

Room(channel) == Cardinality(Sent(channel)) < Capacity(channel)

-----------------------------------------------------------------------------
(* Permits.                                                                 *)

(* The order a load task takes them in.                                     *)
Acquires_CpuFirst == <<"cpu", "modules">>
Acquires == <<"modules", "cpu">>

(* Jobs hold the module they came from until their task ends.               *)
Needed(f) == \E t \in Tests : t[1] = f /\ test[t] \in {"job", "task", "working"}

Holding_UntilLoaded(permit) ==
    {f \in At("load", {"working"}) : permit \in {"cpu", "modules"}}
        \cup {f \in At("load", {"half"}) : Acquires[1] = permit}
        \cup {x \in At("compile", {"working"}) \cup At("execute", {"working"}) : permit = "cpu"}
Holding(permit) ==
    {f \in At("load", {"working"}) : permit \in {"cpu", "modules"}}
        \cup {f \in At("load", {"half"}) : Acquires[1] = permit}
        \cup {x \in At("compile", {"working"}) \cup At("execute", {"working"}) : permit = "cpu"}
        \cup {f \in Files : /\ file[f].to = "loaded" \/ Needed(f)
                            /\ permit = "modules"}

Budget(permit) == IF permit = "cpu" THEN Cpus ELSE CompileJobs + ExecuteJobs

Free(permit) == Cardinality(Holding(permit)) < Budget(permit)

-----------------------------------------------------------------------------
Init ==
    /\ file = [f \in Files |-> [stage |-> "compile", at |-> "path", to |-> "none"]]
    /\ test = [t \in Tests |-> "none"]
    /\ stages = Stages /\ mode \in {"run", "compile"}

Move(f, from, place) ==
    /\ file[f].at = from /\ file' = [file EXCEPT ![f].at = place]
    /\ UNCHANGED <<test, stages, mode>>

Turn(t, from, place) ==
    /\ test[t] = from /\ test' = [test EXCEPT ![t] = place]
    /\ UNCHANGED <<file, stages, mode>>

(* run_compile_stage.                                                       *)

SpawnCompile(f) == TakesIn("compile") /\ Move(f, "path", "task")

Compile(f) == f \in At("compile", {"task"}) /\ Free("cpu") /\ Move(f, "task", "working")

(* A task ends with where its outcome goes.                                 *)
Ends(f, s, channels) ==
    /\ f \in At(s, {"working"})
    /\ \E channel \in channels :
         file' = [file EXCEPT ![f].at = "finished", ![f].to = channel]
    /\ UNCHANGED <<test, stages, mode>>

Compiled(f) == Ends(f, "compile", {"artifact", "todo", "cfail"})

(* run_load_stage; under --no-run artifacts are received and dropped.       *)

SpawnLoad(f) ==
    /\ f \in Sent("artifact") /\ mode = "run" /\ TakesIn("load")
    /\ file' = [file EXCEPT ![f] = [stage |-> "load", at |-> "task", to |-> "none"]]
    /\ UNCHANGED <<test, stages, mode>>

DropArtifact(f) == f \in Sent("artifact") /\ mode = "compile" /\ Move(f, "sent", "dropped")

AcquireFirst(f) == f \in At("load", {"task"}) /\ Free(Acquires[1]) /\ Move(f, "task", "half")
Load(f) == f \in At("load", {"half"}) /\ Free(Acquires[2]) /\ Move(f, "half", "working")

Loaded(f) == Ends(f, "load", {"loaded", "lfail"})

(* run_execute_stage: flat_map opens a module once the jobs of the one      *)
(* before it were taken.                                                    *)

Open(f) ==
    /\ f \in Sent("loaded") /\ TakesIn("execute") /\ At("execute", {"job"}) = {}
    /\ file' = [file EXCEPT ![f] = [stage |-> "execute", at |-> "opened", to |-> "none"]]
    /\ \E n \in 0..MaxTests :
         test' = [t \in Tests |-> IF t[1] = f /\ t[2] <= n THEN "job" ELSE test[t]]
    /\ UNCHANGED <<stages, mode>>

SpawnTest(t) == TakesIn("execute") /\ Turn(t, "job", "task")
RunTest(t) == Free("cpu") /\ Turn(t, "task", "working")
TestEnds(t) == Turn(t, "working", "finished")

-----------------------------------------------------------------------------
(* The loops, their returns and the collectors.                             *)

Take(x) ==
    \/ x \in Files /\ ~Parked(file[x].stage) /\ Move(x, "finished", "sending")
    \/ x \in Tests /\ ~Parked("execute") /\ Turn(x, "finished", "sending")

Send(x) ==
    \/ x \in Files /\ Room(file[x].to) /\ Move(x, "sending", "sent")
    \/ x \in Tests /\ Room("result") /\ Turn(x, "sending", "sent")

Idle(s) == InFlight(s) = {} /\ ~Parked(s)

(* A stage ends with its input: when the senders are gone and all is taken. *)
NoInput_Empty(s) ==
    CASE s = "compile" -> \A f \in Files : file[f].at # "path"
      [] s = "load" -> Sent("artifact") = {} /\ \E f \in Files : file[f].at # "path"
      [] s = "execute" -> /\ "load" \notin stages \/ mode = "compile"
                          /\ Sent("loaded") = {} /\ At("execute", {"job"}) = {}
NoInput(s) ==
    CASE s = "compile" -> \A f \in Files : file[f].at # "path"
      [] s = "load" -> "compile" \notin stages /\ Sent("artifact") = {}
      [] s = "execute" -> /\ "load" \notin stages \/ mode = "compile"
                          /\ Sent("loaded") = {} /\ At("execute", {"job"}) = {}

Return(s) ==
    /\ s \in stages /\ NoInput(s) /\ Idle(s)
    /\ stages' = stages \ {s} /\ UNCHANGED <<file, test, mode>>

Collect(x) ==
    \/ x \in Files /\ file[x].to \in Sinks /\ Move(x, "sent", "collected")
    \/ x \in Tests /\ Turn(x, "sent", "collected")

(* A panic in a task ends the run, whatever else is under way.              *)
Panic ==
    /\ \E s \in Stages : At(s, {"working"}) # {}
    /\ mode' = "panicked" /\ UNCHANGED <<file, test, stages>>

Next ==
    /\ mode # "panicked"
    /\ \/ \E f \in Files :
            \/ "compile" \in stages /\ (SpawnCompile(f) \/ Compile(f) \/ Compiled(f))
            \/ "load" \in stages
               /\ (SpawnLoad(f) \/ DropArtifact(f) \/ AcquireFirst(f) \/ Load(f) \/ Loaded(f))
            \/ "execute" \in stages /\ Open(f)
            \/ Take(f) \/ Send(f) \/ Collect(f)
       \/ \E t \in Tests :
            SpawnTest(t) \/ RunTest(t) \/ TestEnds(t) \/ Take(t) \/ Send(t) \/ Collect(t)
       \/ \E s \in Stages : Return(s)
       \/ Panic

(* Nothing in a run is undone, so that something goes on is all it needs.   *)
Spec == Init /\ [][Next]_vars /\ WF_vars(Next)

-----------------------------------------------------------------------------
Places == {"path", "task", "half", "working", "finished", "sending", "sent",
           "collected", "dropped", "opened"}
TestPlaces == {"none", "job", "task", "working", "finished", "sending", "sent", "collected"}
Channels == Sinks \cup {"artifact", "loaded"}

TypeOK ==
    /\ file \in [Files -> [stage : Stages, at : Places, to : Channels \cup {"none"}]]
    /\ test \in [Tests -> TestPlaces]
    /\ stages \subseteq Stages /\ mode \in {"run", "compile", "panicked"}

(* What has been loaded, in a channel or under test, stays within the       *)
(* budget: peak memory is bounded however far the stages run apart.         *)
ModulesBounded ==
    Cardinality(At("load", {"working"}) \cup {f \in Files : file[f].to = "loaded" \/ Needed(f)})
        <= CompileJobs + ExecuteJobs

(* Once the stages have returned and the sinks are drained, each file and   *)
(* each of its tests was collected: none is lost at a stage's end.          *)
Over == stages = {} /\ \A c \in Sinks : Sent(c) = {}
AllReported ==
    Over => /\ \A f \in Files : file[f].at \in {"collected", "opened", "dropped"}
            /\ \A t \in Tests : test[t] \in {"none", "collected"}

(* No cycle of full channels, parked loops and permits stops the run.       *)
RunEnds == <>(mode = "panicked" \/ Over)
=============================================================================
