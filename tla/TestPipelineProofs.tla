-------------------------- MODULE TestPipelineProofs --------------------------
(***************************************************************************)
(* Theorems of TestPipeline, for any files, tests and budgets: how many    *)
(* modules are loaded at once, and that no file or test is lost when a     *)
(* stage ends.                                                             *)
(***************************************************************************)
EXTENDS TestPipeline, FiniteSetTheorems, TLAPS

(* A file's stage, and the channel it goes to, agree with where it is.      *)
Placed == \A f \in Files :
    /\ file[f].at \in {"finished", "sending", "sent"} => file[f].to # "none"
    /\ file[f].to = "artifact" => file[f].stage = "compile"
    /\ file[f].to = "loaded" => file[f].stage = "load"
    /\ file[f].at \in {"path", "dropped"} => file[f].stage = "compile"
    /\ file[f].at = "half" => file[f].stage = "load"
    /\ file[f].stage = "execute" => file[f].at = "opened"

Unfinished == {"path", "task", "half", "working", "finished", "sending"}

(* A stage that returned has nothing under way, and nothing will come to it. *)
CompileOver == \A f \in Files : file[f].stage = "compile" => file[f].at \notin Unfinished

LoadOver ==
    /\ "compile" \notin stages
    /\ \A f \in Files :
         /\ file[f].stage = "load" => file[f].at \notin Unfinished
         /\ ~(file[f].at = "sent" /\ file[f].to = "artifact")

NoLoads == mode # "run" /\ \A f \in Files : file[f].stage = "compile"

ExecuteOver ==
    /\ "load" \notin stages \/ NoLoads
    /\ \A f \in Files : ~(file[f].at = "sent" /\ file[f].to = "loaded")
    /\ \A t \in Tests : test[t] \in {"none", "sent", "collected"}

Closed ==
    /\ "compile" \notin stages => CompileOver
    /\ "load" \notin stages => LoadOver
    /\ "execute" \notin stages => ExecuteOver
    /\ mode = "compile" => NoLoads

Inv == TypeOK /\ Placed /\ Closed

-----------------------------------------------------------------------------
(* The step, by what it changes: the place of a file, the place of a test,  *)
(* a module opened, a stage's return, or a panic.                           *)
FileStep(f) ==
    /\ UNCHANGED <<test, stages, mode>>
    /\ \/ "compile" \in stages /\ (SpawnCompile(f) \/ Compile(f) \/ Compiled(f))
       \/ "load" \in stages
          /\ (SpawnLoad(f) \/ DropArtifact(f) \/ AcquireFirst(f) \/ Load(f) \/ Loaded(f))
       \/ ~Parked(file[f].stage) /\ Move(f, "finished", "sending")
       \/ Room(file[f].to) /\ Move(f, "sending", "sent")
       \/ file[f].to \in Sinks /\ Move(f, "sent", "collected")

TestStep(t) ==
    /\ UNCHANGED <<file, stages, mode>>
    /\ \/ SpawnTest(t) \/ RunTest(t) \/ TestEnds(t)
       \/ ~Parked("execute") /\ Turn(t, "finished", "sending")
       \/ Room("result") /\ Turn(t, "sending", "sent")
       \/ Turn(t, "sent", "collected")

LEMMA Steps ==
    ASSUME Next
    PROVE  \/ \E f \in Files : FileStep(f)
           \/ \E t \in Tests : TestStep(t)
           \/ \E f \in Files : "execute" \in stages /\ Open(f)
           \/ \E s \in Stages : Return(s)
           \/ Panic
<1>1. ASSUME NEW x, Take(x) \/ Send(x) \/ Collect(x)
      PROVE  (x \in Files /\ FileStep(x)) \/ (x \in Tests /\ TestStep(x))
  BY <1>1 DEF Take, Send, Collect, FileStep, TestStep, Move, Turn
<1>2. ASSUME NEW f \in Files, "compile" \in stages, SpawnCompile(f) \/ Compile(f) \/ Compiled(f)
      PROVE  FileStep(f)
  BY <1>2 DEF FileStep, SpawnCompile, Compile, Compiled, Ends, Move
<1>3. ASSUME NEW f \in Files, "load" \in stages,
             SpawnLoad(f) \/ DropArtifact(f) \/ AcquireFirst(f) \/ Load(f) \/ Loaded(f)
      PROVE  FileStep(f)
  BY <1>3 DEF FileStep, SpawnLoad, DropArtifact, AcquireFirst, Load, Loaded, Ends, Move
<1>4. ASSUME NEW t \in Tests, SpawnTest(t) \/ RunTest(t) \/ TestEnds(t)
      PROVE  TestStep(t)
  BY <1>4 DEF TestStep, SpawnTest, RunTest, TestEnds, Turn
<1> QED BY <1>1, <1>2, <1>3, <1>4 DEF Next

Records == [stage : Stages, at : Places, to : Channels \cup {"none"}]

Goes(f, from, to) == file[f].at \in from /\ file'[f].at \in to

Same(f) == file'[f].stage = file[f].stage /\ file'[f].to = file[f].to

(* What a step of a file does to its record.                                *)
Compiles(f) ==
    /\ "compile" \in stages /\ file[f].stage = "compile" /\ file'[f].stage = "compile"
    /\ \/ Goes(f, {"path"}, {"task"}) /\ Same(f)
       \/ Goes(f, {"task"}, {"working"}) /\ Same(f)
       \/ Goes(f, {"working"}, {"finished"}) /\ file'[f].to \in {"artifact", "todo", "cfail"}
Loads(f) ==
    /\ "load" \in stages /\ file[f].stage = "load" /\ file'[f].stage = "load"
    /\ \/ Goes(f, {"task"}, {"half"}) /\ Same(f) /\ Free("modules")
       \/ Goes(f, {"half"}, {"working"}) /\ Same(f)
       \/ Goes(f, {"working"}, {"finished"}) /\ file'[f].to \in {"loaded", "lfail"}
Received(f) ==
    /\ "load" \in stages /\ file[f].at = "sent" /\ file[f].to = "artifact"
    /\ \/ mode = "run" /\ file'[f] = [stage |-> "load", at |-> "task", to |-> "none"]
       \/ file'[f].at = "dropped" /\ Same(f)
Leaves(f) ==
    /\ Same(f)
    /\ \/ Goes(f, {"finished"}, {"sending"}) \/ Goes(f, {"sending"}, {"sent"})
       \/ Goes(f, {"sent"}, {"collected"}) /\ file[f].to \in Sinks

LEMMA FileEffect ==
    ASSUME Inv, NEW f \in Files, FileStep(f)
    PROVE  /\ file' \in [Files -> Records] /\ UNCHANGED <<test, stages, mode>>
           /\ \A h \in Files : h # f => file'[h] = file[h]
           /\ Compiles(f) \/ Loads(f) \/ Received(f) \/ Leaves(f)
<1> DEFINE Becomes(g) == file' = [file EXCEPT ![f] = g]
<1>0. file \in [Files -> Records] /\ file[f] \in Records /\ UNCHANGED <<test, stages, mode>>
  BY DEF Inv, TypeOK, FileStep, Records
<1>1. ASSUME NEW g \in Records, Becomes(g)
      PROVE  /\ file' \in [Files -> Records] /\ file'[f] = g
             /\ \A h \in Files : h # f => file'[h] = file[h]
  BY <1>0, <1>1
<1>2. ASSUME NEW a \in Places, file' = [file EXCEPT ![f].at = a]
      PROVE  /\ file' \in [Files -> Records] /\ Same(f) /\ file'[f].at = a
             /\ \A h \in Files : h # f => file'[h] = file[h]
  BY <1>0, <1>2 DEF Records, Same
<1>3. ASSUME NEW c \in Channels, file' = [file EXCEPT ![f].at = "finished", ![f].to = c]
      PROVE  /\ file' \in [Files -> Records] /\ file'[f].to = c /\ file'[f].at = "finished"
             /\ file'[f].stage = file[f].stage
             /\ \A h \in Files : h # f => file'[h] = file[h]
  BY <1>0, <1>3 DEF Records, Places
<1>4. CASE "compile" \in stages /\ (SpawnCompile(f) \/ Compile(f) \/ Compiled(f))
  <2>1. CASE SpawnCompile(f)
    BY <1>2, <1>4, <2>1 DEF SpawnCompile, Move, Inv, Placed, Places, Compiles, Goes, Same
  <2>2. CASE Compile(f)
    BY <1>0, <1>2, <1>4, <2>2 DEF Compile, At, Move, Places, Compiles, Goes, Same
  <2>3. CASE Compiled(f)
    <3>1. PICK c \in {"artifact", "todo", "cfail"} :
            file' = [file EXCEPT ![f].at = "finished", ![f].to = c]
      BY <2>3 DEF Compiled, Ends
    <3>2. file[f].stage = "compile" /\ file[f].at = "working"
      BY <2>3 DEF Compiled, Ends, At
    <3> QED BY <1>0, <1>3, <1>4, <3>1, <3>2 DEF Channels, Sinks, Compiles, Goes
  <2> QED BY <1>4, <2>1, <2>2, <2>3
<1>5. CASE /\ "load" \in stages
           /\ SpawnLoad(f) \/ DropArtifact(f) \/ AcquireFirst(f) \/ Load(f) \/ Loaded(f)
  <2>1. ASSUME f \in Sent("artifact") PROVE file[f].at = "sent" /\ file[f].to = "artifact"
    BY <2>1 DEF Sent
  <2>2. CASE SpawnLoad(f)
    BY <1>0, <1>1, <1>5, <2>1, <2>2 DEF SpawnLoad, Received, Records, Stages, Places
  <2>3. CASE DropArtifact(f)
    BY <1>0, <1>2, <1>5, <2>1, <2>3 DEF DropArtifact, Move, Received, Places
  <2>4. CASE AcquireFirst(f) \/ Load(f)
    BY <1>0, <1>2, <1>5, <2>4 DEF AcquireFirst, Acquires, Load, At, Move, Places, Loads, Goes, Same
  <2>5. CASE Loaded(f)
    <3>1. PICK c \in {"loaded", "lfail"} :
            file' = [file EXCEPT ![f].at = "finished", ![f].to = c]
      BY <2>5 DEF Loaded, Ends
    <3>2. file[f].stage = "load" /\ file[f].at = "working"
      BY <2>5 DEF Loaded, Ends, At
    <3> QED BY <1>0, <1>3, <1>5, <3>1, <3>2 DEF Channels, Sinks, Loads, Goes
  <2> QED BY <1>5, <2>2, <2>3, <2>4, <2>5
<1>6. CASE \/ Move(f, "finished", "sending") \/ Move(f, "sending", "sent")
           \/ file[f].to \in Sinks /\ Move(f, "sent", "collected")
  BY <1>0, <1>2, <1>6 DEF Move, Places, Leaves, Goes
<1> QED BY <1>4, <1>5, <1>6 DEF FileStep

LEMMA TestEffect ==
    ASSUME Inv, NEW t \in Tests, TestStep(t)
    PROVE  /\ test' \in [Tests -> TestPlaces] /\ UNCHANGED <<file, stages, mode>>
           /\ \A u \in Tests : u # t => test'[u] = test[u]
           /\ <<test[t], test'[t]>> \in {<<"job", "task">>, <<"task", "working">>,
                <<"working", "finished">>, <<"finished", "sending">>, <<"sending", "sent">>,
                <<"sent", "collected">>}
<1>1. PICK from, to \in TestPlaces :
        /\ <<from, to>> \in {<<"job", "task">>, <<"task", "working">>, <<"working", "finished">>,
             <<"finished", "sending">>, <<"sending", "sent">>, <<"sent", "collected">>}
        /\ Turn(t, from, to)
  BY DEF TestStep, SpawnTest, RunTest, TestEnds, TestPlaces
<1>2. test \in [Tests -> TestPlaces] /\ UNCHANGED <<file, stages, mode>>
  BY DEF Inv, TypeOK, TestStep
<1> QED BY <1>1, <1>2 DEF Turn

LEMMA OpenEffect ==
    ASSUME Inv, NEW f \in Files, Open(f)
    PROVE  /\ file' \in [Files -> Records] /\ UNCHANGED <<stages, mode>>
           /\ file[f].at = "sent" /\ file[f].to = "loaded"
           /\ file'[f] = [stage |-> "execute", at |-> "opened", to |-> "none"]
           /\ \A h \in Files : h # f => file'[h] = file[h]
           /\ test' \in [Tests -> TestPlaces]
           /\ \A t \in Tests : test'[t] # test[t] => test'[t] = "job" /\ t[1] = f
<1>1. file \in [Files -> Records] /\ test \in [Tests -> TestPlaces]
  BY DEF Inv, TypeOK, Records
<1>2. file[f].at = "sent" /\ file[f].to = "loaded"
  BY DEF Open, Sent
<1>3. PICK n \in 0..MaxTests :
        test' = [t \in Tests |-> IF t[1] = f /\ t[2] <= n THEN "job" ELSE test[t]]
  BY DEF Open
<1>4. test' \in [Tests -> TestPlaces] /\ \A t \in Tests : test'[t] # test[t] => test'[t] = "job" /\ t[1] = f
  BY <1>1, <1>3 DEF TestPlaces
<1>5. /\ UNCHANGED <<stages, mode>>
      /\ file' = [file EXCEPT ![f] = [stage |-> "execute", at |-> "opened", to |-> "none"]]
  BY DEF Open
<1>6. [stage |-> "execute", at |-> "opened", to |-> "none"] \in Records
  BY DEF Records, Stages, Places
<1> QED BY <1>1, <1>2, <1>4, <1>5, <1>6

-----------------------------------------------------------------------------
LEMMA FileKeepsInv ==
    ASSUME Inv, NEW f \in Files, FileStep(f)
    PROVE  Inv'
<1>1. /\ file' \in [Files -> Records] /\ UNCHANGED <<test, stages, mode>>
      /\ \A h \in Files : h # f => file'[h] = file[h]
      /\ Compiles(f) \/ Loads(f) \/ Received(f) \/ Leaves(f)
  BY FileEffect
<1>2. TypeOK'
  BY <1>1 DEF Inv, TypeOK, Records
<1>3. Placed'
  <2> SUFFICES ASSUME NEW h \in Files PROVE Placed!(h)'
    BY DEF Placed
  <2>1. CASE h # f
    BY <1>1, <2>1 DEF Inv, Placed
  <2>2. CASE h = f
    BY <1>1, <2>2 DEF Inv, Placed, Compiles, Loads, Received, Leaves, Goes, Same, Sinks
  <2> QED BY <2>1, <2>2
<1>4. "compile" \notin stages => CompileOver'
  <2> SUFFICES ASSUME "compile" \notin stages, NEW h \in Files, file'[h].stage = "compile"
               PROVE  file'[h].at \notin Unfinished
    BY DEF CompileOver
  <2>1. CASE h # f
    BY <1>1, <2>1 DEF Inv, Closed, CompileOver
  <2>2. CASE h = f
    BY <1>1, <2>2 DEF Inv, Closed, CompileOver, Unfinished, Compiles, Loads, Received, Leaves, Goes, Same
  <2> QED BY <2>1, <2>2
<1>5. "load" \notin stages => LoadOver'
  <2> SUFFICES ASSUME "load" \notin stages, NEW h \in Files
               PROVE  /\ file'[h].stage = "load" => file'[h].at \notin Unfinished
                      /\ ~(file'[h].at = "sent" /\ file'[h].to = "artifact")
    BY <1>1 DEF Inv, Closed, LoadOver
  <2>1. CASE h # f
    BY <1>1, <2>1 DEF Inv, Closed, LoadOver
  <2>2. CASE h = f
    BY <1>1, <2>2 DEF Inv, Closed, CompileOver, LoadOver, Placed, Unfinished,
                      Compiles, Loads, Received, Leaves, Goes, Same
  <2> QED BY <2>1, <2>2
<1>6. NoLoads => NoLoads'
  <2> SUFFICES ASSUME NoLoads, NEW h \in Files PROVE file'[h].stage = "compile"
    BY <1>1 DEF NoLoads
  <2> QED BY <1>1 DEF NoLoads, Compiles, Loads, Received, Leaves, Same
<1>7. "execute" \notin stages => ExecuteOver'
  <2> SUFFICES ASSUME "execute" \notin stages, NEW h \in Files
               PROVE  ~(file'[h].at = "sent" /\ file'[h].to = "loaded")
    BY <1>1, <1>6 DEF Inv, Closed, ExecuteOver
  <2>1. CASE h # f
    BY <1>1, <2>1 DEF Inv, Closed, ExecuteOver
  <2>2. CASE h = f
    BY <1>1, <2>2 DEF Inv, Closed, LoadOver, ExecuteOver, NoLoads, Placed, Unfinished,
                      Compiles, Loads, Received, Leaves, Goes, Same
  <2> QED BY <2>1, <2>2
<1> QED BY <1>1, <1>2, <1>3, <1>4, <1>5, <1>6, <1>7 DEF Inv, Closed

LEMMA TestKeepsInv ==
    ASSUME Inv, NEW t \in Tests, TestStep(t)
    PROVE  Inv'
<1>1. /\ test' \in [Tests -> TestPlaces] /\ UNCHANGED <<file, stages, mode>>
      /\ \A u \in Tests : u # t => test'[u] = test[u]
      /\ <<test[t], test'[t]>> \in {<<"job", "task">>, <<"task", "working">>,
           <<"working", "finished">>, <<"finished", "sending">>, <<"sending", "sent">>,
           <<"sent", "collected">>}
  BY TestEffect
<1>2. TypeOK' /\ Placed'
  BY <1>1 DEF Inv, TypeOK, Placed
<1>3. ExecuteOver => ExecuteOver'
  BY <1>1 DEF ExecuteOver, NoLoads
<1> QED BY <1>1, <1>2, <1>3 DEF Inv, Closed, CompileOver, LoadOver, NoLoads

LEMMA OpenKeepsInv ==
    ASSUME Inv, NEW f \in Files, "execute" \in stages, Open(f)
    PROVE  Inv'
<1>1. /\ file' \in [Files -> Records] /\ UNCHANGED <<stages, mode>>
      /\ file[f].at = "sent" /\ file[f].to = "loaded"
      /\ file'[f] = [stage |-> "execute", at |-> "opened", to |-> "none"]
      /\ \A h \in Files : h # f => file'[h] = file[h]
      /\ test' \in [Tests -> TestPlaces]
  BY OpenEffect
<1>2. TypeOK' /\ Placed'
  BY <1>1 DEF Inv, TypeOK, Placed, Records
<1>3. (CompileOver => CompileOver') /\ (LoadOver => LoadOver')
  BY <1>1 DEF CompileOver, LoadOver, Unfinished
<1>4. ~NoLoads
  BY <1>1 DEF Inv, Placed, NoLoads
<1> QED BY <1>1, <1>2, <1>3, <1>4 DEF Inv, Closed

(* A stage returns with nothing under way, and its input is over for good.  *)
LEMMA ReturnKeepsInv ==
    ASSUME Inv, NEW s \in Stages, Return(s)
    PROVE  Inv'
<1>1. /\ stages' = stages \ {s} /\ UNCHANGED <<file, test, mode>>
      /\ NoInput(s) /\ Idle(s)
  BY DEF Return
<1>2. TypeOK' /\ Placed'
  BY <1>1 DEF Inv, TypeOK, Placed
<1>3. At(s, {"task", "half", "working", "finished"}) = {} /\ At(s, {"sending"}) = {}
  BY <1>1 DEF Idle, InFlight, Parked
<1>4. CASE s = "compile"
  <2>1. CompileOver
    BY <1>1, <1>3, <1>4 DEF NoInput, At, CompileOver, Unfinished
  <2> QED BY <1>1, <1>2, <1>4, <2>1 DEF Inv, Closed, CompileOver, LoadOver, ExecuteOver, NoLoads
<1>5. CASE s = "load"
  <2>1. "compile" \notin stages /\ Sent("artifact") = {}
    BY <1>1, <1>5 DEF NoInput
  <2>2. LoadOver
    BY <1>3, <1>5, <2>1 DEF Sent, At, LoadOver, Unfinished, Inv, Placed
  <2> QED BY <1>1, <1>2, <1>5, <2>2 DEF Inv, Closed, CompileOver, LoadOver, ExecuteOver, NoLoads
<1>6. CASE s = "execute"
  <2>1. /\ "load" \notin stages \/ mode = "compile"
        /\ Sent("loaded") = {} /\ At("execute", {"job"}) = {}
    BY <1>1, <1>6 DEF NoInput
  <2>2. ASSUME NEW t \in Tests PROVE test[t] \in {"none", "sent", "collected"}
    BY <1>3, <1>6, <2>1 DEF At, Inv, TypeOK, TestPlaces
  <2>3. ExecuteOver
    BY <2>1, <2>2 DEF Sent, ExecuteOver, Inv, Closed
  <2> QED BY <1>1, <1>2, <1>6, <2>3 DEF Inv, Closed, CompileOver, LoadOver, ExecuteOver, NoLoads
<1> QED BY <1>4, <1>5, <1>6 DEF Stages

LEMMA InvInit == Init => Inv
BY DEF Init, Inv, TypeOK, Placed, Closed, NoLoads, Stages, Places, TestPlaces, Channels

LEMMA InvStep == Inv /\ [Next]_vars => Inv'
<1> SUFFICES ASSUME Inv, [Next]_vars PROVE Inv'
  OBVIOUS
<1>1. CASE Next
  <2>1. CASE Panic
    BY <2>1 DEF Panic, Inv, TypeOK, Placed, Closed, CompileOver, LoadOver, ExecuteOver, NoLoads
  <2> QED BY <1>1, <2>1, Steps, FileKeepsInv, TestKeepsInv, OpenKeepsInv, ReturnKeepsInv
<1>2. CASE UNCHANGED vars
  BY <1>2 DEF vars, Inv, TypeOK, Placed, Closed, CompileOver, LoadOver, ExecuteOver, NoLoads
<1> QED BY <1>1, <1>2

LEMMA SpecInv == Spec => []Inv
BY InvInit, InvStep, PTL DEF Spec

-----------------------------------------------------------------------------
(* The stages, the channels and where a file and a test may be.             *)
THEOREM PipelineTypeOK == Spec => []TypeOK
BY SpecInv, PTL DEF Inv

(* However the stages' ends meet what is still on its way, each file and    *)
(* each test of an opened module is accounted for once the run is over.     *)
THEOREM PipelineAllReported == Spec => []AllReported
<1>1. Inv => AllReported
  <2> SUFFICES ASSUME Inv, Over
               PROVE  /\ \A f \in Files : file[f].at \in {"collected", "opened", "dropped"}
                      /\ \A t \in Tests : test[t] \in {"none", "collected"}
    BY DEF AllReported
  <2>1. CompileOver /\ LoadOver /\ ExecuteOver /\ \A c \in Sinks : Sent(c) = {}
    BY DEF Inv, Closed, Over
  <2>2. ASSUME NEW f \in Files PROVE file[f].at \in {"collected", "opened", "dropped"}
    <3>1. file[f] \in Records
      BY DEF Inv, TypeOK, Records
    <3>2. CASE file[f].at = "sent"
      <4>1. file[f].to \in Sinks \cup {"artifact", "loaded"}
        BY <3>1, <3>2 DEF Inv, Placed, Records, Channels
      <4>2. f \in Sent(file[f].to)
        BY <3>2 DEF Sent
      <4> QED BY <2>1, <3>2, <4>1, <4>2 DEF LoadOver, ExecuteOver
    <3>3. CASE file[f].at \in Unfinished
      BY <2>1, <3>1, <3>3 DEF CompileOver, LoadOver, Inv, Placed, Records, Stages, Unfinished
    <3> QED BY <3>1, <3>2, <3>3 DEF Records, Places, Unfinished
  <2>3. ASSUME NEW t \in Tests PROVE test[t] \in {"none", "collected"}
    <3>1. test[t] = "sent" => t \in Sent("result")
      BY DEF Sent
    <3> QED BY <2>1, <3>1 DEF ExecuteOver, Sinks
  <2> QED BY <2>2, <2>3
<1> QED BY <1>1, SpecInv, PTL

-----------------------------------------------------------------------------
(* Only a load task that found a permit adds to the modules held.           *)
Holds(f) ==
    \/ file[f].stage = "load" /\ file[f].at \in {"half", "working"}
    \/ file[f].to = "loaded"
    \/ Needed(f)

LEMMA Held == Holding("modules") = {f \in Files : Holds(f)}
BY DEF Holding, Acquires, At, Holds

LEMMA HeldNext == Holding("modules")' = {f \in Files : Holds(f)'}
BY DEF Holding, Acquires, At, Holds

Kept == Inv /\ Cardinality(Holding("modules")) <= CompileJobs + ExecuteJobs

LEMMA HeldStep ==
    ASSUME Inv, Next
    PROVE  \/ Holding("modules")' \subseteq Holding("modules")
           \/ Free("modules") /\ \E f \in Files : Holding("modules")' \subseteq Holding("modules") \cup {f}
<1>1. ASSUME NEW f \in Files, FileStep(f)
      PROVE  \/ \A h \in Files : Holds(h)' => Holds(h)
             \/ Free("modules") /\ \A h \in Files : h # f /\ Holds(h)' => Holds(h)
  <2>1. /\ UNCHANGED test /\ \A h \in Files : h # f => file'[h] = file[h]
        /\ Compiles(f) \/ Loads(f) \/ Received(f) \/ Leaves(f)
    BY <1>1, FileEffect
  <2>2. \A h \in Files : Needed(h)' = Needed(h)
    BY <2>1 DEF Needed
  <2>3. \A h \in Files : h # f /\ Holds(h)' => Holds(h)
    BY <2>1, <2>2 DEF Holds
  <2>4. ASSUME ~Free("modules"), Holds(f)' PROVE Holds(f)
    BY <2>1, <2>2, <2>4 DEF Holds, Compiles, Loads, Received, Leaves, Goes, Same, Inv, Placed
  <2> QED BY <2>3, <2>4
<1>2. ASSUME NEW t \in Tests, TestStep(t) PROVE \A h \in Files : Holds(h)' => Holds(h)
  <2>1. /\ UNCHANGED file /\ \A u \in Tests : u # t => test'[u] = test[u]
        /\ <<test[t], test'[t]>> \in {<<"job", "task">>, <<"task", "working">>,
             <<"working", "finished">>, <<"finished", "sending">>, <<"sending", "sent">>,
             <<"sent", "collected">>}
    BY <1>2, TestEffect
  <2> QED BY <2>1 DEF Holds, Needed
<1>3. ASSUME NEW f \in Files, Open(f) PROVE \A h \in Files : Holds(h)' => Holds(h)
  <2>1. /\ file[f].to = "loaded" /\ \A h \in Files : h # f => file'[h] = file[h]
        /\ \A t \in Tests : test'[t] # test[t] => t[1] = f
    BY <1>3, OpenEffect
  <2> QED BY <2>1 DEF Holds, Needed
<1>4. ASSUME (\E s \in Stages : Return(s)) \/ Panic PROVE \A h \in Files : Holds(h)' => Holds(h)
  BY <1>4 DEF Return, Panic, Holds, Needed
<1> QED BY <1>1, <1>2, <1>3, <1>4, Steps, Held, HeldNext

(* However far the stages run apart, the modules loaded, waiting and under  *)
(* test stay within the budget that bounds peak memory.                     *)
THEOREM PipelineModulesBounded == Spec => []ModulesBounded
<1>0. /\ CompileJobs \in Nat \ {0} /\ ExecuteJobs \in Nat \ {0}
      /\ IsFiniteSet(Files) /\ Holding("modules") \subseteq Files
  BY PipelineAssumption, Held DEF PipelineAssumption
<1>1. Init => Kept
  <2> SUFFICES ASSUME Init PROVE Cardinality(Holding("modules")) <= CompileJobs + ExecuteJobs
    BY InvInit DEF Kept
  <2>1. Holding("modules") = {}
    BY Held DEF Init, Holds, Needed
  <2> QED BY <1>0, <2>1, FS_EmptySet
<1>2. Kept /\ [Next]_vars => Kept'
  <2> SUFFICES ASSUME Kept, Next
               PROVE  Cardinality(Holding("modules"))' <= CompileJobs + ExecuteJobs
    BY InvStep DEF Kept, vars, Holding, At, Needed
  <2>1. IsFiniteSet(Holding("modules")) /\ Cardinality(Holding("modules")) \in Nat
    BY <1>0, FS_Subset, FS_CardinalityType
  <2>2. CASE Holding("modules")' \subseteq Holding("modules")
    BY <1>0, <2>1, <2>2, FS_Subset, FS_CardinalityType DEF Kept
  <2>3. ASSUME Free("modules"), NEW f \in Files,
               Holding("modules")' \subseteq Holding("modules") \cup {f}
        PROVE  Cardinality(Holding("modules")') <= CompileJobs + ExecuteJobs
    <3>1. Cardinality(Holding("modules")) < CompileJobs + ExecuteJobs
      BY <2>3 DEF Free, Budget
    <3>2. /\ IsFiniteSet(Holding("modules") \cup {f})
          /\ Cardinality(Holding("modules") \cup {f}) <= Cardinality(Holding("modules")) + 1
      BY <2>1, FS_AddElement
    <3>3. Cardinality(Holding("modules")') <= Cardinality(Holding("modules") \cup {f})
      BY <2>3, <3>2, FS_Subset
    <3>4. Cardinality(Holding("modules")') \in Nat /\ Cardinality(Holding("modules") \cup {f}) \in Nat
      BY <2>3, <3>2, FS_Subset, FS_CardinalityType
    <3> QED BY <1>0, <2>1, <3>1, <3>2, <3>3, <3>4
  <2> QED BY <2>2, <2>3, HeldStep DEF Kept
<1>3. Kept => ModulesBounded
  <2> DEFINE M == At("load", {"working"}) \cup {f \in Files : file[f].to = "loaded" \/ Needed(f)}
  <2> SUFFICES ASSUME Kept PROVE Cardinality(M) <= CompileJobs + ExecuteJobs
    BY DEF ModulesBounded
  <2>1. M \subseteq Holding("modules")
    BY Held DEF At, Holds
  <2>2. IsFiniteSet(Holding("modules"))
    BY <1>0, FS_Subset
  <2>3. Cardinality(M) <= Cardinality(Holding("modules")) /\ Cardinality(M) \in Nat
        /\ Cardinality(Holding("modules")) \in Nat
    BY <2>1, <2>2, FS_Subset, FS_CardinalityType
  <2> QED BY <1>0, <2>3 DEF Kept
<1> QED BY <1>1, <1>2, <1>3, PTL DEF Spec
=============================================================================
