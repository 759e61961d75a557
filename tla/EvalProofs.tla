------------------------------ MODULE EvalProofs ------------------------------
(***************************************************************************)
(* Theorems of EvalHost, for any tests, keys and budget.  The sharing of   *)
(* evaluations rests on one fact: a slot that is not resolved is the one   *)
(* in the map, for as long as any call waits on it.  That panics surface   *)
(* rests on every compile being awaited, joined or forgotten.              *)
(***************************************************************************)
EXTENDS EvalHost, TLAPS

Made == {c \in Calls : c[2] <= call[c[1]].n}

Waiting(t) == at[t] \in {"slot"} \cup Filling

SlotsKept ==
    /\ resolved \subseteq Made
    /\ \A k \in Keys : slots[k] # None => slots[k] \in Made
    /\ \A t \in Tests : Waiting(t) =>
         /\ slot[t] \in Made
         /\ slot[t] \notin resolved => slots[call[t].key] = slot[t]
    /\ \A t \in Tests : at[t] \in Filling => slot[t] \notin resolved

OneFiller ==
    \A t, u \in Tests : at[t] \in Filling /\ at[u] \in Filling /\ slot[t] = slot[u] => t = u

Numbered == \A t \in Tests : at[t] \in Inside => call[t].n \in 1..MaxCalls

Inv == TypeOK /\ Numbered /\ SlotsKept /\ OneFiller

-----------------------------------------------------------------------------
LEMMA NoneIsNoCall == None \notin Calls
BY DEF None, Calls

LEMMA InvInit == Init => Inv
<1> SUFFICES ASSUME Init PROVE Inv
  OBVIOUS
<1>1. TypeOK
  BY EvalAssumption DEF Init, TypeOK, EvalAssumption
<1> QED BY <1>1 DEF Init, Inv, Numbered, Inside, SlotsKept, OneFiller, Waiting, Filling

LEMMA CurrentIsCall ==
    ASSUME Inv, NEW t \in Tests, at[t] \in Inside
    PROVE  Current(t) \in Calls
BY EvalAssumption DEF Inv, Numbered, Current, Calls, EvalAssumption

(* A step that only moves a test, and not into the initializer, nor into    *)
(* the wait for a slot.                                                     *)
LEMMA MoveKeeps ==
    ASSUME Inv, NEW t \in Tests, NEW to, at' = [at EXCEPT ![t] = to],
           to \in Filling => at[t] \in Filling, to = "slot" => at[t] = "slot",
           to \in Inside => at[t] \in Inside,
           call' = call, slots' = slots, resolved' = resolved,
           slot' = slot \/ (to = "done" /\ slot' = [slot EXCEPT ![t] = None])
    PROVE  Numbered' /\ SlotsKept' /\ OneFiller'
<1>1. \A u \in Tests : at'[u] = IF u = t THEN to ELSE at[u]
  BY DEF Inv, TypeOK
<1>2. Made' = Made /\ \A u \in Tests : slot'[u] = slot[u] \/ (u = t /\ to = "done")
  BY DEF Made, Inv, TypeOK
<1>3. "done" \notin Filling /\ "slot" \notin Filling /\ "done" \notin Inside
  BY DEF Filling, Inside
<1>4. Numbered'
  BY <1>1 DEF Inv, Numbered
<1>5. SlotsKept'
  BY <1>1, <1>2, <1>3 DEF Inv, SlotsKept, Waiting
<1>6. OneFiller'
  BY <1>1, <1>2, <1>3 DEF Inv, OneFiller
<1> QED BY <1>4, <1>5, <1>6

(* The initializer ends: its slot is resolved, and it was the only one.     *)
LEMMA ResolveKeeps ==
    ASSUME Inv, NEW t \in Tests, NEW written, Resolve(t, written),
           Waiting(t), at[t] = "slot" => Filler(slot[t]) = {},
           call' = call, slots' = slots, slot' = slot
    PROVE  Numbered' /\ SlotsKept' /\ OneFiller'
<1>1. /\ \A u \in Tests : at'[u] = IF u = t THEN "slot" ELSE at[u]
      /\ resolved' = resolved \cup {slot[t]} /\ slot[t] \in Made
  BY DEF Inv, TypeOK, Resolve, SlotsKept
<1>2. Made' = Made
  BY DEF Made
<1>3. "slot" \notin Filling /\ "slot" \in Inside /\ at[t] \in Inside
  BY DEF Filling, Inside, Waiting
<1>4. \A u \in Tests : u # t /\ at[u] \in Filling => slot[u] # slot[t]
  BY DEF Inv, OneFiller, Filler, Waiting
<1>5. Numbered'
  BY <1>1, <1>3 DEF Inv, Numbered
<1>6. SlotsKept'
  BY <1>1, <1>2, <1>3, <1>4 DEF Inv, SlotsKept, Waiting
<1>7. OneFiller'
  BY <1>1, <1>3 DEF Inv, OneFiller
<1> QED BY <1>5, <1>6, <1>7

LEMMA PermitKeeps == ASSUME Inv, NEW t \in Tests, TakePermit(t) PROVE Inv'
<1>1. CASE Start(t)
  <2>1. TypeOK'
    BY <1>1 DEF Inv, TypeOK, Start, Go, compiles
  <2>2. Numbered' /\ SlotsKept' /\ OneFiller'
    <3>1. /\ at' = [at EXCEPT ![t] = "body"]
          /\ call' = call /\ slots' = slots /\ resolved' = resolved /\ slot' = slot
          /\ "body" \in Filling => at[t] \in Filling
          /\ "body" \in Inside => at[t] \in Inside
      BY <1>1 DEF Start, Go, Filling, Inside
    <3> QED BY <3>1, MoveKeeps
  <2> QED BY <2>1, <2>2 DEF Inv
<1>2. CASE Return(t)
  <2>1. TypeOK'
    BY <1>2 DEF Inv, TypeOK, Return, Go, compiles
  <2>2. Numbered' /\ SlotsKept' /\ OneFiller'
    <3>1. /\ at' = [at EXCEPT ![t] = "body"]
          /\ call' = call /\ slots' = slots /\ resolved' = resolved /\ slot' = slot
          /\ "body" \in Filling => at[t] \in Filling
          /\ "body" \in Inside => at[t] \in Inside
      BY <1>2 DEF Return, Go, Filling, Inside
    <3> QED BY <3>1, MoveKeeps
  <2> QED BY <2>1, <2>2 DEF Inv
<1>3. CASE StartCompile(t)
  <2>1. TypeOK'
    BY <1>3 DEF Inv, TypeOK, StartCompile, Go, Inside, Filling
  <2>2. Numbered' /\ SlotsKept' /\ OneFiller'
    <3>1. /\ at' = [at EXCEPT ![t] = "compiling"]
          /\ call' = call /\ slots' = slots /\ resolved' = resolved /\ slot' = slot
          /\ "compiling" \in Filling => at[t] \in Filling
          /\ "compiling" \in Inside => at[t] \in Inside
      BY <1>3 DEF StartCompile, Go, Filling, Inside
    <3> QED BY <3>1, MoveKeeps
  <2> QED BY <2>1, <2>2 DEF Inv
<1>4. CASE StartRun(t)
  <2>1. Current(t) \in Calls
    BY <1>4, CurrentIsCall DEF StartRun, Go, Inside, Filling
  <2>2. TypeOK'
    BY <1>4, <2>1 DEF Inv, TypeOK, StartRun, Go, Inside, Filling, compiles
  <2>3. Numbered' /\ SlotsKept' /\ OneFiller'
    <3>1. /\ at' = [at EXCEPT ![t] = "evaluating"]
          /\ call' = call /\ slots' = slots /\ resolved' = resolved /\ slot' = slot
          /\ "evaluating" \in Filling => at[t] \in Filling
          /\ "evaluating" \in Inside => at[t] \in Inside
      BY <1>4 DEF StartRun, Go, Filling, Inside
    <3> QED BY <3>1, MoveKeeps
  <2> QED BY <2>2, <2>3 DEF Inv
<1> QED BY <1>1, <1>2, <1>3, <1>4 DEF TakePermit

LEMMA FinishKeeps == ASSUME Inv, NEW t \in Tests, Finish(t) \/ Drop(t) PROVE Inv'
<1>1. TypeOK'
  BY DEF Inv, TypeOK, Finish, Drop, Go, compiles
<1>2. /\ at' = [at EXCEPT ![t] = "done"]
      /\ call' = call /\ slots' = slots /\ resolved' = resolved
      /\ slot' = slot \/ slot' = [slot EXCEPT ![t] = None]
      /\ "done" \notin Filling /\ "done" \notin Inside
  BY DEF Finish, Drop, Go, Filling, Inside
<1>3. Numbered' /\ SlotsKept' /\ OneFiller'
  BY <1>2, MoveKeeps
<1> QED BY <1>1, <1>3 DEF Inv

(* Whoever starts to fill a cell is alone, for no one else was filling it.  *)
LEMMA BeginKeeps == ASSUME Inv, NEW t \in Tests, Begin(t) PROVE Inv'
<1>1. Waiting(t) /\ slot[t] \in Calls
  BY DEF Begin, Inv, SlotsKept, Waiting, Made
<1>2. TypeOK'
  BY <1>1 DEF Inv, TypeOK, Begin, Inside, Filling, compiles
<1>3. CASE resolved' = resolved \cup {slot[t]} /\ at' = at
  <2>1. Resolve(t, {})
    BY <1>3 DEF Begin, Resolve, Inv, TypeOK
  <2>2. call' = call /\ slots' = slots /\ slot' = slot /\ Filler(slot[t]) = {}
    BY DEF Begin
  <2> QED BY <1>1, <1>2, <2>1, <2>2, ResolveKeeps DEF Inv
<1>4. CASE at' = [at EXCEPT ![t] = "to compile"] /\ resolved' = resolved
  <2>1. /\ at[t] = "slot" /\ slot[t] \notin resolved
        /\ call' = call /\ slots' = slots /\ slot' = slot
        /\ \A u \in Tests : at'[u] = IF u = t THEN "to compile" ELSE at[u]
        /\ \A u \in Tests : at[u] \in Filling => slot[u] # slot[t]
    BY <1>4 DEF Begin, Inv, TypeOK, Filler
  <2>2. Made' = Made /\ "to compile" \in Filling /\ "slot" \in Inside
    BY <2>1 DEF Made, Filling, Inside
  <2>3. Numbered'
    BY <2>1, <2>2 DEF Inv, Numbered
  <2>4. SlotsKept'
    BY <1>4, <2>1, <2>2 DEF Inv, SlotsKept, Waiting
  <2>5. OneFiller'
    BY <2>1 DEF Inv, OneFiller
  <2> QED BY <1>2, <2>3, <2>4, <2>5 DEF Inv
<1> QED BY <1>3, <1>4 DEF Begin

LEMMA ReportKeeps == ASSUME Inv, NEW t \in Tests, TakeReport(t) \/ Abandon(t) PROVE Inv'
<1>1. at[t] = "compiling" /\ Waiting(t) /\ at[t] \in Inside
  BY DEF TakeReport, Abandon, Waiting, Filling, Inside
<1>2. Current(t) \in Calls /\ slot[t] \in Calls
  BY <1>1, CurrentIsCall DEF Inv, SlotsKept, Made
<1>3. TypeOK'
  <2>1. CASE TakeReport(t)
    BY <1>2, <2>1 DEF Inv, TypeOK, TakeReport, Resolve, Inside, Filling, compiles
  <2>2. CASE Abandon(t)
    <3>1. kept' \in [Calls -> SUBSET {"cpu", "strand"}]
      <4>1. (IF StrandFree THEN kept[Current(t)] \cup {"strand"} ELSE {}) \in SUBSET {"cpu", "strand"}
        BY <1>2 DEF Inv, TypeOK
      <4> QED BY <1>2, <2>2, <4>1 DEF Inv, TypeOK, Abandon
    <3>2. stranded' \subseteq Calls
      BY <1>2, <2>2 DEF Inv, TypeOK, Abandon
    <3>3. at' \in [Tests -> {"queued", "body", "done"} \cup Inside]
      BY <2>2 DEF Inv, TypeOK, Abandon, Resolve, Inside
    <3> QED BY <1>2, <2>2, <3>1, <3>2, <3>3 DEF Inv, TypeOK, Abandon, Resolve
  <2> QED BY <2>1, <2>2
<1>4. call' = call /\ slots' = slots /\ slot' = slot
  BY DEF TakeReport, Abandon
<1>5. CASE \E written \in SUBSET Keys : Resolve(t, written)
  <2> QED BY <1>1, <1>3, <1>4, <1>5, ResolveKeeps DEF Inv
<1>6. CASE at' = [at EXCEPT ![t] = "to run"] /\ resolved' = resolved
  <2>1. "to run" \in Filling /\ "to run" \in Inside /\ at[t] \in Filling
    BY <1>1 DEF Filling, Inside
  <2> QED BY <1>1, <1>3, <1>4, <1>6, <2>1, MoveKeeps DEF Inv
<1>7. CASE at' = at /\ resolved' = resolved
  BY <1>3, <1>4, <1>7 DEF Inv, Numbered, SlotsKept, OneFiller, Waiting, Made
<1>8. {call[t].key} \in SUBSET Keys
  BY DEF Inv, TypeOK
<1> QED BY <1>5, <1>6, <1>7, <1>8 DEF TakeReport, Abandon

LEMMA LeaveKeeps == ASSUME Inv, NEW t \in Tests, Leave(t) PROVE Inv'
<1>1. TypeOK'
  <2>1. slots' \in [Keys -> Calls \cup {None}]
    <3>1. \A k \in Keys : (IF slots[k] = slot[t] THEN None ELSE slots[k]) \in Calls \cup {None}
      BY DEF Inv, TypeOK
    <3> QED BY <3>1 DEF Inv, TypeOK, Leave
  <2>2. at' \in [Tests -> {"queued", "body", "done"} \cup Inside]
    BY DEF Inv, TypeOK, Leave, Go, Inside
  <2>3. slot' \in [Tests -> Calls \cup {None}]
    BY DEF Inv, TypeOK, Leave
  <2> QED BY <2>1, <2>2, <2>3 DEF Inv, TypeOK, Leave, compiles
<1>2. /\ at[t] = "slot" /\ slot[t] \in resolved /\ call' = call /\ resolved' = resolved
      /\ \A u \in Tests : at'[u] = IF u = t THEN "back" ELSE at[u]
      /\ \A u \in Tests : u # t => slot'[u] = slot[u]
      /\ \A k \in Keys : slots'[k] = slots[k] \/ slots'[k] = None
      /\ \A k \in Keys : slots[k] # slot[t] => slots'[k] = slots[k]
  BY DEF Leave, Go, Inv, TypeOK
<1>3. Made' = Made /\ "back" \notin Filling /\ "slot" \in Inside
  BY <1>2 DEF Made, Filling, Inside
<1>4. Numbered'
  BY <1>2, <1>3 DEF Inv, Numbered
<1>5. SlotsKept'
  <2>1. \A u \in Tests : call[u].key \in Keys
    BY DEF Inv, TypeOK
  <2>2. \A u \in Tests : Waiting(u)' => u # t /\ Waiting(u)
    BY <1>2, <1>3 DEF Waiting
  <2> QED BY <1>2, <1>3, <2>1, <2>2 DEF Inv, SlotsKept
<1>6. OneFiller'
  BY <1>2, <1>3 DEF Inv, OneFiller
<1> QED BY <1>1, <1>4, <1>5, <1>6 DEF Inv

(* A test that enters finds the slot in the map, or puts one there.         *)
LEMMA EnterKeeps == ASSUME Inv, NEW t \in Tests, NEW k \in Keys, Enter(t, k) PROVE Inv'
<1> DEFINE n == call[t].n + 1
           c == <<t, n>>
           live == IF slots[k] = None THEN c ELSE slots[k]
<1>1. n \in 1..MaxCalls /\ c \in Calls /\ c \notin Made
  BY EvalAssumption DEF Inv, TypeOK, Enter, EvalAssumption, Calls, Made
<1>2. /\ at[t] = "body" /\ resolved' = resolved
      /\ at' = [at EXCEPT ![t] = "slot"]
      /\ call' = [call EXCEPT ![t] = [n |-> n, key |-> k]]
      /\ slots' = [slots EXCEPT ![k] = live] /\ slot' = [slot EXCEPT ![t] = live]
      /\ overdue' \subseteq Slow
  BY DEF Enter, Go, Inv, TypeOK
<1>3. live \in Calls
  BY <1>1 DEF Inv, TypeOK
<1> HIDE DEF live
<1>4. TypeOK'
  <2>1. at' \in [Tests -> {"queued", "body", "done"} \cup Inside]
    BY <1>2 DEF Inv, TypeOK, Inside
  <2>2. call' \in [Tests -> [n : 0..MaxCalls, key : Keys]]
    BY <1>1, <1>2 DEF Inv, TypeOK
  <2>3. slot' \in [Tests -> Calls \cup {None}] /\ slots' \in [Keys -> Calls \cup {None}]
    BY <1>2, <1>3 DEF Inv, TypeOK
  <2> QED BY <1>2, <2>1, <2>2, <2>3 DEF Inv, TypeOK, Enter, compiles
<1>5. /\ \A u \in Tests : at'[u] = IF u = t THEN "slot" ELSE at[u]
      /\ \A u \in Tests : call'[u] = IF u = t THEN [n |-> n, key |-> k] ELSE call[u]
      /\ \A u \in Tests : slot'[u] = IF u = t THEN live ELSE slot[u]
      /\ \A j \in Keys : slots'[j] = IF j = k THEN live ELSE slots[j]
      /\ "slot" \notin Filling
  BY <1>2 DEF Inv, TypeOK, Filling
<1>6. Made \subseteq Made' /\ c \in Made'
  <2>1. \A d \in Calls : d[1] \in Tests /\ d[2] \in Nat
    BY EvalAssumption DEF Calls, EvalAssumption
  <2>2. \A d \in Made : d \in Calls /\ d[2] <= call'[d[1]].n
    BY <1>1, <1>5, <2>1 DEF Made, Inv, TypeOK
  <2>3. c \in Calls /\ c[2] <= call'[c[1]].n
    BY <1>1, <1>5
  <2> QED BY <2>2, <2>3 DEF Made
<1>7. Numbered'
  BY <1>1, <1>5 DEF Inv, Numbered
<1>8. SlotsKept'
  <2>1. live \in Made' /\ \A j \in Keys : slots'[j] # None => slots'[j] \in Made'
    BY <1>5, <1>6 DEF live, Inv, SlotsKept
  <2>2. ASSUME NEW u \in Tests, u # t, Waiting(u)', slot'[u] \notin resolved'
        PROVE  slots'[call'[u].key] = slot'[u]
    <3>1. Waiting(u) /\ slots[call[u].key] = slot[u] /\ slot[u] \in Calls
      BY <1>2, <1>5, <2>2 DEF Inv, SlotsKept, Waiting, Made
    <3>2. call[u].key \in Keys /\ slot[u] # None
      BY <3>1, NoneIsNoCall DEF Inv, TypeOK
    <3>3. CASE call[u].key = k
      BY <1>5, <2>2, <3>1, <3>2, <3>3 DEF live
    <3> QED BY <1>5, <2>2, <3>1, <3>2, <3>3
  <2>3. \A u \in Tests : Waiting(u)' => u = t \/ Waiting(u)
    BY <1>5 DEF Waiting
  <2> QED BY <1>2, <1>5, <1>6, <2>1, <2>2, <2>3 DEF Inv, SlotsKept
<1>9. OneFiller'
  BY <1>5 DEF Inv, OneFiller
<1> QED BY <1>4, <1>7, <1>8, <1>9 DEF Inv

LEMMA HostKeeps == ASSUME Inv, NEW c \in Calls, ThreadEnds(c) \/ RunEnds(c) PROVE Inv'
<1> DEFINE t == c[1]
<1>1. t \in Tests
  BY DEF Calls
<1>2. CASE ThreadEnds(c)
  <2>1. /\ UNCHANGED <<at, call, slot, overdue, slots, resolved, cache, kept, stranded, running, run>>
        /\ thread' \in [Calls -> {"none", "working", "hung", "ended", "panicked"}]
    BY <1>2 DEF ThreadEnds, tests, Inv, TypeOK
  <2> QED BY <2>1 DEF Inv, TypeOK, Numbered, SlotsKept, OneFiller, Waiting, Made
<1>3. CASE RunEnds(c)
  <2>1. /\ call' = call /\ slots' = slots /\ slot' = slot /\ overdue' = overdue
        /\ UNCHANGED compiles /\ running' \subseteq Calls
    BY <1>3 DEF RunEnds, Inv, TypeOK
  <2>2. CASE \E written \in {{}, {call[t].key}} : at[t] = "evaluating" /\ run' = run /\ Resolve(t, written)
    <3>1. PICK written \in {{}, {call[t].key}} :
            at[t] = "evaluating" /\ run' = run /\ Resolve(t, written)
      BY <2>2
    <3>2. Waiting(t) /\ at[t] # "slot" /\ written \subseteq Keys
      BY <1>1, <3>1 DEF Waiting, Filling, Inv, TypeOK
    <3>3. slot[t] \in Calls
      BY <1>1, <3>2 DEF Inv, SlotsKept, Made
    <3>4. TypeOK'
      BY <1>1, <2>1, <3>1, <3>2, <3>3 DEF Inv, TypeOK, Resolve, Inside, compiles
    <3>5. Numbered' /\ SlotsKept' /\ OneFiller'
      BY <1>1, <2>1, <3>1, <3>2, ResolveKeeps
    <3> QED BY <3>4, <3>5 DEF Inv
  <2>3. CASE UNCHANGED <<at, resolved, cache>> /\ run' \in {run, "panicked"}
    BY <2>1, <2>3 DEF Inv, TypeOK, Numbered, SlotsKept, OneFiller, Waiting, Made, compiles
  <2> QED BY <1>3, <2>2, <2>3 DEF RunEnds
<1> QED BY <1>2, <1>3

LEMMA InvStep == Inv /\ [Next]_vars => Inv'
<1> SUFFICES ASSUME Inv, [Next]_vars PROVE Inv'
  OBVIOUS
<1>1. CASE Close
  BY <1>1 DEF Close, tests, compiles, Inv, TypeOK, Numbered, SlotsKept, OneFiller, Waiting, Made
<1>2. CASE UNCHANGED vars
  BY <1>2 DEF vars, tests, compiles, Inv, TypeOK, Numbered, SlotsKept, OneFiller, Waiting, Made
<1>3. ASSUME NEW t \in Tests, TakePermit(t) \/ GoOn(t) \/ Drop(t) PROVE Inv'
  BY <1>3, PermitKeeps, FinishKeeps, BeginKeeps, ReportKeeps, LeaveKeeps, EnterKeeps DEF GoOn
<1> QED BY <1>1, <1>2, <1>3, HostKeeps DEF Next, HostStep

LEMMA SpecInv == Spec => []Inv
BY InvInit, InvStep, PTL DEF Spec

-----------------------------------------------------------------------------
(* The variables keep their types: in particular every permit, slot and     *)
(* thread belongs to a call that was made.                                  *)
THEOREM EvalTypeOK == Spec => []TypeOK
BY SpecInv, PTL DEF Inv

(* Calls that share a key at once evaluate once, whatever calls time out,   *)
(* are dropped, or leave late.                                              *)
THEOREM EvalOneEvaluation == Spec => []OneEvaluation
<1>1. Inv => OneEvaluation
  <2> SUFFICES ASSUME Inv, NEW t \in Tests, NEW u \in Tests,
                      at[t] \in Filling, at[u] \in Filling, call[t].key = call[u].key
               PROVE  t = u
    BY DEF OneEvaluation
  <2>1. slot[t] = slots[call[t].key] /\ slot[u] = slots[call[u].key]
    BY DEF Inv, SlotsKept, Waiting
  <2> QED BY <2>1 DEF Inv, OneFiller
<1> QED BY <1>1, SpecInv, PTL

-----------------------------------------------------------------------------
(* Panics.  A compile that has not ended well is joined at the end, is      *)
(* forgotten, or has a call awaiting it; and once the run is over, none is  *)
(* awaited, and none that was joined had panicked.                          *)

Open(c) == thread[c] \in {"working", "hung", "panicked"}

Accounted ==
    /\ run = "on" => \A c \in Calls : Open(c) => c \in stranded \/ Forgotten(c) \/ Awaited(c)
    /\ PanicsSurface

LEMMA AccountedInit == Init => Accounted
BY DEF Init, Accounted, Open, PanicsSurface

(* A call that moves on, other than from its compile, leaves all as it was. *)
LEMMA AsideKeeps ==
    ASSUME Inv, Accounted, run = "on", run' # "over", NEW t \in Tests, UNCHANGED compiles,
           at[t] \notin {"compiling", "done"},
           \A u \in Tests \ {t} : at'[u] = at[u] /\ call'[u] = call[u],
           \A u \in Tests \ {t} : u \in overdue => u \in overdue'
    PROVE  Accounted'
<1>1. PanicsSurface'
  BY DEF PanicsSurface
<1>2. ASSUME NEW c \in Calls, Open(c)'
      PROVE  (c \in stranded \/ Forgotten(c) \/ Awaited(c))'
  <2>1. c[1] \in Tests /\ (c \in stranded \/ Forgotten(c) \/ Awaited(c))
    BY <1>2 DEF Calls, Accounted, Open, compiles
  <2>2. CASE c \in stranded
    BY <2>2 DEF compiles
  <2>3. CASE Forgotten(c) \/ Awaited(c)
    <3>1. c[1] # t
      BY <2>3 DEF Forgotten, Awaited
    <3> QED BY <2>1, <2>3, <3>1 DEF Forgotten, Awaited, Current, compiles
  <2> QED BY <2>1, <2>2, <2>3
<1> QED BY <1>1, <1>2 DEF Accounted

(* A compile that starts is awaited, and one that is abandoned is joined.   *)
LEMMA CompileKeeps ==
    ASSUME Inv, Accounted, run = "on", NEW t \in Tests,
           StartCompile(t) \/ TakeReport(t) \/ Abandon(t) \/ Drop(t)
    PROVE  Accounted'
<1>1. at[t] \in Inside /\ Current(t) \in Calls
  BY CurrentIsCall DEF StartCompile, TakeReport, Abandon, Drop, Go, Inside, Filling
<1>2. run' # "over" /\ call' = call /\ overdue' = overdue
  BY DEF StartCompile, TakeReport, Abandon, Drop
<1>3. \A u \in Tests \ {t} : at'[u] = at[u]
  BY DEF StartCompile, TakeReport, Abandon, Drop, Go, Resolve, Inv, TypeOK
<1>4. PanicsSurface'
  BY <1>2 DEF PanicsSurface
<1>5. ASSUME run' = "on", NEW c \in Calls, Open(c)'
      PROVE  (c \in stranded \/ Forgotten(c) \/ Awaited(c))'
  <2>1. c[1] \in Tests /\ c = <<c[1], c[2]>>
    BY DEF Calls
  <2>2. Current(c[1])' = Current(c[1]) /\ stranded \subseteq stranded'
    BY <1>2 DEF Current, StartCompile, TakeReport, Abandon, Drop, compiles
  <2>3. CASE c # Current(t)
    <3>1. thread'[c] = thread[c] /\ (c \in stranded' <=> c \in stranded)
      BY <1>1, <2>3 DEF StartCompile, TakeReport, Abandon, Drop, compiles, Inv, TypeOK
    <3>2. c \in stranded \/ Forgotten(c) \/ Awaited(c)
      BY <1>5, <3>1 DEF Open, Accounted
    <3>3. c[1] # t \/ c \in stranded
      BY <1>1, <2>3, <3>2 DEF Forgotten, Awaited, Inside, Filling
    <3> QED BY <1>2, <1>3, <2>1, <2>2, <3>1, <3>2, <3>3 DEF Forgotten, Awaited
  <2>4. CASE c = Current(t)
    <3>1. c[1] = t /\ Current(t)' = c
      BY <2>2, <2>4 DEF Current
    <3>2. CASE StartCompile(t)
      BY <3>1, <3>2 DEF StartCompile, Go, Awaited, Inv, TypeOK
    <3>3. CASE Abandon(t)
      BY <2>4, <3>3 DEF Abandon
    <3>4. CASE TakeReport(t)
      BY <1>5, <2>4, <3>4 DEF TakeReport, Open, compiles
    <3>5. CASE Drop(t)
      BY <1>5, <3>1, <3>5 DEF Drop, Open, Forgotten, compiles, Inv, TypeOK
    <3> QED BY <3>2, <3>3, <3>4, <3>5
  <2> QED BY <2>3, <2>4
<1> QED BY <1>4, <1>5 DEF Accounted

LEMMA TestAccounted ==
    ASSUME Inv, Accounted, run = "on", NEW t \in Tests,
           TakePermit(t) \/ GoOn(t) \/ Drop(t)
    PROVE  Accounted'
<1>1. CASE StartCompile(t) \/ TakeReport(t) \/ Abandon(t) \/ Drop(t)
  BY <1>1, CompileKeeps
<1>2. CASE Start(t) \/ StartRun(t) \/ Return(t)
  BY <1>2, AsideKeeps DEF Start, StartRun, Return, Go, compiles, Inv, TypeOK
<1>3. CASE Finish(t) \/ Begin(t) \/ Leave(t)
  BY <1>3, AsideKeeps DEF Finish, Begin, Leave, Go, compiles, Inv, TypeOK
<1>4. ASSUME NEW k \in Keys, Enter(t, k) PROVE Accounted'
  BY <1>4, AsideKeeps DEF Enter, Go, compiles, Inv, TypeOK
<1> QED BY <1>1, <1>2, <1>3, <1>4 DEF TakePermit, GoOn

LEMMA HostAccounted ==
    ASSUME Inv, Accounted, run = "on", NEW c \in Calls, ThreadEnds(c) \/ RunEnds(c)
    PROVE  Accounted'
<1>1. CASE ThreadEnds(c)
  <2>1. \A d \in Calls : Open(d)' => Open(d)
    BY <1>1 DEF ThreadEnds, Open, Inv, TypeOK
  <2>2. \A d \in Calls : Forgotten(d) => Forgotten(d)'
    BY <1>1 DEF ThreadEnds, Forgotten, Current, tests, Inv, TypeOK
  <2> QED BY <1>1, <2>1, <2>2
          DEF ThreadEnds, Accounted, PanicsSurface, Awaited, Current, tests
<1>2. CASE RunEnds(c)
  <2>1. c[1] \in Tests /\ run' # "over" /\ UNCHANGED <<call, overdue, compiles>>
    BY <1>2 DEF RunEnds, Calls
  <2>2. CASE at[c[1]] = "evaluating"
    <3>1. \A u \in Tests \ {c[1]} : at'[u] = at[u]
      BY <1>2 DEF RunEnds, Resolve, Inv, TypeOK
    <3> QED BY <2>1, <2>2, <3>1, AsideKeeps
  <2>3. CASE at[c[1]] # "evaluating"
    <3>1. at' = at /\ run' = run
      BY <1>2, <2>3 DEF RunEnds
    <3> QED BY <2>1, <3>1
            DEF Accounted, PanicsSurface, Open, Forgotten, Awaited, Current, compiles
  <2> QED BY <2>2, <2>3
<1> QED BY <1>1, <1>2

LEMMA AccountedStep == Inv /\ Accounted /\ [Next]_vars => Accounted'
<1> SUFFICES ASSUME Inv, Accounted, [Next]_vars PROVE Accounted'
  OBVIOUS
<1>1. CASE UNCHANGED vars
  BY <1>1 DEF vars, tests, compiles, Accounted, PanicsSurface, Open, Forgotten, Awaited, Current
<1>2. CASE run = "on" /\ Close
  <2>1. run' \in {"over", "panicked"}
    BY <1>2 DEF Close
  <2>2. ASSUME run' = "over", NEW c \in Calls, thread[c] = "panicked" PROVE Forgotten(c)
    <3>1. c \notin stranded /\ c[1] \in Tests /\ at[c[1]] = "done"
      BY <1>2, <2>2 DEF Close, Calls
    <3> QED BY <1>2, <2>2, <3>1 DEF Accounted, Open, Awaited
  <2> QED BY <1>2, <2>1, <2>2
          DEF Close, Accounted, PanicsSurface, Forgotten, Current, tests, compiles
<1> QED BY <1>1, <1>2, TestAccounted, HostAccounted DEF Next, HostStep

(* A run that is over met no panic of a compile, but in one whose call was  *)
(* dropped under it: those awaited ended the run, those abandoned are joined.*)
THEOREM EvalPanicsSurface == Spec => []PanicsSurface
<1>1. Init => Inv /\ Accounted
  BY InvInit, AccountedInit
<1>2. Inv /\ Accounted /\ [Next]_vars => (Inv /\ Accounted)'
  BY InvStep, AccountedStep
<1> QED BY <1>1, <1>2, PTL DEF Spec, Accounted
=============================================================================
