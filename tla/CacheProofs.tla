------------------------------ MODULE CacheProofs ------------------------------
(***************************************************************************)
(* Theorems of TestCache, for any tests, versions and number of runs: one  *)
(* generator a run, hits that are current, splits that are reported, and,  *)
(* if no save lands while the generator is resolved, entries that are      *)
(* true.                                                                   *)
(***************************************************************************)
EXTENDS TestCache, FiniteSetTheorems, TLAPS

Have == {"ready", "loaded", "pass", "fail", "stored"}
Finding == {"looking", "queued", "building", "built"}

(* What the run has read is what sources held meanwhile.                    *)
InTime ==
    /\ stage = "off" => now = NoInputs /\ \A t \in Tests : at[t] = "todo"
    /\ stage # "off" => \A f \in Sources : disk[f] \in since[f] /\ now[f] \in since[f] \cup {"none"}
    /\ unchecked # {} => stage = "report"

(* A log and the watch know every version of "lib" that was read, and the   *)
(* watch is compared in full before the run ends.                           *)
Noticed ==
    /\ \A t \in Tests :
         /\ log[t]["lib"] = "mixed" \/ used[t] \subseteq {log[t]["lib"]}
         /\ stamp["lib"] = "mixed" \/ used[t] \subseteq {stamp["lib"]}
         /\ at[t] \in {"todo", "hit", "miss"} => used[t] = {}
         /\ stage \in {"report", "ended"} => at[t] \in {"hit"} \cup Have
    /\ stage = "ended" => unchecked = {}
    /\ stage \in {"report",
      "ended"} /\ "lib" \notin unchecked \cup changed => stamp["lib"] # "mixed"

(* The compiles that have the generator have the one pinned.                *)
Resolved == \A t \in Tests :
    /\ at[t] \in Finding \cup {"resolved"} => gen[t] \in Versions
    /\ at[t] \in Have => pinned # Unpinned /\ gen[t] = pinned.gen /\ log[t]["gen"] = pinned.reads
    /\ at[t] \notin Have => log[t]["gen"] = "none"

IInv == TypeOK /\ InTime /\ Noticed /\ Resolved /\ HitsAreCurrent

(* What a resolution reads is what it resolves, if nothing comes between.   *)
Undisturbed ==
    /\ \A t \in Tests :
         /\ at[t] \in {"todo", "hit", "miss", "read"} => own[t] = "none"
         /\ at[t] \in Finding => gen[t] = disk["gen"] /\ own[t] \in {"none", disk["gen"]}
         /\ at[t] = "resolved" => own[t] \in {"none", gen[t]}
    /\ pinned # Unpinned => pinned.reads \in {"none", pinned.gen}

PassesAreTrue == \A t \in Tests :
    at[t] = "pass" /\ log[t] \in Inputs /\ Cacheable(t) => Outcomes(log[t]) = {"pass"}

TInv == Undisturbed /\ PassesAreTrue /\ EntriesAreTrue

-----------------------------------------------------------------------------
LEMMA RunTestEffect ==
    ASSUME NEW t \in Tests, RunTest(t)
    PROVE  /\ \E o \in {"pass", "fail"} : at' = [at EXCEPT ![t] = o]
           /\ at[t] \in {"ready", "loaded"}
           /\ UNCHANGED <<files, stage, shared, compile, since, runs, edits>>
<1>1. UNION {Outcomes(c) : c \in Compiled(t)} \subseteq {"pass", "fail"}
  BY DEF Outcomes
<1> QED BY <1>1 DEF RunTest, Go

LEMMA RunTestOutcome ==
    ASSUME NEW t \in Tests, RunTest(t)
    PROVE  \E o \in {"pass", "fail"}, c \in Compiled(t) :
             at' = [at EXCEPT ![t] = o] /\ o \in Outcomes(c)
BY DEF RunTest, Go, Outcomes

LEMMA ObservedEffect ==
    ASSUME TypeOK, NEW t \in Tests, Observed(t)
    PROVE  /\ own' \in [Tests -> Read] /\ stamp' \in [Sources -> Read]
           /\ stamp'["lib"] = stamp["lib"]
<1>1. disk["gen"] \in Versions
  BY DEF TypeOK, Inputs, Sources
<1>2. CASE index = "none"
  BY <1>2 DEF Observed, TypeOK
<1>3. CASE index # "none"
  <2>1. \A was : Noted(was, disk["gen"]) \in Read
    BY <1>1 DEF Noted, Read
  <2>2. own' = [own EXCEPT ![t] = Noted(own[t], disk["gen"])]
    BY <1>3 DEF Observed
  <2>3. stamp' = [stamp EXCEPT !["gen"] = Noted(stamp["gen"], disk["gen"])]
    BY <1>3 DEF Observed, Watched
  <2>4. own' \in [Tests -> Read]
    BY <2>1, <2>2 DEF TypeOK
  <2>5. stamp' \in [Sources -> Read] /\ stamp'["lib"] = stamp["lib"]
    BY <2>1, <2>3 DEF TypeOK, Sources
  <2> QED BY <2>4, <2>5
<1> QED BY <1>2, <1>3

LEMMA TryIndexEffect ==
    ASSUME TypeOK, NEW t \in Tests, TryIndex(t)
    PROVE  /\ \/ /\ index = disk["gen"] /\ at' = [at EXCEPT ![t] = "resolved"]
                 /\ gen' = [gen EXCEPT ![t] = disk["gen"]]
              \/ /\ at[t] = "looking" /\ at' = [at EXCEPT ![t] = "queued"] /\ gen' = gen
              \/ /\ at[t] = "queued" /\ at' = [at EXCEPT ![t] = "building"] /\ gen' = gen
           /\ at[t] \in {"looking", "queued"}
           /\ Observed(t)
           /\ UNCHANGED <<files, stage, fresh, now, pinned, unchecked, changed, log, used,
                          since, runs, edits>>
BY DEF TryIndex, Go, TypeOK, files

LEMMA TypeStep == TypeOK /\ [Next]_vars => TypeOK'
<1> SUFFICES ASSUME TypeOK, [Next]_vars PROVE TypeOK'
  OBVIOUS
<1> USE CacheAssumption DEF CacheAssumption, TypeOK, Sources, Inputs, NoInputs, Unpinned,
            Read, files, watch, shared, compile
<1>1. ASSUME Begin PROVE TypeOK'
  BY <1>1 DEF Begin
<1>2. ASSUME NEW f \in Sources, ReadNow(f) PROVE TypeOK'
  BY <1>2 DEF ReadNow
<1>3. ASSUME NEW t \in Tests, Lookup(t) PROVE TypeOK'
  BY <1>3 DEF Lookup, Moved, Asks, Go
<1>4. ASSUME StartTests PROVE TypeOK'
  BY <1>4 DEF StartTests
<1>5. ASSUME NEW t \in Tests, ReadEntry(t) PROVE TypeOK'
  BY <1>5 DEF ReadEntry, ReadLib, Go, Watched, Logged, Noted
<1>6. ASSUME NEW t \in Tests, GetPinned(t) PROVE TypeOK'
  BY <1>6 DEF GetPinned, Go, Logged, Noted, Unpinned
<1>7. ASSUME NEW t \in Tests, ReadGenerator(t) PROVE TypeOK'
  BY <1>7 DEF ReadGenerator, Go
<1>8. ASSUME NEW t \in Tests, TryIndex(t) PROVE TypeOK'
  <2>1. own' \in [Tests -> Read] /\ stamp' \in [Sources -> Read]
    <3>1. TypeOK /\ Observed(t)
      BY <1>8, TryIndexEffect
    <3> QED BY <3>1, ObservedEffect
  <2>2. gen' \in [Tests -> Versions \cup {"none"}]
    <3>1. gen' = gen \/ gen' = [gen EXCEPT ![t] = index]
      BY <1>8 DEF TryIndex
    <3> QED BY <3>1
  <2>3. at' \in [Tests -> {"todo", "hit", "miss", "read", "looking", "queued", "building",
                         "built", "resolved", "ready", "loaded", "pass", "fail", "stored"}]
    <3>1. PICK a \in {"resolved", "queued", "building"} : at' = [at EXCEPT ![t] = a]
      BY <1>8 DEF TryIndex, Go
    <3> QED BY <3>1
  <2>4. UNCHANGED <<files, stage, fresh, now, pinned, unchecked, changed, log, used, since,
                    runs, edits>>
    BY <1>8, TryIndexEffect
  <2> QED BY <2>1, <2>2, <2>3, <2>4
<1>9. ASSUME NEW t \in Tests, Build(t) PROVE TypeOK'
  BY <1>9 DEF Build, Go
<1>10. ASSUME NEW t \in Tests, ObserveClosure(t) PROVE TypeOK'
  BY <1>10 DEF ObserveClosure, Go, Observed, Watched, Noted
<1>11. ASSUME NEW t \in Tests, Pin(t) PROVE TypeOK'
  BY <1>11 DEF Pin, Go, Logged, Noted, Unpinned
<1>12. ASSUME NEW t \in Tests, LoadLib(t) PROVE TypeOK'
  BY <1>12 DEF LoadLib, ReadLib, Go, Watched, Logged, Noted
<1>13. ASSUME NEW t \in Tests, RunTest(t) PROVE TypeOK'
  <2>1. PICK o \in {"pass", "fail"} : at' = [at EXCEPT ![t] = o]
    BY <1>13, RunTestEffect
  <2> QED BY ZenonT(60), <1>13, <2>1, RunTestEffect
<1>14. ASSUME NEW t \in Tests, Store(t) PROVE TypeOK'
  BY <1>14 DEF Store, Tracked, Go
<1>15. ASSUME BeginReport PROVE TypeOK'
  BY <1>15 DEF BeginReport
<1>16. ASSUME NEW f \in Sources, Compare(f) PROVE TypeOK'
  BY <1>16 DEF Compare
<1>17. ASSUME Exit PROVE TypeOK'
  BY <1>17 DEF Exit, NoInputs, Unpinned
<1>18. ASSUME NEW f \in Sources, Edit(f) PROVE TypeOK'
  BY <1>18 DEF Edit
<1>19. CASE UNCHANGED vars
  BY <1>19 DEF vars
<1> QED BY <1>1, <1>2, <1>3, <1>4, <1>5, <1>6, <1>7, <1>8, <1>9, <1>10, <1>11, <1>12, <1>13,
           <1>14, <1>15, <1>16, <1>17, <1>18, <1>19 DEF Next, Compile

(* Readings made for lookups.                                              *)
LEMMA InTimeStep == TypeOK /\ InTime /\ [Next]_vars => InTime'
<1> SUFFICES ASSUME TypeOK /\ InTime, [Next]_vars PROVE InTime'
  OBVIOUS
<1> USE CacheAssumption DEF CacheAssumption, TypeOK, Sources, Inputs, NoInputs, InTime,
            files, watch, shared, compile
<1>1. ASSUME Begin PROVE InTime'
  BY <1>1 DEF Begin
<1>2. ASSUME NEW f \in Sources, ReadNow(f) PROVE InTime'
  BY <1>2 DEF ReadNow
<1>3. ASSUME NEW t \in Tests, Lookup(t) PROVE InTime'
  BY <1>3 DEF Lookup, Moved, Asks, Go
<1>4. ASSUME StartTests PROVE InTime'
  BY <1>4 DEF StartTests
<1>5. ASSUME NEW t \in Tests, ReadEntry(t) PROVE InTime'
  BY <1>5 DEF ReadEntry, ReadLib, Go, Watched, Logged, Noted
<1>6. ASSUME NEW t \in Tests, GetPinned(t) PROVE InTime'
  BY <1>6 DEF GetPinned, Go, Logged, Noted, Unpinned
<1>7. ASSUME NEW t \in Tests, ReadGenerator(t) PROVE InTime'
  BY <1>7 DEF ReadGenerator, Go
<1>8. ASSUME NEW t \in Tests, TryIndex(t) PROVE InTime'
  BY <1>8 DEF TryIndex, Go, Observed, Watched, Noted
<1>9. ASSUME NEW t \in Tests, Build(t) PROVE InTime'
  BY <1>9 DEF Build, Go
<1>10. ASSUME NEW t \in Tests, ObserveClosure(t) PROVE InTime'
  BY <1>10 DEF ObserveClosure, Go, Observed, Watched, Noted
<1>11. ASSUME NEW t \in Tests, Pin(t) PROVE InTime'
  BY <1>11 DEF Pin, Go, Logged, Noted, Unpinned
<1>12. ASSUME NEW t \in Tests, LoadLib(t) PROVE InTime'
  BY <1>12 DEF LoadLib, ReadLib, Go, Watched, Logged, Noted
<1>13. ASSUME NEW t \in Tests, RunTest(t) PROVE InTime'
  <2>1. PICK o \in {"pass", "fail"} : at' = [at EXCEPT ![t] = o]
    BY <1>13, RunTestEffect
  <2> QED BY <1>13, <2>1, RunTestEffect
<1>14. ASSUME NEW t \in Tests, Store(t) PROVE InTime'
  BY <1>14 DEF Store, Tracked, Go
<1>15. ASSUME BeginReport PROVE InTime'
  BY <1>15 DEF BeginReport
<1>16. ASSUME NEW f \in Sources, Compare(f) PROVE InTime'
  BY <1>16 DEF Compare
<1>17. ASSUME Exit PROVE InTime'
  BY <1>17 DEF Exit, NoInputs, Unpinned
<1>18. ASSUME NEW f \in Sources, Edit(f) PROVE InTime'
  BY <1>18 DEF Edit
<1>19. CASE UNCHANGED vars
  BY <1>19 DEF vars
<1> QED BY <1>1, <1>2, <1>3, <1>4, <1>5, <1>6, <1>7, <1>8, <1>9, <1>10, <1>11, <1>12, <1>13,
           <1>14, <1>15, <1>16, <1>17, <1>18, <1>19 DEF Next, Compile

(* Reads that are logged, watched and compared.                             *)
LEMMA NoticedStep == TypeOK /\ InTime /\ Noticed /\ [Next]_vars => Noticed'
<1> SUFFICES ASSUME TypeOK /\ InTime /\ Noticed, [Next]_vars PROVE Noticed'
  OBVIOUS
<1> USE CacheAssumption DEF CacheAssumption, TypeOK, Sources, Inputs, NoInputs, Read, Have,
            AllRan, InTime, Noticed, files, watch, shared, compile
<1>1. ASSUME Begin PROVE Noticed'
  BY <1>1 DEF Begin
<1>2. ASSUME NEW f \in Sources, ReadNow(f) PROVE Noticed'
  BY <1>2 DEF ReadNow
<1>3. ASSUME NEW t \in Tests, Lookup(t) PROVE Noticed'
  BY <1>3 DEF Lookup, Moved, Asks, Go
<1>4. ASSUME StartTests PROVE Noticed'
  BY <1>4 DEF StartTests
<1>5. ASSUME NEW t \in Tests, ReadEntry(t) PROVE Noticed'
  BY <1>5 DEF ReadEntry, ReadLib, Go, Watched, Logged, Noted
<1>6. ASSUME NEW t \in Tests, GetPinned(t) PROVE Noticed'
  BY <1>6 DEF GetPinned, Go, Logged, Noted, Unpinned
<1>7. ASSUME NEW t \in Tests, ReadGenerator(t) PROVE Noticed'
  BY <1>7 DEF ReadGenerator, Go
<1>8. ASSUME NEW t \in Tests, TryIndex(t) PROVE Noticed'
  <2>1. stamp'["lib"] = stamp["lib"]
    <3>1. TypeOK /\ Observed(t)
      BY <1>8, TryIndexEffect
    <3> QED BY <3>1, ObservedEffect
  <2>2. stage \notin {"report", "ended"}
    BY <1>8 DEF TryIndex, Go
  <2>3. \A u \in Tests : at'[u] \in {"todo", "hit", "miss"} => at'[u] = at[u]
    BY <1>8 DEF TryIndex, Go
  <2>4. UNCHANGED <<stage, unchecked, changed, log, used>>
    BY <1>8 DEF TryIndex
  <2> QED BY <2>1, <2>2, <2>3, <2>4
<1>9. ASSUME NEW t \in Tests, Build(t) PROVE Noticed'
  BY <1>9 DEF Build, Go
<1>10. ASSUME NEW t \in Tests, ObserveClosure(t) PROVE Noticed'
  BY <1>10 DEF ObserveClosure, Go, Observed, Watched, Noted
<1>11. ASSUME NEW t \in Tests, Pin(t) PROVE Noticed'
  BY <1>11 DEF Pin, Go, Logged, Noted, Unpinned
<1>12. ASSUME NEW t \in Tests, LoadLib(t) PROVE Noticed'
  BY <1>12 DEF LoadLib, ReadLib, Go, Watched, Logged, Noted
<1>13. ASSUME NEW t \in Tests, RunTest(t) PROVE Noticed'
  <2>1. PICK o \in {"pass", "fail"} : at' = [at EXCEPT ![t] = o]
    BY <1>13, RunTestEffect
  <2> QED BY ZenonT(60), <1>13, <2>1, RunTestEffect
<1>14. ASSUME NEW t \in Tests, Store(t) PROVE Noticed'
  BY <1>14 DEF Store, Tracked, Go
<1>15. ASSUME BeginReport PROVE Noticed'
  BY <1>15 DEF BeginReport
<1>16. ASSUME NEW f \in Sources, Compare(f) PROVE Noticed'
  BY <1>16 DEF Compare
<1>17. ASSUME Exit PROVE Noticed'
  BY <1>17 DEF Exit, NoInputs, Unpinned
<1>18. ASSUME NEW f \in Sources, Edit(f) PROVE Noticed'
  BY <1>18 DEF Edit
<1>19. CASE UNCHANGED vars
  BY <1>19 DEF vars
<1> QED BY <1>1, <1>2, <1>3, <1>4, <1>5, <1>6, <1>7, <1>8, <1>9, <1>10, <1>11, <1>12, <1>13,
           <1>14, <1>15, <1>16, <1>17, <1>18, <1>19 DEF Next, Compile

(* One generator, pinned once.                                              *)
LEMMA ResolvedStep == TypeOK /\ Resolved /\ [Next]_vars => Resolved'
<1> SUFFICES ASSUME TypeOK /\ Resolved, [Next]_vars PROVE Resolved'
  OBVIOUS
<1> USE CacheAssumption DEF CacheAssumption, TypeOK, Sources, Inputs, NoInputs, Read, Have,
            Finding, Resolved, files, watch, shared, compile
<1>1. ASSUME Begin PROVE Resolved'
  BY <1>1 DEF Begin
<1>2. ASSUME NEW f \in Sources, ReadNow(f) PROVE Resolved'
  BY <1>2 DEF ReadNow
<1>3. ASSUME NEW t \in Tests, Lookup(t) PROVE Resolved'
  BY <1>3 DEF Lookup, Moved, Asks, Go
<1>4. ASSUME StartTests PROVE Resolved'
  BY <1>4 DEF StartTests
<1>5. ASSUME NEW t \in Tests, ReadEntry(t) PROVE Resolved'
  BY <1>5 DEF ReadEntry, ReadLib, Go, Watched, Logged, Noted
<1>6. ASSUME NEW t \in Tests, GetPinned(t) PROVE Resolved'
  BY <1>6 DEF GetPinned, Go, Logged, Noted, Unpinned
<1>7. ASSUME NEW t \in Tests, ReadGenerator(t) PROVE Resolved'
  BY <1>7 DEF ReadGenerator, Go
<1>8. ASSUME NEW t \in Tests, TryIndex(t) PROVE Resolved'
  BY <1>8 DEF TryIndex, Go, Observed, Watched, Noted
<1>9. ASSUME NEW t \in Tests, Build(t) PROVE Resolved'
  BY <1>9 DEF Build, Go
<1>10. ASSUME NEW t \in Tests, ObserveClosure(t) PROVE Resolved'
  BY <1>10 DEF ObserveClosure, Go, Observed, Watched, Noted
<1>11. ASSUME NEW t \in Tests, Pin(t) PROVE Resolved'
  BY <1>11 DEF Pin, Go, Logged, Noted, Unpinned
<1>12. ASSUME NEW t \in Tests, LoadLib(t) PROVE Resolved'
  BY <1>12 DEF LoadLib, ReadLib, Go, Watched, Logged, Noted
<1>13. ASSUME NEW t \in Tests, RunTest(t) PROVE Resolved'
  <2>1. PICK o \in {"pass", "fail"} : at' = [at EXCEPT ![t] = o]
    BY <1>13, RunTestEffect
  <2>2. \A u \in Tests : at'[u] = at[u] \/ (u = t /\ at[t] \in Have /\ at'[t] \in {"pass",
      "fail"})
    BY ZenonT(60), <1>13, <2>1, RunTestEffect
  <2> QED BY <1>13, <2>2, RunTestEffect
<1>14. ASSUME NEW t \in Tests, Store(t) PROVE Resolved'
  BY <1>14 DEF Store, Tracked, Go
<1>15. ASSUME BeginReport PROVE Resolved'
  BY <1>15 DEF BeginReport
<1>16. ASSUME NEW f \in Sources, Compare(f) PROVE Resolved'
  BY <1>16 DEF Compare
<1>17. ASSUME Exit PROVE Resolved'
  BY <1>17 DEF Exit, NoInputs, Unpinned
<1>18. ASSUME NEW f \in Sources, Edit(f) PROVE Resolved'
  BY <1>18 DEF Edit
<1>19. CASE UNCHANGED vars
  BY <1>19 DEF vars
<1> QED BY <1>1, <1>2, <1>3, <1>4, <1>5, <1>6, <1>7, <1>8, <1>9, <1>10, <1>11, <1>12, <1>13,
           <1>14, <1>15, <1>16, <1>17, <1>18, <1>19 DEF Next, Compile

LEMMA HitsStep == TypeOK /\ InTime /\ HitsAreCurrent /\ [Next]_vars => HitsAreCurrent'
<1> SUFFICES ASSUME TypeOK /\ InTime /\ HitsAreCurrent, [Next]_vars PROVE HitsAreCurrent'
  OBVIOUS
<1> USE CacheAssumption DEF CacheAssumption, TypeOK, Sources, Inputs, NoInputs, InTime,
            HitsAreCurrent, Asks, files, watch, shared, compile
<1>1. ASSUME Begin PROVE HitsAreCurrent'
  BY <1>1 DEF Begin
<1>2. ASSUME NEW f \in Sources, ReadNow(f) PROVE HitsAreCurrent'
  BY <1>2 DEF ReadNow
<1>3. ASSUME NEW t \in Tests, Lookup(t) PROVE HitsAreCurrent'
  <2>1. /\ stage = "lookup" /\ entry' = entry /\ since' = since
        /\ \A f \in Sources : now[f] \in since[f] \cup {"none"}
    BY <1>3 DEF Lookup
  <2>2. \/ at' = [at EXCEPT ![t] = "miss"]
        \/ at' = [at EXCEPT ![t] = "hit"] /\ \A f \in Asks(t) : now[f] = entry[t][f]
    BY <1>3 DEF Lookup, Go
  <2>3. ASSUME NEW u \in Tests, at'[u] = "hit", NEW f \in Asks(u) PROVE entry[u][f] \in since[f]
    BY <2>1, <2>2, <2>3
  <2> QED BY <2>1, <2>3
<1>4. ASSUME StartTests PROVE HitsAreCurrent'
  BY <1>4 DEF StartTests
<1>5. ASSUME NEW t \in Tests, ReadEntry(t) PROVE HitsAreCurrent'
  BY <1>5 DEF ReadEntry, ReadLib, Go, Watched, Logged, Noted
<1>6. ASSUME NEW t \in Tests, GetPinned(t) PROVE HitsAreCurrent'
  BY <1>6 DEF GetPinned, Go, Logged, Noted, Unpinned
<1>7. ASSUME NEW t \in Tests, ReadGenerator(t) PROVE HitsAreCurrent'
  BY <1>7 DEF ReadGenerator, Go
<1>8. ASSUME NEW t \in Tests, TryIndex(t) PROVE HitsAreCurrent'
  BY <1>8 DEF TryIndex, Go, Observed, Watched, Noted
<1>9. ASSUME NEW t \in Tests, Build(t) PROVE HitsAreCurrent'
  BY <1>9 DEF Build, Go
<1>10. ASSUME NEW t \in Tests, ObserveClosure(t) PROVE HitsAreCurrent'
  BY <1>10 DEF ObserveClosure, Go, Observed, Watched, Noted
<1>11. ASSUME NEW t \in Tests, Pin(t) PROVE HitsAreCurrent'
  BY <1>11 DEF Pin, Go, Logged, Noted, Unpinned
<1>12. ASSUME NEW t \in Tests, LoadLib(t) PROVE HitsAreCurrent'
  BY <1>12 DEF LoadLib, ReadLib, Go, Watched, Logged, Noted
<1>13. ASSUME NEW t \in Tests, RunTest(t) PROVE HitsAreCurrent'
  <2>1. PICK o \in {"pass", "fail"} : at' = [at EXCEPT ![t] = o]
    BY <1>13, RunTestEffect
  <2> QED BY <1>13, <2>1, RunTestEffect
<1>14. ASSUME NEW t \in Tests, Store(t) PROVE HitsAreCurrent'
  BY <1>14 DEF Store, Tracked, Go
<1>15. ASSUME BeginReport PROVE HitsAreCurrent'
  BY <1>15 DEF BeginReport
<1>16. ASSUME NEW f \in Sources, Compare(f) PROVE HitsAreCurrent'
  BY <1>16 DEF Compare
<1>17. ASSUME Exit PROVE HitsAreCurrent'
  BY <1>17 DEF Exit, NoInputs, Unpinned
<1>18. ASSUME NEW f \in Sources, Edit(f) PROVE HitsAreCurrent'
  BY <1>18 DEF Edit
<1>19. CASE UNCHANGED vars
  BY <1>19 DEF vars
<1> QED BY <1>1, <1>2, <1>3, <1>4, <1>5, <1>6, <1>7, <1>8, <1>9, <1>10, <1>11, <1>12, <1>13,
           <1>14, <1>15, <1>16, <1>17, <1>18, <1>19 DEF Next, Compile

(* What the run pins, while no save lands in a resolution.                  *)
LEMMA UndisturbedStep ==
    ~EditsInBuild /\ TypeOK /\ Resolved /\ Undisturbed /\ [Next]_vars => Undisturbed'
<1> SUFFICES ASSUME ~EditsInBuild /\ TypeOK /\ Resolved /\ Undisturbed,
      [Next]_vars PROVE Undisturbed'
  OBVIOUS
<1> USE CacheAssumption DEF CacheAssumption, TypeOK, Sources, Inputs, NoInputs, Unpinned,
            Have, Finding, Resolving, Building, Resolved, Undisturbed, files, watch, shared,
      compile
<1>1. ASSUME Begin PROVE Undisturbed'
  BY <1>1 DEF Begin
<1>2. ASSUME NEW f \in Sources, ReadNow(f) PROVE Undisturbed'
  BY <1>2 DEF ReadNow
<1>3. ASSUME NEW t \in Tests, Lookup(t) PROVE Undisturbed'
  BY <1>3 DEF Lookup, Moved, Asks, Go
<1>4. ASSUME StartTests PROVE Undisturbed'
  BY <1>4 DEF StartTests
<1>5. ASSUME NEW t \in Tests, ReadEntry(t) PROVE Undisturbed'
  BY <1>5 DEF ReadEntry, ReadLib, Go, Watched, Logged, Noted
<1>6. ASSUME NEW t \in Tests, GetPinned(t) PROVE Undisturbed'
  BY <1>6 DEF GetPinned, Go, Logged, Noted, Unpinned
<1>7. ASSUME NEW t \in Tests, ReadGenerator(t) PROVE Undisturbed'
  BY <1>7 DEF ReadGenerator, Go
<1>8. ASSUME NEW t \in Tests, TryIndex(t) PROVE Undisturbed'
  BY <1>8 DEF TryIndex, Go, Observed, Watched, Noted
<1>9. ASSUME NEW t \in Tests, Build(t) PROVE Undisturbed'
  BY <1>9 DEF Build, Go
<1>10. ASSUME NEW t \in Tests, ObserveClosure(t) PROVE Undisturbed'
  BY <1>10 DEF ObserveClosure, Go, Observed, Watched, Noted
<1>11. ASSUME NEW t \in Tests, Pin(t) PROVE Undisturbed'
  BY <1>11 DEF Pin, Go, Logged, Noted, Unpinned
<1>12. ASSUME NEW t \in Tests, LoadLib(t) PROVE Undisturbed'
  BY <1>12 DEF LoadLib, ReadLib, Go, Watched, Logged, Noted
<1>13. ASSUME NEW t \in Tests, RunTest(t) PROVE Undisturbed'
  <2>1. PICK o \in {"pass", "fail"} : at' = [at EXCEPT ![t] = o]
    BY <1>13, RunTestEffect
  <2>2. \A u \in Tests : at'[u] = at[u] \/ (u = t /\ at'[t] \in {"pass", "fail"})
    BY <1>13, <2>1, RunTestEffect
  <2> QED BY <1>13, <2>2, RunTestEffect
<1>14. ASSUME NEW t \in Tests, Store(t) PROVE Undisturbed'
  BY <1>14 DEF Store, Tracked, Go
<1>15. ASSUME BeginReport PROVE Undisturbed'
  BY <1>15 DEF BeginReport
<1>16. ASSUME NEW f \in Sources, Compare(f) PROVE Undisturbed'
  BY <1>16 DEF Compare
<1>17. ASSUME Exit PROVE Undisturbed'
  BY <1>17 DEF Exit, NoInputs, Unpinned
<1>18. ASSUME NEW f \in Sources, Edit(f) PROVE Undisturbed'
  BY <1>18 DEF Edit
<1>19. CASE UNCHANGED vars
  BY <1>19 DEF vars
<1> QED BY <1>1, <1>2, <1>3, <1>4, <1>5, <1>6, <1>7, <1>8, <1>9, <1>10, <1>11, <1>12, <1>13,
           <1>14, <1>15, <1>16, <1>17, <1>18, <1>19 DEF Next, Compile

(* A pass says of what it read what a compile of it would say.              *)
LEMMA PassesStep == IInv /\ TInv /\ [Next]_vars => PassesAreTrue'
<1> SUFFICES ASSUME IInv /\ TInv, [Next]_vars PROVE PassesAreTrue'
  OBVIOUS
<1> USE CacheAssumption DEF CacheAssumption, TypeOK, Sources, Inputs, NoInputs, Read, IInv,
            Noticed, Resolved, TInv, Have, Undisturbed, Cacheable, PassesAreTrue, files,
      watch, shared, compile
<1>1. ASSUME Begin PROVE PassesAreTrue'
  BY <1>1 DEF Begin
<1>2. ASSUME NEW f \in Sources, ReadNow(f) PROVE PassesAreTrue'
  BY <1>2 DEF ReadNow
<1>3. ASSUME NEW t \in Tests, Lookup(t) PROVE PassesAreTrue'
  BY <1>3 DEF Lookup, Moved, Asks, Go
<1>4. ASSUME StartTests PROVE PassesAreTrue'
  BY <1>4 DEF StartTests
<1>5. ASSUME NEW t \in Tests, ReadEntry(t) PROVE PassesAreTrue'
  BY <1>5 DEF ReadEntry, ReadLib, Go, Watched, Logged, Noted
<1>6. ASSUME NEW t \in Tests, GetPinned(t) PROVE PassesAreTrue'
  BY <1>6 DEF GetPinned, Go, Logged, Noted, Unpinned
<1>7. ASSUME NEW t \in Tests, ReadGenerator(t) PROVE PassesAreTrue'
  BY <1>7 DEF ReadGenerator, Go
<1>8. ASSUME NEW t \in Tests, TryIndex(t) PROVE PassesAreTrue'
  BY <1>8 DEF TryIndex, Go, Observed, Watched, Noted
<1>9. ASSUME NEW t \in Tests, Build(t) PROVE PassesAreTrue'
  BY <1>9 DEF Build, Go
<1>10. ASSUME NEW t \in Tests, ObserveClosure(t) PROVE PassesAreTrue'
  BY <1>10 DEF ObserveClosure, Go, Observed, Watched, Noted
<1>11. ASSUME NEW t \in Tests, Pin(t) PROVE PassesAreTrue'
  BY <1>11 DEF Pin, Go, Logged, Noted, Unpinned
<1>12. ASSUME NEW t \in Tests, LoadLib(t) PROVE PassesAreTrue'
  BY <1>12 DEF LoadLib, ReadLib, Go, Watched, Logged, Noted
<1>13. ASSUME NEW t \in Tests, RunTest(t) PROVE PassesAreTrue'
  <2>1. PICK o \in {"pass", "fail"},
      c \in Compiled(t) : at' = [at EXCEPT ![t] = o] /\ o \in Outcomes(c)
    BY <1>13, RunTestOutcome
  <2>2. PICK v \in used[t] : c["lib"] = v /\ c["gen"] = gen[t]
    BY <2>1 DEF Compiled
  <2>3. ASSUME o = "pass", log[t] \in Inputs, Cacheable(t) PROVE Outcomes(log[t]) = {"pass"}
    <3>1. log[t]["lib"] \in Versions /\ log[t]["gen"] \in Versions
      BY <2>3
    <3>2. v = log[t]["lib"]
      BY <2>2, <3>1
    <3>3. gen[t] = log[t]["gen"]
      <4>1. at[t] \in Have
        BY <1>13, RunTestEffect
      <4>2. pinned # Unpinned /\ gen[t] = pinned.gen /\ log[t]["gen"] = pinned.reads
        BY <4>1
      <4> QED BY <3>1, <4>2
    <3>4. v \notin Effectful
      BY <2>2, <2>3
    <3>5. v = gen[t]
      BY <2>1, <2>2, <2>3, <3>4 DEF Outcomes
    <3> QED BY <3>2, <3>3, <3>4, <3>5 DEF Outcomes
  <2>4. UNCHANGED <<log, used>>
    BY <1>13, RunTestEffect
  <2> QED BY <2>1, <2>3, <2>4
<1>14. ASSUME NEW t \in Tests, Store(t) PROVE PassesAreTrue'
  BY <1>14 DEF Store, Tracked, Go
<1>15. ASSUME BeginReport PROVE PassesAreTrue'
  BY <1>15 DEF BeginReport
<1>16. ASSUME NEW f \in Sources, Compare(f) PROVE PassesAreTrue'
  BY <1>16 DEF Compare
<1>17. ASSUME Exit PROVE PassesAreTrue'
  BY <1>17 DEF Exit, NoInputs, Unpinned
<1>18. ASSUME NEW f \in Sources, Edit(f) PROVE PassesAreTrue'
  BY <1>18 DEF Edit
<1>19. CASE UNCHANGED vars
  BY <1>19 DEF vars
<1> QED BY ZenonT(60), <1>1, <1>2, <1>3, <1>4, <1>5, <1>6, <1>7, <1>8, <1>9, <1>10, <1>11, <1>12, <1>13,
           <1>14, <1>15, <1>16, <1>17, <1>18, <1>19 DEF Next, Compile

LEMMA EntriesStep == IInv /\ TInv /\ [Next]_vars => EntriesAreTrue'
<1> SUFFICES ASSUME IInv /\ TInv, [Next]_vars PROVE EntriesAreTrue'
  OBVIOUS
<1> USE CacheAssumption DEF CacheAssumption, TypeOK, Sources, Inputs, NoInputs, IInv, TInv,
            Cacheable, PassesAreTrue, EntriesAreTrue, files, watch, shared, compile
<1>1. ASSUME Begin PROVE EntriesAreTrue'
  BY <1>1 DEF Begin
<1>2. ASSUME NEW f \in Sources, ReadNow(f) PROVE EntriesAreTrue'
  BY <1>2 DEF ReadNow
<1>3. ASSUME NEW t \in Tests, Lookup(t) PROVE EntriesAreTrue'
  BY <1>3 DEF Lookup, Moved, Asks, Go
<1>4. ASSUME StartTests PROVE EntriesAreTrue'
  BY <1>4 DEF StartTests
<1>5. ASSUME NEW t \in Tests, ReadEntry(t) PROVE EntriesAreTrue'
  BY <1>5 DEF ReadEntry, ReadLib, Go, Watched, Logged, Noted
<1>6. ASSUME NEW t \in Tests, GetPinned(t) PROVE EntriesAreTrue'
  BY <1>6 DEF GetPinned, Go, Logged, Noted, Unpinned
<1>7. ASSUME NEW t \in Tests, ReadGenerator(t) PROVE EntriesAreTrue'
  BY <1>7 DEF ReadGenerator, Go
<1>8. ASSUME NEW t \in Tests, TryIndex(t) PROVE EntriesAreTrue'
  BY <1>8 DEF TryIndex, Go, Observed, Watched, Noted
<1>9. ASSUME NEW t \in Tests, Build(t) PROVE EntriesAreTrue'
  BY <1>9 DEF Build, Go
<1>10. ASSUME NEW t \in Tests, ObserveClosure(t) PROVE EntriesAreTrue'
  BY <1>10 DEF ObserveClosure, Go, Observed, Watched, Noted
<1>11. ASSUME NEW t \in Tests, Pin(t) PROVE EntriesAreTrue'
  BY <1>11 DEF Pin, Go, Logged, Noted, Unpinned
<1>12. ASSUME NEW t \in Tests, LoadLib(t) PROVE EntriesAreTrue'
  BY <1>12 DEF LoadLib, ReadLib, Go, Watched, Logged, Noted
<1>13. ASSUME NEW t \in Tests, RunTest(t) PROVE EntriesAreTrue'
  <2>1. PICK o \in {"pass", "fail"} : at' = [at EXCEPT ![t] = o]
    BY <1>13, RunTestEffect
  <2> QED BY <1>13, <2>1, RunTestEffect
<1>14. ASSUME NEW t \in Tests, Store(t) PROVE EntriesAreTrue'
  BY <1>14 DEF Store, Tracked, Go
<1>15. ASSUME BeginReport PROVE EntriesAreTrue'
  BY <1>15 DEF BeginReport
<1>16. ASSUME NEW f \in Sources, Compare(f) PROVE EntriesAreTrue'
  BY <1>16 DEF Compare
<1>17. ASSUME Exit PROVE EntriesAreTrue'
  BY <1>17 DEF Exit, NoInputs, Unpinned
<1>18. ASSUME NEW f \in Sources, Edit(f) PROVE EntriesAreTrue'
  BY <1>18 DEF Edit
<1>19. CASE UNCHANGED vars
  BY <1>19 DEF vars
<1> QED BY <1>1, <1>2, <1>3, <1>4, <1>5, <1>6, <1>7, <1>8, <1>9, <1>10, <1>11, <1>12, <1>13,
           <1>14, <1>15, <1>16, <1>17, <1>18, <1>19 DEF Next, Compile

-----------------------------------------------------------------------------
LEMMA IInvInit == Init => IInv /\ TInv
<1> SUFFICES ASSUME Init PROVE IInv /\ TInv
  OBVIOUS
<1> USE CacheAssumption DEF CacheAssumption, Init, NoInputs, Sources
<1>1. TypeOK
  <2>1. NoInputs \in [Sources -> Read] /\ NoInputs \in [Sources -> Versions \cup {"none"}]
    BY DEF Read
  <2>2. Unpinned \in [gen : Versions \cup {"none"}, reads : Read]
    BY DEF Unpinned, Read
  <2>3. 0 \in 0..MaxRuns /\ 0 \in 0..MaxEdits
    OBVIOUS
  <2>4. log = [t \in Tests |-> NoInputs] /\ now = NoInputs /\ stamp = NoInputs /\ pinned = Unpinned
    OBVIOUS
  <2> HIDE DEF NoInputs
  <2> QED BY <2>1, <2>2, <2>3, <2>4 DEF TypeOK, Inputs, Read
<1>2. InTime /\ Noticed /\ Resolved /\ HitsAreCurrent
  BY DEF InTime, Noticed, Resolved, Finding, Have, HitsAreCurrent
<1>3. NoInputs \notin Inputs
  BY DEF Inputs
<1>4. EntriesAreTrue
  <2> HIDE DEF NoInputs
  <2> QED BY <1>3 DEF EntriesAreTrue
<1>5. TInv
  BY <1>4 DEF TInv, Undisturbed, Finding, PassesAreTrue
<1> QED BY <1>1, <1>2, <1>5 DEF IInv

LEMMA SpecIInv == Spec => []IInv
<1>1. IInv /\ [Next]_vars => IInv'
  BY TypeStep, InTimeStep, NoticedStep, ResolvedStep, HitsStep DEF IInv
<1> QED BY <1>1, IInvInit, PTL DEF Spec

(* The positions of every test, of the run and of what it shares.           *)
THEOREM CacheTypeOK == Spec => []TypeOK
BY SpecIInv, PTL DEF IInv

(* However many compiles resolve the generator at once, and whatever edits  *)
(* come between, a run has one.                                             *)
THEOREM CacheOneGenerator == Spec => []OneGenerator
<1>1. IInv => OneGenerator
  BY DEF IInv, Resolved, Have, OneGenerator
<1> QED BY <1>1, SpecIInv, PTL

(* No file is answered for what its sources held before the run.            *)
THEOREM CacheHitsAreCurrent == Spec => []HitsAreCurrent
BY SpecIInv, PTL DEF IInv

(* A run that ends without a change to report compiled one tree.            *)
THEOREM CacheSplitsAreReported == Spec => []SplitsAreReported
<1>1. IInv => SplitsAreReported
  <2> DEFINE Trees == UNION {Compiled(t) : t \in Tests}
             one == [f \in Sources |-> IF f = "lib" THEN stamp["lib"] ELSE pinned.gen]
  <2> SUFFICES ASSUME IInv, stage = "ended", changed = {} PROVE Cardinality(Trees) <= 1
    BY DEF SplitsAreReported
  <2>1. stamp["lib"] # "mixed"
    BY DEF IInv, Noticed
  <2>2. ASSUME NEW t \in Tests, NEW c \in Compiled(t) PROVE c = one
    <3>1. PICK v \in used[t] : c = [f \in Sources |-> IF f = "lib" THEN v ELSE gen[t]]
      BY DEF Compiled
    <3>2. v = stamp["lib"]
      BY <2>1, <3>1 DEF IInv, Noticed
    <3>3. gen[t] = pinned.gen
      BY <3>1 DEF IInv, Noticed, Resolved
    <3> QED BY <3>1, <3>2, <3>3
  <2>3. Trees \subseteq {one}
    BY <2>2
  <2>4. Cardinality(Trees) <= Cardinality({one}) /\ Cardinality({one}) = 1
    <3> HIDE DEF Trees, one
    <3> QED BY <2>3, FS_Singleton, FS_Subset
  <2> QED BY <2>4
<1> QED BY <1>1, SpecIInv, PTL

(* If no save of its source lands while the generator is resolved, a test   *)
(* compiled from the inputs its entry lists passes.                         *)
THEOREM CacheEntriesAreTrue == ~EditsInBuild /\ Spec => []EntriesAreTrue
<1> SUFFICES ASSUME ~EditsInBuild PROVE Spec => []EntriesAreTrue
  OBVIOUS
<1>1. IInv /\ TInv /\ [Next]_vars => TInv'
  BY UndisturbedStep, PassesStep, EntriesStep DEF IInv, TInv
<1>2. Spec => [](IInv /\ TInv)
  <2>1. IInv /\ [Next]_vars => IInv'
    BY TypeStep, InTimeStep, NoticedStep, ResolvedStep, HitsStep DEF IInv
  <2> QED BY <1>1, <2>1, IInvInit, PTL DEF Spec
<1> QED BY <1>2, PTL DEF TInv
=============================================================================
