------------------------------ MODULE KilnProofs ------------------------------
(***************************************************************************)
(* Theorems of Kiln for all projects, versions, file names and numbers of  *)
(* compiles: whatever others left behind, an invocation a compile is not   *)
(* crossed in comes out as RedirectsResolve, NeverSilentlyStale and        *)
(* OrphansGone say, and what is up to date is left alone.                  *)
(***************************************************************************)
EXTENDS Kiln, TLAPS

(* Where a compile is, and what it holds of its invocations.                *)
Control(p, i) ==
    /\ stage[p] = "idle" => verdict[p][i] = "todo"
    /\ verdict[p][i] # "todo" => i \in Plan(p)
    /\ verdict[p][i] = "now" => /\ stage[p] \in {"key", "check", "load", "write", "save"}
                                /\ \A j \in Inv : verdict[p][j] = "now" => j = i
    /\ stage[p] \in {"clean", "use"} /\ i \in Plan(p) => verdict[p][i] \notin {"todo", "now"}

(* What is current is among what was since it began.                        *)
Since(p, i) == Works(p, i) => gen \in gens[p] /\ held[p] \in gens[p] /\ src[i] \in srcs[p][i]

(* A compile is at a key that was current meanwhile, a part at a time.      *)
Keyed(p, i) ==
    /\ verdict[p][i] \in {"hit", "modified", "ran"} => meta[p][i] \in Meanwhile(p, i)
    /\ verdict[p][i] = "now" /\ stage[p] \in {"check", "write", "save"} =>
         meta[p][i] \in Meanwhile(p, i) /\ left[p] \subseteq FilesOf(i, meta[p][i])
    /\ verdict[p][i] = "now" /\ stage[p] = "save" => left[p] = {}
    /\ stage[p] = "clean" => \A f \in Files : <<i, f>> \in left[p] =>
         \/ verdict[p][i] = "ran" /\ f \notin Emits[meta[p][i]]
         \/ i \in Unkept(p)

(* Whoever works beside a compile in what it is not crossed in works at the *)
(* versions it works at, and nobody sweeps that.                            *)
Beside(p, i) == Works(p, i) /\ i \notin crossed[p] =>
    \A q \in Compiles : ~Swept(q, i) /\ (q # p /\ Works(q, i) => Steady(p, i) /\ Steady(q, i))

(* A file of the outputs in hand that was visited already.                  *)
Visited(p, i, f) == f \in Emits[meta[p][i]] /\ <<i, f>> \notin left[p]

InHand(p, i) == verdict[p][i] = "now" =>
    /\ stage[p] = "check" => \A f \in Files : Visited(p, i, f) =>
         disk[i][f] # None /\ (~modified[p] => disk[i][f] = meta[p][i])
    /\ stage[p] \in {"write", "save"} => \A f \in Files : Visited(p, i, f) => disk[i][f] = meta[p][i]

Settled(p, i) ==
    /\ verdict[p][i] = "modified" => disk[i][EntryOf[meta[p][i]]] # None
    /\ verdict[p][i] \in {"hit", "ran"} => \A f \in Emits[meta[p][i]] : disk[i][f] = meta[p][i]

(* What is neither kept nor gone is still to be visited.                    *)
Cleaning(p, i) == verdict[p][i] = "ran" =>
    \A f \in Files \ Emits[meta[p][i]] : disk[i][f] # None =>
        /\ stage[p] = "clean" => <<i, f>> \in left[p]
        /\ stage[p] = "use" => "stale" \in Verdicts(p)

Outputs(p, i) == i \notin crossed[p] => InHand(p, i) /\ Settled(p, i) /\ Cleaning(p, i)

Pair(p, i) == Control(p, i) /\ Since(p, i) /\ Keyed(p, i) /\ Beside(p, i) /\ Outputs(p, i)

IInv == TypeOK /\ \A p \in Compiles, i \in Inv : Pair(p, i)

(* What a step of p leaves alone.                                           *)
Others(p) == \A q \in Compiles \ {p} :
    /\ stage'[q] = stage[q] /\ held'[q] = held[q] /\ verdict'[q] = verdict[q]
    /\ meta'[q] = meta[q] /\ left'[q] = left[q] /\ modified'[q] = modified[q]
    /\ gens'[q] = gens[q] /\ srcs'[q] = srcs[q]

(* A step of p that neither changes what is current nor begins to clean.    *)
Within(p) ==
    /\ UNCHANGED <<project, gen, src, gens, srcs, crossed, held>>
    /\ Active(p) /\ Active(p)'
    /\ stage'[p] = "clean" => stage[p] = "clean" /\ verdict'[p] = verdict[p]

(* A step of p in its invocation i.                                         *)
Working(p, i) ==
    /\ Within(p) /\ Others(p) /\ i \in Plan(p)
    /\ {stage[p], stage'[p]} \subseteq {"next", "key", "check", "load", "write", "save"}
    /\ verdict'[p][i] = "now" => stage'[p] # "next"
    /\ \A j \in Inv \ {i} : /\ verdict[p][j] # "now" /\ verdict'[p][j] = verdict[p][j]
                            /\ meta'[p][j] = meta[p][j] /\ disk'[j] = disk[j]

-----------------------------------------------------------------------------
LEMMA Emitted ==
    \A k \in Keys : /\ Emits[k] \subseteq Files /\ EntryOf[k] \in Emits[k]
                    /\ k # None
                    /\ \A i \in Inv : FilesOf(i, k) \subseteq Inv \X Files
BY KilnAssumption DEF KilnAssumption, FilesOf

LEMMA TypeInit == Init => TypeOK
<1> SUFFICES ASSUME Init PROVE TypeOK
  OBVIOUS
<1>1. project.edits \in Nat /\ project.stops \in Nat /\ src \in [Inv -> Versions]
  BY KilnAssumption DEF KilnAssumption, Init
<1> QED BY <1>1 DEF Init, TypeOK

LEMMA IInvInit == Init => IInv
BY TypeInit DEF Init, IInv, Pair, Control, Since, Keyed, Beside, Outputs, InHand, Settled,
                Cleaning, Works, Active

(* A compile that has an invocation in hand works on it, with a generator.  *)
LEMMA HandWorks ==
    ASSUME IInv, NEW p \in Compiles, NEW i \in Inv, verdict[p][i] # "todo"
    PROVE  /\ Works(p, i) /\ i \in Plan(p) /\ held[p] \in Generators
           /\ held[p] \in gens[p] /\ src[i] \in srcs[p][i]
           /\ <<held[p], src[i]>> \in Keys /\ <<held[p], src[i]>> \in Meanwhile(p, i)
<1>1. Pair(p, i) /\ gens[p] \subseteq Generators /\ src[i] \in Versions
  BY DEF IInv, TypeOK
<1>2. Works(p, i) /\ i \in Plan(p)
  BY <1>1 DEF Pair, Control, Works, Active
<1>3. held[p] \in gens[p] /\ src[i] \in srcs[p][i]
  BY <1>1, <1>2 DEF Pair, Since
<1> QED BY <1>1, <1>2, <1>3 DEF Keys, Meanwhile

(* Where nothing changed, there is one key.                                 *)
LEMMA OneKey ==
    ASSUME NEW p \in Compiles, NEW i \in Inv, Steady(p, i), NEW k \in Meanwhile(p, i)
    PROVE  k = Current(i)
BY DEF Steady, Meanwhile, Current

LEMMA TypeStep == IInv /\ [Next]_vars => TypeOK'
<1> SUFFICES ASSUME IInv, TypeOK, [Next]_vars PROVE TypeOK'
  BY DEF IInv
<1> USE DEF TypeOK, Go, Ticks, ToDo, tree, sources, history
<1>1. ASSUME NEW p \in Compiles, NEW i \in Inv, LoadRecord(p, i) PROVE TypeOK'
  BY <1>1 DEF LoadRecord
<1>2. ASSUME NEW p \in Compiles, NEW i \in Inv, ConsumeOnly(p, i) \/ Reuse(p, i) PROVE TypeOK'
  <2>1. PICK what \in {"stale", "modified", "hit"} :
          verdict' = [verdict EXCEPT ![p] = [verdict[p] EXCEPT ![i] = what]]
    BY <1>2 DEF ConsumeOnly, Reuse, Ends
  <2>2. verdict' \in [Compiles ->
                       [Inv -> {"todo", "now", "hit", "modified", "stale", "ran"}]]
    BY <2>1
  <2>3. CASE ConsumeOnly(p, i)
    BY <2>2, <2>3 DEF ConsumeOnly, Ends
  <2>4. CASE Reuse(p, i)
    BY <2>2, <2>4 DEF Reuse, Ends
  <2> QED BY <1>2, <2>3, <2>4
<1>3. ASSUME NEW p \in Compiles, NEW i \in Inv, MatchKey(p, i) PROVE TypeOK'
  <2>1. Matches(p, i) => FilesOf(i, meta[p][i]) \subseteq Inv \X Files
    <3>1. <<held[p], src[i]>> \in Keys
      BY <1>3, HandWorks DEF MatchKey
    <3> QED BY <3>1, Emitted DEF Matches
  <2> QED BY <1>3, <2>1 DEF MatchKey
<1>4. ASSUME NEW p \in Compiles, NEW i \in Inv, CheckOutput(p, i) PROVE TypeOK'
  BY <1>4 DEF CheckOutput
<1>5. ASSUME NEW p \in Compiles, NEW i \in Inv, Execute(p, i) PROVE TypeOK'
  <2> DEFINE k == <<held[p], src[i]>>
  <2>1. k \in Keys /\ FilesOf(i, k) \subseteq Inv \X Files
    BY <1>5, HandWorks, Emitted DEF Execute
  <2>2. meta' = [meta EXCEPT ![p] = [meta[p] EXCEPT ![i] = k]] /\ meta'[p][i] = k
    BY <1>5 DEF Execute
  <2>3. left' = [left EXCEPT ![p] = FilesOf(i, k)]
    BY <1>5, <2>2 DEF Execute
  <2>4. /\ stage' \in [Compiles ->
              {"idle", "next", "key", "check", "load", "write", "save", "clean", "use"}]
        /\ UNCHANGED <<tree, held, verdict, modified, history, edits, stops>>
    BY <1>5 DEF Execute
  <2> HIDE DEF k
  <2>5. left' \in [Compiles -> SUBSET (Inv \X Files)]
    BY <2>1, <2>3
  <2>6. meta' \in [Compiles -> [Inv -> Keys \cup {None}]]
    BY <2>1, <2>2
  <2> QED BY <2>4, <2>5, <2>6
<1>6. ASSUME NEW p \in Compiles, NEW i \in Inv, WriteOutput(p, i) PROVE TypeOK'
  BY <1>6 DEF WriteOutput
<1>7. ASSUME NEW p \in Compiles, NEW i \in Inv, SaveRecord(p, i) PROVE TypeOK'
  BY <1>7 DEF SaveRecord, Ends
<1>8. ASSUME NEW p \in Compiles, Begin(p) PROVE TypeOK'
  <2>1. [i \in Inv |-> IF i \in Plan(p) THEN {src[i]} ELSE {}] \in [Inv -> SUBSET Versions]
    OBVIOUS
  <2>2. Plan(p) \subseteq Inv
    BY KilnAssumption DEF KilnAssumption, Plan
  <2>3. crossed' \in [Compiles -> SUBSET Inv]
    BY <1>8, <2>2 DEF Begin
  <2> QED BY <1>8, <2>1, <2>3 DEF Begin
<1>9. ASSUME NEW p \in Compiles, BeginClean(p) PROVE TypeOK'
  <2>1. {i \in Inv : Cleaned(p, i)} \X Files \subseteq Inv \X Files /\ Unkept(p) \subseteq Inv
    BY DEF Unkept
  <2>2. CASE "stale" \in Verdicts(p)
    BY <1>9, <2>2 DEF BeginClean
  <2>3. CASE "stale" \notin Verdicts(p)
    <3>1. PICK left0 \in SUBSET (Inv \X Files) : left' = [left EXCEPT ![p] = left0]
      BY <1>9, <2>1, <2>3 DEF BeginClean
    <3>2. crossed' \in [Compiles -> SUBSET Inv]
      BY <1>9, <2>1, <2>3 DEF BeginClean
    <3> QED BY <1>9, <2>3, <3>1, <3>2 DEF BeginClean
  <2> QED BY <2>2, <2>3
<1>10. ASSUME NEW p \in Compiles, VisitFile(p) PROVE TypeOK'
  BY <1>10 DEF VisitFile
<1>11. ASSUME NEW p \in Compiles, EndClean(p) PROVE TypeOK'
  BY <1>11 DEF EndClean
<1>12. ASSUME NEW p \in Compiles, Use(p) \/ Stop(p) PROVE TypeOK'
  <2>1. stops' \in 0..project.stops /\ project' = project
    BY <1>12, KilnAssumption DEF Use, Stop, Leave, KilnAssumption
  <2>2. Leave(p)
    BY <1>12 DEF Use, Stop
  <2>3. [i \in Inv |-> {}] \in [Inv -> SUBSET Versions] /\ srcs' \in [Compiles -> [Inv -> SUBSET Versions]]
    BY <2>2 DEF Leave
  <2>4. [i \in Inv |-> "todo"] \in [Inv -> {"todo", "now", "hit", "modified", "stale", "ran"}]
    OBVIOUS
  <2>5. [i \in Inv |-> None] \in [Inv -> Keys \cup {None}]
    OBVIOUS
  <2> QED BY <2>1, <2>2, <2>3, <2>4, <2>5 DEF Leave
<1>13. ASSUME Acts PROVE edits' \in 0..project.edits /\ project' = project
  BY <1>13, KilnAssumption DEF Acts, KilnAssumption
<1>14. ASSUME EditGenerator PROVE TypeOK'
  BY <1>13, <1>14 DEF EditGenerator, Acts, Crossing
<1>15. ASSUME NEW i \in Inv, EditSource(i) PROVE TypeOK'
  <2>1. PICK v \in Versions :
          /\ src' = [src EXCEPT ![i] = v]
          /\ srcs' = [p \in Compiles |->
               IF Works(p, i) THEN [srcs[p] EXCEPT ![i] = @ \cup {v}] ELSE srcs[p]]
    BY <1>15 DEF EditSource
  <2>2. srcs' \in [Compiles -> [Inv -> SUBSET Versions]]
    BY <2>1
  <2>3. crossed' \in [Compiles -> SUBSET Inv]
    BY <1>15 DEF EditSource, Crossing
  <2> QED BY <1>13, <1>15, <2>1, <2>2, <2>3 DEF EditSource, Acts
<1>16. ASSUME NEW i \in Inv, Tamper(i) PROVE TypeOK'
  BY <1>13, <1>16 DEF Tamper, Acts
<1>17. CASE UNCHANGED vars
  BY <1>17 DEF vars
<1>18. \A p \in Compiles : Plan(p) \subseteq Inv
  BY KilnAssumption DEF KilnAssumption, Plan
<1> QED BY <1>1, <1>2, <1>3, <1>4, <1>5, <1>6, <1>7, <1>8, <1>9, <1>10, <1>11, <1>12, <1>14,
           <1>15, <1>16, <1>17, <1>18 DEF Next, Invocation

-----------------------------------------------------------------------------
(* One step of one compile.                                                 *)

LEMMA BesideKept ==
    ASSUME IInv, NEW p \in Compiles, Within(p), Others(p), NEW q \in Compiles, NEW j \in Inv
    PROVE  Since(q, j)' /\ Beside(q, j)'
<1>1. Since(q, j) /\ Beside(q, j)
  BY DEF IInv, Pair
<1>2. \A r \in Compiles : /\ Works(r, j)' <=> Works(r, j)
                          /\ Steady(r, j)' <=> Steady(r, j)
                          /\ Swept(r, j)' => Swept(r, j)
  <2> TAKE r \in Compiles
  <2>1. CASE r = p
    BY <2>1 DEF Within, Works, Active, Plan, Steady, Swept, Unkept, Cleaned, SameDir
  <2>2. CASE r # p
    BY <2>2 DEF Within, Others, Works, Active, Plan, Steady, Swept, Unkept, Cleaned, SameDir
  <2> QED BY <2>1, <2>2
<1> QED BY <1>1, <1>2 DEF Within, Since, Beside

LEMMA OthersPair ==
    ASSUME IInv, NEW p \in Compiles, Within(p), Others(p), NEW q \in Compiles \ {p},
           NEW j \in Inv, disk'[j] = disk[j]
    PROVE  Pair(q, j)'
<1>1. Pair(q, j) /\ Since(q, j)' /\ Beside(q, j)'
  BY BesideKept DEF IInv, Pair
<1>2. /\ stage'[q] = stage[q] /\ verdict'[q] = verdict[q] /\ meta'[q] = meta[q]
      /\ left'[q] = left[q] /\ modified'[q] = modified[q] /\ Plan(q)' = Plan(q)
      /\ crossed' = crossed /\ Meanwhile(q, j)' = Meanwhile(q, j) /\ project' = project
  BY DEF Others, Within, Plan, Meanwhile
<1>3. Control(q, j)'
  BY <1>1, <1>2 DEF Pair, Control
<1>4. Keyed(q, j)'
  BY <1>1, <1>2 DEF Pair, Keyed, Unkept, Cleaned, SameDir
<1>5. Outputs(q, j)'
  BY <1>1, <1>2 DEF Pair, Outputs, InHand, Visited, Settled, Cleaning, Verdicts
<1> QED BY <1>1, <1>3, <1>4, <1>5 DEF Pair

(* It is enough to look at the invocation in hand.                          *)
LEMMA WorkingKeeps ==
    ASSUME IInv, NEW p \in Compiles, NEW i \in Inv, Working(p, i),
           disk'[i] # disk[i] => \A q \in Compiles \ {p} : Pair(q, i)',
           Keyed(p, i)', Outputs(p, i)'
    PROVE  \A q \in Compiles, j \in Inv : Pair(q, j)'
<1> SUFFICES ASSUME NEW q \in Compiles, NEW j \in Inv PROVE Pair(q, j)'
  OBVIOUS
<1> USE DEF Working
<1>1. CASE q # p
  BY <1>1, OthersPair
<1>2. CASE q = p /\ j # i
  <2>1. Pair(p, j) /\ Since(p, j)' /\ Beside(p, j)'
    BY BesideKept DEF IInv, Pair
  <2>2. /\ Plan(p)' = Plan(p) /\ Meanwhile(p, j)' = Meanwhile(p, j) /\ crossed' = crossed
        /\ verdict'[p][j] = verdict[p][j] /\ verdict[p][j] # "now"
        /\ meta'[p][j] = meta[p][j] /\ disk'[j] = disk[j]
    BY <1>2 DEF Within, Plan, Meanwhile
  <2>3. Control(p, j)' /\ Keyed(p, j)'
    BY <2>1, <2>2 DEF Pair, Control, Keyed
  <2>4. Outputs(p, j)'
    BY <2>1, <2>2 DEF Pair, Outputs, InHand, Settled, Cleaning
  <2> QED BY <1>2, <2>1, <2>3, <2>4 DEF Pair
<1>3. CASE q = p /\ j = i
  <2>1. Since(p, i)' /\ Beside(p, i)'
    BY BesideKept
  <2>2. Control(p, i)'
    BY DEF Control, Within, Plan
  <2> QED BY <1>3, <2>1, <2>2 DEF Pair
<1> QED BY <1>1, <1>2, <1>3
LEMMA InvocationWorks ==
    ASSUME IInv, NEW p \in Compiles, NEW i \in Inv, Invocation(p, i)
    PROVE  Working(p, i) /\ verdict[p][i] \in {"todo", "now"}
<1> USE DEF Go, Ticks, ToDo, tree, sources, history
<1>1. TypeOK /\ \A j \in Inv : Control(p, j)
  BY DEF IInv, Pair
<1>2. CASE LoadRecord(p, i)
  <2>1. \A j \in Inv : verdict[p][j] # "now"
    BY <1>1, <1>2 DEF LoadRecord, Control
  <2> QED BY <1>1, <1>2, <2>1 DEF LoadRecord, Working, Within, Others, Active, TypeOK
<1>3. CASE verdict[p][i] = "now"
  <2>1. i \in Plan(p) /\ \A j \in Inv \ {i} : verdict[p][j] # "now"
    BY <1>1, <1>3 DEF Control
  <2> USE <1>1, <1>3, <2>1 DEF Working, Within, Others, Active, TypeOK
  <2>2. CASE ConsumeOnly(p, i)
    BY <2>2 DEF ConsumeOnly, Ends
  <2>3. CASE MatchKey(p, i)
    BY <2>3 DEF MatchKey
  <2>4. CASE CheckOutput(p, i)
    BY <2>4 DEF CheckOutput
  <2>5. CASE Reuse(p, i)
    BY <2>5 DEF Reuse, Ends
  <2>6. CASE Execute(p, i)
    BY <2>6 DEF Execute
  <2>7. CASE WriteOutput(p, i)
    BY <2>7 DEF WriteOutput
  <2>8. CASE SaveRecord(p, i)
    BY <2>8 DEF SaveRecord, Ends
  <2> QED BY <2>2, <2>3, <2>4, <2>5, <2>6, <2>7, <2>8, <1>2 DEF Invocation, LoadRecord
<1> QED BY <1>2, <1>3 DEF Invocation, LoadRecord, ConsumeOnly, MatchKey, CheckOutput, Reuse,
                          Execute, WriteOutput, SaveRecord, Ends
(* What one of p's steps makes of the invocation in hand.                   *)
LEMMA QuietKeeps ==
    ASSUME IInv, NEW p \in Compiles, NEW i \in Inv,
           LoadRecord(p, i) \/ ConsumeOnly(p, i) \/ MatchKey(p, i) \/ Execute(p, i)
    PROVE  Keyed(p, i)' /\ Outputs(p, i)'
<1> USE DEF Go, ToDo, tree, sources, history
<1>1. Working(p, i) /\ TypeOK /\ Meanwhile(p, i)' = Meanwhile(p, i)
  BY InvocationWorks DEF Invocation, Working, Within, Meanwhile, IInv
<1>2. CASE LoadRecord(p, i)
  BY <1>1, <1>2 DEF LoadRecord, Keyed, Outputs, InHand, Settled, Cleaning, TypeOK
<1>3. CASE ConsumeOnly(p, i)
  BY <1>1, <1>3 DEF ConsumeOnly, Ends, Keyed, Outputs, InHand, Settled, Cleaning, TypeOK
<1>4. CASE MatchKey(p, i)
  <2>1. <<held[p], src[i]>> \in Meanwhile(p, i)
    BY <1>4, HandWorks DEF MatchKey
  <2>2. verdict'[p][i] = "now" /\ stage'[p] \in {"check", "load"} /\ meta' = meta
    BY <1>1, <1>4 DEF MatchKey, TypeOK
  <2>3. stage'[p] = "check" => /\ meta[p][i] = <<held[p], src[i]>>
                               /\ left'[p] = FilesOf(i, meta[p][i])
    BY <1>1, <1>4 DEF MatchKey, Matches, TypeOK
  <2>4. Keyed(p, i)'
    BY <1>1, <2>1, <2>2, <2>3 DEF Keyed, FilesOf
  <2>5. Outputs(p, i)'
    BY <2>2, <2>3 DEF Outputs, InHand, Visited, FilesOf, Settled, Cleaning
  <2> QED BY <2>4, <2>5
<1>5. CASE Execute(p, i)
  <2>1. <<held[p], src[i]>> \in Meanwhile(p, i)
    BY <1>5, HandWorks DEF Execute
  <2>2. verdict'[p][i] = "now" /\ stage'[p] = "write"
    BY <1>1, <1>5 DEF Execute, TypeOK
  <2>3. meta'[p][i] = <<held[p], src[i]>> /\ left'[p] = FilesOf(i, meta'[p][i])
    BY <1>1, <1>5 DEF Execute, TypeOK
  <2>4. Keyed(p, i)'
    BY <1>1, <2>1, <2>2, <2>3 DEF Keyed, FilesOf
  <2>5. Outputs(p, i)'
    BY <2>2, <2>3 DEF Outputs, InHand, Visited, FilesOf, Settled, Cleaning
  <2> QED BY <2>4, <2>5
<1> QED BY <1>2, <1>3, <1>4, <1>5

LEMMA CheckOutputKeeps ==
    ASSUME IInv, NEW p \in Compiles, NEW i \in Inv, CheckOutput(p, i)
    PROVE  Keyed(p, i)' /\ Outputs(p, i)'
<1>1. TypeOK /\ Pair(p, i) /\ Meanwhile(p, i)' = Meanwhile(p, i)
  BY DEF CheckOutput, history, Meanwhile, IInv
<1>2. PICK f \in Files :
        /\ verdict[p][i] = "now" /\ stage[p] = "check" /\ <<i, f>> \in left[p]
        /\ left' = [left EXCEPT ![p] = left[p] \ {<<i, f>>}]
        /\ stage' = [stage EXCEPT ![p] = IF disk[i][f] = None THEN "load" ELSE "check"]
        /\ modified' = [modified EXCEPT ![p] = @ \/ disk[i][f] # meta[p][i]]
        /\ UNCHANGED <<disk, verdict, meta, crossed>>
  BY DEF CheckOutput, Ticks, ToDo, Go, tree, history
<1>3. /\ left'[p] = left[p] \ {<<i, f>>}
      /\ stage'[p] = IF disk[i][f] = None THEN "load" ELSE "check"
      /\ modified'[p] = (modified[p] \/ disk[i][f] # meta[p][i])
  BY <1>1, <1>2 DEF TypeOK
<1>4. Keyed(p, i)'
  BY <1>1, <1>2, <1>3 DEF Keyed, Pair
<1>5. ASSUME i \notin crossed[p] PROVE InHand(p, i)'
  <2> SUFFICES ASSUME stage'[p] = "check", NEW h \in Files, Visited(p, i, h)'
               PROVE  disk[i][h] # None /\ (~modified'[p] => disk[i][h] = meta[p][i])
    BY <1>2, <1>3 DEF InHand
  <2>1. CASE h = f
    BY <1>3, <2>1
  <2>2. CASE h # f
    BY <1>1, <1>2, <1>3, <1>5, <2>2 DEF Pair, Outputs, InHand, Visited
  <2> QED BY <2>1, <2>2
<1>6. Settled(p, i)' /\ Cleaning(p, i)'
  BY <1>2 DEF Settled, Cleaning
<1> QED BY <1>2, <1>4, <1>5, <1>6 DEF Outputs

LEMMA EndsKeep ==
    ASSUME IInv, NEW p \in Compiles, NEW i \in Inv, Reuse(p, i) \/ SaveRecord(p, i)
    PROVE  Keyed(p, i)' /\ Outputs(p, i)'
<1>1. /\ TypeOK /\ Pair(p, i) /\ Meanwhile(p, i)' = Meanwhile(p, i)
      /\ verdict[p][i] = "now" /\ stage[p] \in {"check", "save"} /\ stage'[p] = "next"
      /\ UNCHANGED <<disk, meta, crossed>>
  BY DEF Reuse, SaveRecord, Ends, Go, tree, history, Meanwhile, IInv, TypeOK
<1>2. left[p] = {} /\ meta[p][i] \in Meanwhile(p, i)
  BY <1>1 DEF Reuse, SaveRecord, Go, Pair, Keyed, TypeOK
<1>3. /\ verdict'[p][i] \in {"hit", "modified", "ran"}
      /\ stage[p] = "check" /\ modified[p] => verdict'[p][i] = "modified"
  BY <1>1 DEF Reuse, SaveRecord, Ends, Go, TypeOK
<1>4. Keyed(p, i)'
  BY <1>1, <1>2, <1>3 DEF Keyed
<1>5. Works(p, i)
  BY <1>1, HandWorks
<1>6. meta[p][i] \in Keys
  BY <1>1, <1>2 DEF Meanwhile, Keys, TypeOK
<1>7. ASSUME i \notin crossed[p] PROVE Settled(p, i)'
  <2>1. \A f \in Emits[meta[p][i]] :
          disk[i][f] # None /\ (verdict'[p][i] # "modified" => disk[i][f] = meta[p][i])
    BY <1>1, <1>2, <1>3, <1>6, <1>7, Emitted DEF Pair, Outputs, InHand, Visited, TypeOK
  <2> QED BY <1>1, <1>6, <2>1, Emitted DEF Settled
<1>8. InHand(p, i)' /\ Cleaning(p, i)'
  BY <1>1, <1>3 DEF InHand, Cleaning
<1> QED BY <1>1, <1>4, <1>7, <1>8 DEF Outputs
(* Two compiles at work on an invocation the second is not crossed in.      *)
LEMMA Alike ==
    ASSUME IInv, NEW p \in Compiles, NEW q \in Compiles \ {p}, NEW i \in Inv,
           Works(p, i), Works(q, i), i \notin crossed[q]
    PROVE  /\ ~Swept(p, i) /\ ~Swept(q, i)
           /\ \A k \in Meanwhile(p, i) \cup Meanwhile(q, i) : k = Current(i)
BY OneKey DEF IInv, Pair, Beside

(* A file of the key a compile is at is written, or one that is none of     *)
(* them is removed: those the others are not crossed in are none the worse. *)
LEMMA OthersFile ==
    ASSUME IInv, NEW p \in Compiles, Within(p), Others(p),
           NEW q \in Compiles \ {p}, NEW i \in Inv, NEW f \in Files, NEW what,
           disk' = [disk EXCEPT ![i][f] = what],
           \/ Swept(p, i)
           \/ /\ Works(p, i) /\ meta[p][i] \in Meanwhile(p, i)
              /\ what = IF f \in Emits[meta[p][i]] THEN meta[p][i] ELSE None
    PROVE  \A j \in Inv : Pair(q, j)'
<1> SUFFICES ASSUME NEW j \in Inv, j = i PROVE Pair(q, j)'
  <2>1. \A j \in Inv \ {i} : disk'[j] = disk[j]
    BY DEF IInv, TypeOK
  <2> QED BY <2>1, OthersPair
<1>1. TypeOK /\ Pair(q, i) /\ Since(q, i)' /\ Beside(q, i)'
  BY BesideKept DEF IInv, Pair
<1>2. /\ stage'[q] = stage[q] /\ verdict'[q] = verdict[q] /\ meta'[q] = meta[q]
      /\ left'[q] = left[q] /\ modified'[q] = modified[q] /\ Plan(q)' = Plan(q)
      /\ crossed' = crossed /\ Meanwhile(q, i)' = Meanwhile(q, i) /\ project' = project
  BY DEF Others, Within, Plan, Meanwhile
<1>3. Control(q, i)' /\ Keyed(q, i)'
  BY <1>1, <1>2 DEF Pair, Control, Keyed, Unkept, Cleaned, SameDir
<1>4. ASSUME i \notin crossed[q] PROVE InHand(q, i)' /\ Settled(q, i)' /\ Cleaning(q, i)'
  <2>1. CASE verdict[q][i] = "todo"
    BY <1>2, <2>1 DEF InHand, Settled, Cleaning
  <2>2. CASE verdict[q][i] # "todo"
    <3> DEFINE k == Current(i)
    <3>1. Works(q, i)
      BY <2>2, HandWorks
    <3>2. ~Swept(p, i)
      BY <1>1, <1>4, <3>1 DEF Pair, Beside
    <3>3. meta[p][i] = k /\ \A x \in Meanwhile(q, i) : x = k
      BY <1>4, <3>1, <3>2, Alike
    <3>4. k \in Keys
      BY <1>1 DEF Current, Keys, TypeOK
    <3>5. /\ EntryOf[k] \in Emits[k] /\ k # None
          /\ disk'[i][f] = (IF f \in Emits[k] THEN k ELSE None)
          /\ \A h \in Files \ {f} : disk'[i][h] = disk[i][h]
          /\ Emits[k] \subseteq Files
      BY <1>1, <3>2, <3>3, <3>4, Emitted DEF TypeOK
    <3> HIDE DEF k
    <3>6. InHand(q, i)'
      BY <1>1, <1>2, <1>4, <3>3, <3>5 DEF Pair, Keyed, Outputs, InHand, Visited
    <3>7. Settled(q, i)'
      BY <1>1, <1>2, <1>4, <3>3, <3>5 DEF Pair, Keyed, Outputs, Settled
    <3>8. Cleaning(q, i)'
      BY <1>1, <1>2, <1>4, <3>3, <3>5 DEF Pair, Keyed, Outputs, Cleaning, Verdicts
    <3> QED BY <3>6, <3>7, <3>8
  <2> QED BY <2>1, <2>2
<1> QED BY <1>1, <1>2, <1>3, <1>4 DEF Pair, Outputs

LEMMA WriteOutputKeeps ==
    ASSUME IInv, NEW p \in Compiles, NEW i \in Inv, WriteOutput(p, i)
    PROVE  Keyed(p, i)' /\ Outputs(p, i)' /\ \A q \in Compiles \ {p} : Pair(q, i)'
<1>1. TypeOK /\ Pair(p, i) /\ Meanwhile(p, i)' = Meanwhile(p, i) /\ Works(p, i)
  BY HandWorks DEF WriteOutput, history, Meanwhile, IInv
<1>2. PICK f \in Files :
        /\ verdict[p][i] = "now" /\ stage[p] = "write" /\ <<i, f>> \in left[p]
        /\ left' = [left EXCEPT ![p] = left[p] \ {<<i, f>>}]
        /\ stage' = [stage EXCEPT ![p] = IF left'[p] = {} THEN "save" ELSE "write"]
        /\ disk' = [disk EXCEPT ![i][f] = meta[p][i]]
        /\ UNCHANGED <<verdict, meta, modified, crossed>>
  BY DEF WriteOutput, Ticks, ToDo, Go, history
<1>3. /\ left'[p] = left[p] \ {<<i, f>>} /\ disk'[i][f] = meta[p][i]
      /\ stage'[p] = IF left'[p] = {} THEN "save" ELSE "write"
      /\ \A h \in Files \ {f} : disk'[i][h] = disk[i][h]
  BY <1>1, <1>2 DEF TypeOK
<1>4. /\ meta[p][i] \in Meanwhile(p, i) /\ f \in Emits[meta[p][i]]
      /\ left[p] \subseteq FilesOf(i, meta[p][i])
  BY <1>1, <1>2 DEF Pair, Keyed, FilesOf
<1>5. Keyed(p, i)'
  BY <1>1, <1>2, <1>3, <1>4 DEF Keyed
<1>6. ASSUME i \notin crossed[p] PROVE InHand(p, i)'
  <2> SUFFICES ASSUME NEW h \in Files, Visited(p, i, h)' PROVE disk'[i][h] = meta[p][i]
    BY <1>2, <1>3 DEF InHand
  <2>1. CASE h = f
    BY <1>3, <2>1
  <2>2. CASE h # f
    BY <1>1, <1>2, <1>3, <1>6, <2>2 DEF Pair, Outputs, InHand, Visited
  <2> QED BY <2>1, <2>2
<1>7. Settled(p, i)' /\ Cleaning(p, i)'
  BY <1>2 DEF Settled, Cleaning
<1>8. \A q \in Compiles \ {p} : Pair(q, i)'
  BY <1>1, <1>2, <1>4, InvocationWorks, OthersFile DEF Invocation, Working
<1> QED BY <1>2, <1>5, <1>6, <1>7, <1>8 DEF Outputs

LEMMA InvocationKeeps ==
    ASSUME IInv, NEW p \in Compiles, NEW i \in Inv, Invocation(p, i)
    PROVE  \A q \in Compiles, j \in Inv : Pair(q, j)'
<1>1. Keyed(p, i)' /\ Outputs(p, i)'
  BY QuietKeeps, CheckOutputKeeps, EndsKeep, WriteOutputKeeps DEF Invocation
<1>2. disk'[i] # disk[i] => \A q \in Compiles \ {p} : Pair(q, i)'
  BY WriteOutputKeeps DEF Invocation, LoadRecord, ConsumeOnly, MatchKey, CheckOutput, Reuse,
                          Execute, SaveRecord, tree
<1> QED BY <1>1, <1>2, InvocationWorks, WorkingKeeps
-----------------------------------------------------------------------------
(* The steps a compile begins, cleans and ends with.                        *)

LEMMA BeginKeeps ==
    ASSUME IInv, NEW p \in Compiles, Begin(p)
    PROVE  \A q \in Compiles, j \in Inv : Pair(q, j)'
<1> SUFFICES ASSUME NEW q \in Compiles, NEW j \in Inv PROVE Pair(q, j)'
  OBVIOUS
<1> USE DEF Go, tree, sources
<1>1. TypeOK /\ Pair(q, j) /\ Control(p, j)
  BY DEF IInv, Pair
<1>2. /\ stage[p] = "idle" /\ stage'[p] = "next" /\ held'[p] = gen /\ gens'[p] = {gen}
      /\ srcs'[p][j] = (IF j \in Plan(p) THEN {src[j]} ELSE {})
      /\ UNCHANGED <<project, gen, src, disk, verdict, meta, left, modified>>
      /\ Others(p)
  BY <1>1 DEF Begin, TypeOK, Others
<1>3. /\ j \notin crossed'[p] /\ j \in Plan(p) =>
           \A r \in Compiles : ~Late(r, j) /\ ~Swept(r, j)
      /\ q # p /\ j \notin crossed'[q] => j \notin crossed[q] /\ (j \in Plan(p) => ~Late(q, j))
  BY DEF Begin
<1>4. \A r \in Compiles \ {p} : /\ Works(r, j)' <=> Works(r, j)
                                /\ Steady(r, j)' <=> Steady(r, j)
                                /\ Swept(r, j)' <=> Swept(r, j)
  BY <1>2 DEF Others, Works, Active, Plan, Steady, Swept, Unkept, Cleaned, SameDir
<1>5. ~Works(p, j) /\ ~Swept(p, j)' /\ (Works(p, j)' => j \in Plan(p) /\ Steady(p, j)')
  BY <1>2 DEF Works, Active, Plan, Swept, Steady
<1>6. CASE q = p
  <2>1. verdict'[p][j] = "todo"
    BY <1>1, <1>2 DEF Control
  <2>2. Beside(p, j)'
    <3> SUFFICES ASSUME Works(p, j)', j \notin crossed'[p], NEW r \in Compiles
                 PROVE  ~Swept(r, j)' /\ (r # p /\ Works(r, j)' => Steady(p, j)' /\ Steady(r, j)')
      BY DEF Beside
    <3>1. ~Late(r, j) /\ ~Swept(r, j)
      BY <1>3, <1>5
    <3> QED BY <1>4, <1>5, <3>1 DEF Late
  <2> QED BY <1>2, <1>6, <2>1, <2>2 DEF Pair, Control, Since, Keyed, Outputs, InHand, Settled,
                                       Cleaning, Works, Plan
<1>7. CASE q # p
  <2>1. /\ stage'[q] = stage[q] /\ verdict'[q] = verdict[q] /\ meta'[q] = meta[q]
        /\ left'[q] = left[q] /\ modified'[q] = modified[q] /\ Plan(q)' = Plan(q)
        /\ Meanwhile(q, j)' = Meanwhile(q, j) /\ project' = project /\ disk' = disk
    BY <1>2, <1>7 DEF Others, Plan, Meanwhile
  <2>2. Control(q, j)' /\ Keyed(q, j)'
    BY <1>1, <2>1 DEF Pair, Control, Keyed, Unkept, Cleaned, SameDir
  <2>3. Since(q, j)'
    BY <1>1, <1>2, <1>4, <1>7 DEF Pair, Since, Others
  <2>4. Beside(q, j)'
    <3> SUFFICES ASSUME Works(q, j)', j \notin crossed'[q], NEW r \in Compiles
                 PROVE  ~Swept(r, j)' /\ (r # q /\ Works(r, j)' => Steady(q, j)' /\ Steady(r, j)')
      BY DEF Beside
    <3>1. Works(q, j) /\ j \notin crossed[q] /\ (j \in Plan(p) => ~Late(q, j))
      BY <1>3, <1>4, <1>7
    <3>2. CASE r = p
      BY <1>4, <1>5, <1>7, <3>1, <3>2 DEF Late
    <3>3. CASE r # p
      BY <1>1, <1>4, <1>7, <3>1, <3>3 DEF Pair, Beside
    <3> QED BY <3>2, <3>3
  <2>5. Outputs(q, j)'
    BY <1>1, <1>3, <1>7, <2>1 DEF Pair, Outputs, InHand, Visited, Settled, Cleaning, Verdicts
  <2> QED BY <2>2, <2>3, <2>4, <2>5 DEF Pair
<1> QED BY <1>6, <1>7
LEMMA BeginCleanKeeps ==
    ASSUME IInv, NEW p \in Compiles, BeginClean(p)
    PROVE  \A q \in Compiles, j \in Inv : Pair(q, j)'
<1> SUFFICES ASSUME NEW q \in Compiles, NEW j \in Inv PROVE Pair(q, j)'
  OBVIOUS
<1>1. /\ TypeOK /\ Pair(q, j)
      /\ UNCHANGED <<project, gen, src, disk, verdict, meta, modified, held, gens, srcs>>
      /\ Active(p) /\ Active(p)' /\ Others(p)
      /\ \A i \in Plan(p) : verdict[p][i] \notin {"todo", "now"}
  <2>1. /\ UNCHANGED <<project, gen, src, disk, verdict, meta, modified, held, gens, srcs>>
        /\ \A i \in Plan(p) : verdict[p][i] \notin {"todo", "now"}
        /\ stage[p] = "next" /\ \E s \in {"use", "clean"} : stage' = [stage EXCEPT ![p] = s]
        /\ left' = left \/ \E files : left' = [left EXCEPT ![p] = files]
    BY DEF BeginClean, Go, ToDo, tree, sources, Verdicts
  <2> QED BY <2>1 DEF IInv, TypeOK, Others, Active
<1>2. CASE "stale" \in Verdicts(p)
  <2>1. stage'[p] = "use" /\ UNCHANGED <<left, crossed>>
    BY <1>1, <1>2 DEF BeginClean, Go, TypeOK
  <2>2. Within(p)
    BY <1>1, <2>1 DEF Within
  <2>3. CASE q # p
    BY <1>1, <2>2, <2>3, OthersPair
  <2>4. CASE q = p
    <3>1. Since(p, j)' /\ Beside(p, j)'
      BY <1>1, <2>2, BesideKept
    <3>2. Control(p, j)' /\ Keyed(p, j)'
      BY <1>1, <2>1, <2>4 DEF Pair, Control, Keyed, Plan, Meanwhile
    <3>3. Outputs(p, j)'
      BY <1>1, <1>2, <2>1, <2>4 DEF Pair, Control, Outputs, InHand, Settled, Cleaning, Verdicts, Plan
    <3> QED BY <2>4, <3>1, <3>2, <3>3 DEF Pair
  <2> QED BY <2>3, <2>4
<1>3. CASE "stale" \notin Verdicts(p)
  <2>1. /\ stage'[p] = "clean"
        /\ left'[p] = ({i \in Inv : Cleaned(p, i)} \X Files) \ Kept(p)
        /\ crossed' = [r \in Compiles |-> crossed[r] \cup {i \in Unkept(p) : Works(r, i)}]
    BY <1>1, <1>3 DEF BeginClean, Go, ToDo, TypeOK
  <2>2. \A r \in Compiles : /\ Works(r, j)' <=> Works(r, j)
                            /\ Steady(r, j)' <=> Steady(r, j)
                            /\ Swept(r, j)' => Swept(r, j) \/ (r = p /\ j \in Unkept(p))
    BY <1>1 DEF Others, Works, Active, Plan, Steady, Swept, Unkept, Cleaned, SameDir
  <2>3. j \notin crossed'[q] => j \notin crossed[q] /\ (Works(q, j) => j \notin Unkept(p))
    BY <2>1
  <2>4. Since(q, j)'
    BY <1>1, <2>2 DEF Pair, Since
  <2>5. Beside(q, j)'
    BY <1>1, <2>2, <2>3 DEF Pair, Beside
  <2>6. CASE q # p
    <3>1. /\ stage'[q] = stage[q] /\ left'[q] = left[q] /\ Plan(q)' = Plan(q)
          /\ Meanwhile(q, j)' = Meanwhile(q, j)
      BY <1>1, <2>6 DEF Others, Plan, Meanwhile
    <3>2. Control(q, j)' /\ Keyed(q, j)'
      BY <1>1, <3>1 DEF Pair, Control, Keyed, Unkept, Cleaned, SameDir
    <3>3. Outputs(q, j)'
      BY <1>1, <2>3, <3>1 DEF Pair, Outputs, InHand, Visited, Settled, Cleaning, Verdicts
    <3> QED BY <2>4, <2>5, <3>2, <3>3 DEF Pair
  <2>7. CASE q = p
    <3>1. verdict[p][j] # "now"
      BY <1>1, <2>7 DEF Pair, Control
    <3>2. Control(p, j)'
      BY <1>1, <2>1, <2>7, <3>1 DEF Pair, Control, Plan
    <3>3. verdict[p][j] = "ran" => \A f \in Files : <<j, f>> \in left'[p] <=> f \notin Emits[meta[p][j]]
      <4> SUFFICES ASSUME verdict[p][j] = "ran", NEW f \in Files
                   PROVE  <<j, f>> \in left'[p] <=> f \notin Emits[meta[p][j]]
        OBVIOUS
      <4>1. Cleaned(p, j)
        BY DEF Cleaned, SameDir
      <4>2. <<j, f>> \in Kept(p) <=> f \in Emits[meta[p][j]]
        BY DEF Kept, Ran, FilesOf
      <4> QED BY <2>1, <4>1, <4>2
    <3>4. \A f \in Files : <<j, f>> \in left'[p] /\ verdict[p][j] # "ran" => j \in Unkept(p)
      BY <2>1 DEF Unkept
    <3>5. Keyed(p, j)'
      BY <1>1, <2>1, <2>7, <3>1, <3>3, <3>4 DEF Pair, Keyed, Unkept, Cleaned, SameDir, Meanwhile
    <3>6. Outputs(p, j)'
      BY <1>1, <2>1, <2>3, <2>7, <3>1, <3>3 DEF Pair, Outputs, InHand, Settled, Cleaning
    <3> QED BY <2>4, <2>5, <2>7, <3>2, <3>5, <3>6 DEF Pair
  <2> QED BY <2>6, <2>7
<1> QED BY <1>2, <1>3

LEMMA VisitFileKeeps ==
    ASSUME IInv, NEW p \in Compiles, VisitFile(p)
    PROVE  \A q \in Compiles, j \in Inv : Pair(q, j)'
<1> SUFFICES ASSUME NEW q \in Compiles, NEW j \in Inv PROVE Pair(q, j)'
  OBVIOUS
<1>1. PICK i \in Inv, f \in Files :
        /\ <<i, f>> \in left[p] /\ left' = [left EXCEPT ![p] = left[p] \ {<<i, f>>}]
        /\ disk' = [disk EXCEPT ![i][f] = None]
  BY DEF VisitFile, Ticks, ToDo
<1>2. /\ TypeOK /\ Pair(p, j) /\ Pair(p, i) /\ stage[p] = "clean"
      /\ UNCHANGED <<project, gen, src, stage, verdict, meta, modified, held, gens, srcs, crossed>>
  BY DEF VisitFile, IInv, sources, history
<1>3. Within(p) /\ Others(p)
  BY <1>1, <1>2 DEF Within, Others, Active, TypeOK
<1>4. \/ Swept(p, i)
      \/ verdict[p][i] = "ran" /\ f \notin Emits[meta[p][i]] /\ meta[p][i] \in Meanwhile(p, i)
  BY <1>1, <1>2 DEF Pair, Keyed, Swept
<1>5. CASE q # p
  BY <1>1, <1>3, <1>4, <1>5, HandWorks, OthersFile
<1>6. CASE q = p
  <2>1. Since(p, j)' /\ Beside(p, j)'
    BY <1>3, BesideKept
  <2>2. /\ left'[p] = left[p] \ {<<i, f>>} /\ disk'[i][f] = None
        /\ \A h \in Files : <<j, h>> # <<i, f>> => disk'[j][h] = disk[j][h]
    BY <1>1, <1>2 DEF TypeOK
  <2>3. Control(p, j)' /\ Keyed(p, j)'
    BY <1>2, <2>2 DEF Pair, Control, Keyed, Plan, Meanwhile, Unkept, Cleaned, SameDir
  <2>4. ASSUME j \notin crossed[p] PROVE InHand(p, j)' /\ Settled(p, j)' /\ Cleaning(p, j)'
    <3>1. InHand(p, j)' /\ Cleaning(p, j)'
      BY <1>2, <2>2, <2>4 DEF Pair, Control, Outputs, InHand, Cleaning
    <3>2. verdict[p][j] # "todo" => Works(p, j) /\ ~Swept(p, j)
      BY <1>2, <2>4, HandWorks DEF Pair, Beside
    <3>3. verdict[p][j] \in {"hit", "modified", "ran"} =>
            /\ meta[p][j] \in Keys
            /\ \A h \in Emits[meta[p][j]] : disk'[j][h] = disk[j][h]
      <4> SUFFICES ASSUME verdict[p][j] \in {"hit", "modified", "ran"}
                   PROVE  /\ meta[p][j] \in Keys
                          /\ \A h \in Emits[meta[p][j]] : disk'[j][h] = disk[j][h]
        OBVIOUS
      <4>1. meta[p][j] \in Keys
        BY <1>2 DEF Pair, Keyed, Meanwhile, Keys, TypeOK
      <4>2. i = j => f \notin Emits[meta[p][j]]
        BY <1>4, <3>2
      <4> QED BY <2>2, <4>1, <4>2, Emitted
    <3>4. Settled(p, j)'
      BY <1>2, <2>4, <3>3, Emitted DEF Pair, Outputs, Settled
    <3> QED BY <3>1, <3>4
  <2> QED BY <1>2, <1>6, <2>1, <2>3, <2>4 DEF Pair, Outputs
<1> QED BY <1>5, <1>6
LEMMA EndCleanKeeps ==
    ASSUME IInv, NEW p \in Compiles, EndClean(p)
    PROVE  \A q \in Compiles, j \in Inv : Pair(q, j)'
<1> SUFFICES ASSUME NEW q \in Compiles, NEW j \in Inv PROVE Pair(q, j)'
  OBVIOUS
<1>1. /\ TypeOK /\ Pair(p, j) /\ left[p] = {} /\ stage[p] = "clean" /\ stage'[p] = "use"
      /\ UNCHANGED <<project, gen, src, disk, verdict, meta, left, modified, held, gens, srcs, crossed>>
  BY DEF EndClean, Go, tree, sources, history, IInv, TypeOK
<1>2. Within(p) /\ Others(p)
  BY <1>1 DEF EndClean, Go, Within, Others, Active, IInv, TypeOK
<1>3. CASE q # p
  BY <1>1, <1>2, <1>3, OthersPair
<1>4. CASE q = p
  <2>1. Since(p, j)' /\ Beside(p, j)'
    BY <1>2, BesideKept
  <2>2. Control(p, j)' /\ Keyed(p, j)'
    BY <1>1 DEF Pair, Control, Keyed, Plan, Meanwhile
  <2>3. Outputs(p, j)'
    BY <1>1 DEF Pair, Control, Outputs, InHand, Settled, Cleaning
  <2> QED BY <1>4, <2>1, <2>2, <2>3 DEF Pair
<1> QED BY <1>3, <1>4

LEMMA LeaveKeeps ==
    ASSUME IInv, NEW p \in Compiles, Leave(p)
    PROVE  \A q \in Compiles, j \in Inv : Pair(q, j)'
<1> SUFFICES ASSUME NEW q \in Compiles, NEW j \in Inv PROVE Pair(q, j)'
  OBVIOUS
<1>1. /\ TypeOK /\ Pair(q, j) /\ stage'[p] = "idle" /\ verdict'[p][j] = "todo"
      /\ UNCHANGED <<project, gen, src, disk>> /\ Others(p)
      /\ \A r \in Compiles \ {p} : crossed'[r] = crossed[r]
  BY DEF Leave, ToDo, tree, sources, IInv, TypeOK, Others
<1>2. CASE q = p
  BY <1>1, <1>2 DEF Pair, Control, Since, Keyed, Beside, Outputs, InHand, Settled, Cleaning,
                    Works, Active
<1>3. CASE q # p
  <2>1. /\ stage'[q] = stage[q] /\ verdict'[q] = verdict[q] /\ meta'[q] = meta[q]
        /\ left'[q] = left[q] /\ modified'[q] = modified[q] /\ Plan(q)' = Plan(q)
        /\ Meanwhile(q, j)' = Meanwhile(q, j) /\ crossed'[q] = crossed[q]
    BY <1>1, <1>3 DEF Others, Plan, Meanwhile
  <2>2. \A r \in Compiles : /\ Works(r, j)' => Works(r, j)
                            /\ r # p => (Steady(r, j)' <=> Steady(r, j)) /\ (Swept(r, j)' => Swept(r, j))
                            /\ ~Works(p, j)' /\ ~Swept(p, j)'
    BY <1>1 DEF Others, Works, Active, Plan, Steady, Swept, Unkept, Cleaned, SameDir
  <2>3. Control(q, j)' /\ Keyed(q, j)'
    BY <1>1, <2>1 DEF Pair, Control, Keyed, Unkept, Cleaned, SameDir
  <2>4. Since(q, j)'
    BY <1>1, <1>3, <2>2 DEF Pair, Since, Others
  <2>5. Beside(q, j)'
    BY <1>1, <1>3, <2>1, <2>2 DEF Pair, Beside
  <2>6. Outputs(q, j)'
    BY <1>1, <2>1 DEF Pair, Outputs, InHand, Visited, Settled, Cleaning, Verdicts
  <2> QED BY <2>3, <2>4, <2>5, <2>6 DEF Pair
<1> QED BY <1>2, <1>3

-----------------------------------------------------------------------------
(* The user.                                                                *)

(* What a compile has and is not crossed in afterwards, nobody else has.    *)
LEMMA EditKeeps ==
    ASSUME IInv, \/ EditGenerator
                 \/ \E i \in Inv : EditSource(i) \/ Tamper(i)
    PROVE  \A q \in Compiles, j \in Inv : Pair(q, j)'
<1> SUFFICES ASSUME NEW q \in Compiles, NEW j \in Inv PROVE Pair(q, j)'
  OBVIOUS
<1>1. /\ TypeOK /\ Pair(q, j)
      /\ UNCHANGED <<project, stage, held, verdict, meta, left, modified>>
  BY DEF EditGenerator, EditSource, Tamper, Acts, IInv
<1>2. \A r \in Compiles : (Works(r, j)' <=> Works(r, j)) /\ (Swept(r, j)' <=> Swept(r, j))
  BY <1>1 DEF Works, Active, Plan, Swept, Unkept, Cleaned, SameDir
<1>3. /\ Control(q, j)'
      /\ Meanwhile(q, j) \subseteq Meanwhile(q, j)' => Keyed(q, j)'
      /\ disk'[j] = disk[j] /\ (j \notin crossed'[q] => j \notin crossed[q]) => Outputs(q, j)'
  BY <1>1 DEF Pair, Control, Keyed, Outputs, InHand, Visited, Settled, Cleaning, Plan, Verdicts,
              Unkept, Cleaned, SameDir
<1>4. CASE EditGenerator
  <2>1. /\ UNCHANGED <<src, srcs, disk>>
        /\ gens' = [p \in Compiles |-> IF Active(p) THEN gens[p] \cup {gen'} ELSE gens[p]]
        /\ crossed' = [p \in Compiles |->
             crossed[p] \cup {i \in Inv : Works(p, i) /\ \E r \in Compiles \ {p} : Works(r, i)}]
    BY <1>4 DEF EditGenerator, Crossing
  <2>2. Since(q, j)' /\ Meanwhile(q, j) \subseteq Meanwhile(q, j)'
    BY <1>1, <1>2, <2>1 DEF Pair, Since, Meanwhile, Works
  <2>3. j \notin crossed'[q] => /\ j \notin crossed[q]
                                /\ Works(q, j) => \A r \in Compiles \ {q} : ~Works(r, j)
    BY <2>1
  <2>4. Beside(q, j)'
    BY <1>1, <1>2, <2>3 DEF Pair, Beside
  <2> QED BY <1>3, <2>1, <2>2, <2>3, <2>4 DEF Pair
<1>5. ASSUME NEW i \in Inv, EditSource(i) PROVE Pair(q, j)'
  <2>1. PICK v \in Versions :
          /\ src' = [src EXCEPT ![i] = v] /\ UNCHANGED <<gen, gens, disk>>
          /\ srcs' = [p \in Compiles |->
               IF Works(p, i) THEN [srcs[p] EXCEPT ![i] = @ \cup {v}] ELSE srcs[p]]
          /\ crossed' = [p \in Compiles |->
               crossed[p] \cup {l \in {i} : Works(p, l) /\ \E r \in Compiles \ {p} : Works(r, l)}]
    BY <1>5 DEF EditSource, Crossing
  <2>2. /\ src'[j] = IF j = i THEN v ELSE src[j]
        /\ \A p \in Compiles : srcs'[p][j] =
             IF j = i /\ Works(p, i) THEN srcs[p][j] \cup {v} ELSE srcs[p][j]
    BY <1>1, <2>1 DEF TypeOK
  <2>3. Since(q, j)' /\ Meanwhile(q, j) \subseteq Meanwhile(q, j)'
    <3>1. Works(q, j) => src'[j] \in srcs'[q][j]
      <4>1. CASE j = i
        BY <2>2, <4>1
      <4>2. CASE j # i
        BY <1>1, <2>2, <4>2 DEF Pair, Since
      <4> QED BY <4>1, <4>2
    <3>2. srcs[q][j] \subseteq srcs'[q][j]
      BY <2>2
    <3> QED BY <1>1, <1>2, <2>1, <3>1, <3>2 DEF Pair, Since, Meanwhile
  <2>4. /\ j \notin crossed'[q] => j \notin crossed[q]
        /\ j = i /\ j \notin crossed'[q] /\ Works(q, j) => \A r \in Compiles \ {q} : ~Works(r, j)
        /\ j # i => \A r \in Compiles : Steady(r, j)' <=> Steady(r, j)
    BY <2>1, <2>2 DEF Steady
  <2>5. Beside(q, j)'
    BY <1>1, <1>2, <2>4 DEF Pair, Beside
  <2> QED BY <1>3, <2>1, <2>3, <2>4, <2>5 DEF Pair
<1>6. ASSUME NEW i \in Inv, Tamper(i) PROVE Pair(q, j)'
  <2>1. /\ UNCHANGED <<gen, src, gens, srcs>>
        /\ crossed' = [p \in Compiles |->
             IF Works(p, i) THEN crossed[p] \cup {i} ELSE crossed[p]]
        /\ j # i => disk'[j] = disk[j]
    BY <1>1, <1>6 DEF Tamper, sources, TypeOK
  <2>2. Since(q, j)' /\ Meanwhile(q, j) \subseteq Meanwhile(q, j)'
    BY <1>1, <1>2, <2>1 DEF Pair, Since, Meanwhile
  <2>3. j \notin crossed'[q] => j \notin crossed[q] /\ (j = i => ~Works(q, j))
    BY <2>1
  <2>4. Beside(q, j)'
    BY <1>1, <1>2, <2>1, <2>3 DEF Pair, Beside, Steady
  <2>5. CASE j # i
    BY <1>3, <2>1, <2>2, <2>3, <2>4, <2>5 DEF Pair
  <2>6. CASE j = i
    <3>1. j \notin crossed'[q] => verdict'[q][j] = "todo"
      BY <1>1, <2>3, <2>6, HandWorks
    <3>2. Outputs(q, j)'
      BY <3>1 DEF Outputs, InHand, Settled, Cleaning
    <3> QED BY <1>3, <2>2, <2>4, <3>2 DEF Pair
  <2> QED BY <2>5, <2>6
<1> QED BY <1>4, <1>5, <1>6

LEMMA IInvStep == IInv /\ [Next]_vars => IInv'
<1> SUFFICES ASSUME IInv, [Next]_vars PROVE IInv'
  OBVIOUS
<1>1. TypeOK'
  BY TypeStep
<1>2. ASSUME Next PROVE \A q \in Compiles, j \in Inv : Pair(q, j)'
  <2>1. \A p \in Compiles : Plan(p) \subseteq Inv
    BY KilnAssumption DEF KilnAssumption, Plan, IInv, TypeOK
  <2> QED BY <1>2, <2>1, InvocationKeeps, BeginKeeps, BeginCleanKeeps, VisitFileKeeps, EndCleanKeeps,
             LeaveKeeps, EditKeeps DEF Next, Use, Stop
<1>3. ASSUME UNCHANGED vars, NEW q \in Compiles, NEW j \in Inv PROVE Pair(q, j)'
  <2> USE <1>3 DEF vars, tree, sources, history
  <2>1. Pair(q, j)
    BY DEF IInv
  <2>2. /\ Plan(q)' = Plan(q) /\ Unkept(q)' = Unkept(q) /\ Meanwhile(q, j)' = Meanwhile(q, j)
        /\ \A r \in Compiles : /\ Works(r, j)' <=> Works(r, j)
                               /\ Steady(r, j)' <=> Steady(r, j)
                               /\ Swept(r, j)' <=> Swept(r, j)
    BY DEF Plan, Works, Active, Meanwhile, Steady, Swept, Unkept, Cleaned, SameDir
  <2>3. Control(q, j)' /\ Since(q, j)' /\ Keyed(q, j)'
    BY <2>1, <2>2 DEF Pair, Control, Since, Keyed
  <2>4. Beside(q, j)'
    BY <2>1, <2>2 DEF Pair, Beside
  <2>5. Outputs(q, j)'
    BY <2>1, <2>2 DEF Pair, Outputs, InHand, Visited, Settled, Cleaning, Verdicts
  <2> QED BY <2>3, <2>4, <2>5 DEF Pair
<1> QED BY <1>1, <1>2, <1>3 DEF IInv

LEMMA SpecIInv == Spec => []IInv
BY IInvInit, IInvStep, PTL DEF Spec
-----------------------------------------------------------------------------
(* What is up to date stays so.                                             *)

(* It is enough to look at the compile that makes the step.                 *)
LEMMA StepStays ==
    ASSUME NEW i \in Inv, UpToDate(i), NEW p \in Compiles, Others(p),
           UNCHANGED <<project, gen, src>>, record'[i] = record[i],
           \A f \in Emits[Current(i)] : disk'[i][f] = disk[i][f],
           ~Late(p, i)', ~Swept(p, i)',
           verdict'[p][i] = "now" => stage'[p] \in {"key", "check"} /\ meta'[p][i] = Current(i)
    PROVE  UpToDate(i)'
<1>1. Current(i)' = Current(i)
  BY DEF Current
<1>2. ASSUME NEW q \in Compiles \ {p}
      PROVE  /\ ~Late(q, i)' /\ ~Swept(q, i)'
             /\ verdict'[q][i] = "now" => stage'[q] \in {"key", "check"} /\ meta'[q][i] = Current(i)
  BY <1>2 DEF UpToDate, Others, Late, Works, Active, Plan, Steady, Swept, Unkept, Cleaned, SameDir
<1> QED BY <1>1, <1>2 DEF UpToDate

(* A compile that is not late is at what is current.                        *)
LEMMA AtCurrent ==
    ASSUME IInv, NEW i \in Inv, UpToDate(i), NEW p \in Compiles, verdict[p][i] # "todo"
    PROVE  /\ <<held[p], src[i]>> = Current(i)
           /\ \A k \in Meanwhile(p, i) : k = Current(i)
<1>1. Steady(p, i) /\ held[p] \in gens[p]
  BY HandWorks DEF UpToDate, Late
<1> QED BY <1>1, OneKey DEF Steady, Current

LEMMA WithinStays ==
    ASSUME NEW i \in Inv, UpToDate(i), NEW p \in Compiles, Within(p)
    PROVE  ~Late(p, i)' /\ ~Swept(p, i)'
BY DEF UpToDate, Within, Late, Works, Active, Plan, Steady, Swept, Unkept, Cleaned, SameDir

LEMMA InvocationStays ==
    ASSUME IInv, NEW i \in Inv, UpToDate(i), NEW p \in Compiles, NEW j \in Inv, Invocation(p, j)
    PROVE  UpToDate(i)' /\ \A f \in Emits[Current(i)] : disk'[i][f] = disk[i][f]
<1>1. TypeOK /\ Pair(p, i) /\ Working(p, j) /\ Within(p) /\ Others(p)
  BY InvocationWorks DEF IInv, Working
<1>2. ~Late(p, i)' /\ ~Swept(p, i)'
  BY <1>1, WithinStays
<1>3. UNCHANGED <<project, gen, src>>
  BY <1>1 DEF Within
<1>4. CASE j # i
  <2>1. record'[i] = record[i]
    BY <1>1, <1>4 DEF Invocation, LoadRecord, ConsumeOnly, MatchKey, CheckOutput, Reuse, Execute,
                      WriteOutput, SaveRecord, tree, TypeOK
  <2>2. disk'[i] = disk[i] /\ verdict'[p][i] # "now"
    BY <1>1, <1>4 DEF Working
  <2> QED BY <1>1, <1>2, <1>3, <2>1, <2>2, StepStays
<1>5. CASE j = i
  <2> USE DEF Go, Ticks, ToDo, tree
  <2>1. ~Execute(p, i) /\ ~WriteOutput(p, i) /\ ~SaveRecord(p, i)
    BY DEF Execute, WriteOutput, SaveRecord, Ends, UpToDate
  <2>2. disk' = disk /\ record' = record
    BY <1>5, <2>1 DEF Invocation, LoadRecord, ConsumeOnly, MatchKey, CheckOutput, Reuse
  <2>3. verdict'[p][i] = "now" => stage'[p] \in {"key", "check"} /\ meta'[p][i] = Current(i)
    <3>1. CASE LoadRecord(p, i)
      BY <1>1, <3>1 DEF LoadRecord, UpToDate, TypeOK
    <3>2. CASE ConsumeOnly(p, i) \/ Reuse(p, i)
      BY <1>1, <3>2 DEF ConsumeOnly, Reuse, Ends, TypeOK
    <3>3. CASE MatchKey(p, i)
      BY <1>1, <3>3, AtCurrent DEF MatchKey, Matches, UpToDate, TypeOK
    <3>4. CASE CheckOutput(p, i)
      <4>1. PICK f \in Files : /\ <<i, f>> \in left[p] /\ stage[p] = "check"
                               /\ stage' = [stage EXCEPT ![p] = IF disk[i][f] = None THEN "load" ELSE "check"]
        BY <3>4 DEF CheckOutput
      <4>2. disk[i][f] # None
        BY <1>1, <3>4, <4>1 DEF CheckOutput, Pair, Keyed, UpToDate, FilesOf
      <4> QED BY <1>1, <3>4, <4>1, <4>2 DEF CheckOutput, UpToDate, TypeOK
    <3> QED BY <1>5, <2>1, <3>1, <3>2, <3>3, <3>4 DEF Invocation
  <2> QED BY <1>1, <1>2, <1>3, <2>2, <2>3, StepStays
<1> QED BY <1>4, <1>5

LEMMA CompileStays ==
    ASSUME IInv, NEW i \in Inv, UpToDate(i), NEW p \in Compiles,
           Begin(p) \/ BeginClean(p) \/ VisitFile(p) \/ EndClean(p) \/ Leave(p)
    PROVE  \/ UpToDate(i)' /\ \A f \in Emits[Current(i)] : disk'[i][f] = disk[i][f]
           \/ Swept(p, i)'
<1> SUFFICES ASSUME ~Swept(p, i)'
             PROVE  UpToDate(i)' /\ \A f \in Emits[Current(i)] : disk'[i][f] = disk[i][f]
  OBVIOUS
<1> USE DEF Go, ToDo, tree, sources, history
<1>1. TypeOK /\ Pair(p, i)
  BY DEF IInv
<1>2. UNCHANGED <<project, gen, src>> /\ record'[i] = record[i]
  BY DEF Begin, BeginClean, VisitFile, EndClean, Leave
<1>3. Others(p)
  BY <1>1 DEF Begin, BeginClean, VisitFile, EndClean, Leave, Ticks, Others, TypeOK
<1>4. verdict'[p][i] # "now"
  BY <1>1 DEF Begin, BeginClean, VisitFile, EndClean, Leave, Pair, Control, TypeOK
<1>5. ~Late(p, i)'
  BY <1>1 DEF Begin, BeginClean, VisitFile, EndClean, Leave, UpToDate, Late, Works, Active, Plan,
              Steady, TypeOK
<1>6. ASSUME VisitFile(p) PROVE \A f \in Emits[Current(i)] : disk'[i][f] = disk[i][f]
  <2>1. PICK j \in Inv, h \in Files :
          stage[p] = "clean" /\ <<j, h>> \in left[p] /\ disk' = [disk EXCEPT ![j][h] = None]
    BY <1>6 DEF VisitFile, Ticks
  <2>2. j = i => h \notin Emits[Current(i)]
    BY <1>1, <2>1, AtCurrent DEF Pair, Keyed, Swept, UpToDate
  <2> QED BY <1>1, <2>1, <2>2 DEF TypeOK
<1>7. ~VisitFile(p) => disk' = disk
  BY DEF Begin, BeginClean, EndClean, Leave
<1> QED BY <1>2, <1>3, <1>4, <1>5, <1>6, <1>7, StepStays
-----------------------------------------------------------------------------
(* driver.rs:795: a compile at the end of its pipeline finds the entry      *)
(* module of every invocation it is not crossed in and did not warn about,  *)
(* whoever names its output_dir too and whatever was cut short or edited.   *)
THEOREM KilnRedirectsResolve == Spec => []RedirectsResolve
<1>1. IInv => RedirectsResolve
  <2> SUFFICES ASSUME IInv, NEW p \in Compiles, NEW i \in Plan(p),
                      stage[p] = "use", verdict[p][i] # "stale", i \notin crossed[p]
               PROVE  disk[i][EntryOf[meta[p][i]]] # None
    BY DEF RedirectsResolve
  <2>1. i \in Inv /\ TypeOK
    BY KilnAssumption DEF KilnAssumption, Plan, IInv, TypeOK
  <2>2. verdict[p][i] \in {"hit", "modified", "ran"} /\ Settled(p, i) /\ Keyed(p, i)
    BY <2>1 DEF IInv, TypeOK, Pair, Control, Outputs
  <2>3. meta[p][i] \in Keys
    BY <2>1, <2>2 DEF Keyed, Meanwhile, Keys, TypeOK
  <2> QED BY <2>2, <2>3, Emitted DEF Settled
<1> QED BY <1>1, SpecIInv, PTL

(* docs/spec-kiln.md:759: what it loads without a warning is, file for      *)
(* file, what one key generates, whose parts were current while it ran.     *)
THEOREM KilnNeverSilentlyStale == Spec => []NeverSilentlyStale
<1>1. IInv => NeverSilentlyStale
  <2> SUFFICES ASSUME IInv, NEW p \in Compiles, NEW i \in Plan(p),
                      stage[p] = "use", verdict[p][i] \in {"hit", "ran"}, i \notin crossed[p]
               PROVE  /\ meta[p][i] \in Meanwhile(p, i)
                      /\ \A f \in Emits[meta[p][i]] : disk[i][f] = meta[p][i]
    BY DEF NeverSilentlyStale
  <2>1. i \in Inv
    BY KilnAssumption DEF KilnAssumption, Plan, IInv, TypeOK
  <2> QED BY <2>1 DEF IInv, Pair, Keyed, Outputs, Settled
<1> QED BY <1>1, SpecIInv, PTL

(* driver.rs:21: and an invocation that ran leaves nothing else behind,     *)
(* unless the host could not run them all.                                  *)
THEOREM KilnOrphansGone == Spec => []OrphansGone
<1>1. IInv => OrphansGone
  <2> SUFFICES ASSUME IInv, NEW p \in Compiles, NEW i \in Plan(p), i \notin crossed[p],
                      stage[p] = "use", verdict[p][i] = "ran", "stale" \notin Verdicts(p)
               PROVE  {f \in Files : disk[i][f] # None} = Emits[meta[p][i]]
    BY DEF OrphansGone
  <2>1. i \in Inv /\ TypeOK
    BY KilnAssumption DEF KilnAssumption, Plan, IInv, TypeOK
  <2>2. Settled(p, i) /\ Cleaning(p, i) /\ Keyed(p, i)
    BY <2>1 DEF IInv, Pair, Outputs
  <2>3. meta[p][i] \in Keys
    BY <2>1, <2>2 DEF Keyed, Meanwhile, Keys, TypeOK
  <2> QED BY <2>2, <2>3, Emitted DEF Settled, Cleaning
<1> QED BY <1>1, SpecIInv, PTL

(* docs/spec-kiln.md:753: what is up to date stays so, file for file, until *)
(* the user changes something or a compile that runs another invocation of  *)
(* its output_dir sweeps it.                                                *)
THEOREM KilnStaysUpToDate == Spec => StaysUpToDate
<1>1. IInv /\ [Next]_vars =>
        [\A i \in Inv : UpToDate(i) /\ edits' = edits =>
           \/ UpToDate(i)' /\ \A f \in Emits[Current(i)] : disk'[i][f] = disk[i][f]
           \/ \E p \in Compiles : Swept(p, i)']_vars
  <2> SUFFICES ASSUME IInv, Next, NEW i \in Inv, UpToDate(i), edits' = edits
               PROVE  \/ UpToDate(i)' /\ \A f \in Emits[Current(i)] : disk'[i][f] = disk[i][f]
                      \/ \E p \in Compiles : Swept(p, i)'
    OBVIOUS
  <2>1. ~EditGenerator /\ \A j \in Inv : ~EditSource(j) /\ ~Tamper(j)
    BY KilnAssumption DEF KilnAssumption, EditGenerator, EditSource, Tamper, Acts, IInv, TypeOK
  <2>2. \A p \in Compiles : Plan(p) \subseteq Inv
    BY KilnAssumption DEF KilnAssumption, Plan, IInv, TypeOK
  <2> QED BY <2>1, <2>2, InvocationStays, CompileStays DEF Next, Use, Stop
<1> QED BY <1>1, SpecIInv, PTL DEF Spec, StaysUpToDate
=============================================================================
