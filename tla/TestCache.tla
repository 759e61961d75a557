------------------------------ MODULE TestCache ------------------------------
(***************************************************************************)
(* wado-cli/src/test_cache.rs, input_cache.rs, run_cache.rs and the        *)
(* generators of kiln_provider.rs: a run of `wado test` answers a test     *)
(* file from what an earlier run stored, if nothing its compile read has   *)
(* changed, and compiles the others at once, while the user edits.  A      *)
(* compile reads a source its tests share and a generator's source; the    *)
(* run resolves the generator once, and keeps what resolving it read.      *)
(*                                                                         *)
(* A source is known by its version.  One read or rename of a file, and    *)
(* what is done under one lock, is a step.                                 *)
(***************************************************************************)
EXTENDS Naturals, FiniteSets

CONSTANTS Tests,        \* the test files of the run
          Versions,     \* what a source may hold
          Effectful,    \* versions of "lib" whose tests perform an effect
          EditsInBuild, \* the generator's source may change while it is resolved
          MaxRuns,      \* bound: runs of `wado test`
          MaxEdits      \* bound: changes the user makes

ASSUME CacheAssumption ==
    /\ Effectful \subseteq Versions /\ Versions \cap {"none", "mixed"} = {}
    /\ EditsInBuild \in BOOLEAN /\ MaxRuns \in Nat /\ MaxEdits \in Nat

VARIABLES
    disk,       \* of each source: the version it is at
    index,      \* the version the generator on disk was built from
    entry,      \* of each test: the inputs of the pass stored for it, those logged
    stage,      \* the run: off, lookup, tests, report, ended
    fresh,      \* --no-cache
    now,        \* InputCache.now
    pinned,     \* GeneratorCache.resolved: the generator's version, and its reads
    stamp,      \* SourceWatch.seen: what the run read, "mixed" if it diverged
    unchecked,  \* the sources SourceWatch.changed has still to look at
    changed,    \* those it found changed
    at,         \* of each test: where its compile is, or how it ended
    gen,        \* of each test: the generator's version it has
    own,        \* of each test: what its resolution read of the generator's source
    log,        \* of each test: its ReadLog, "mixed" for untracked
    used,       \* of each test: the versions of "lib" it compiled
    since,      \* of each source: the versions it was at during the run
    runs, edits

files == <<disk, index, entry>>
watch == <<stamp, unchecked, changed>>
shared == <<fresh, now, pinned, watch>>
compile == <<gen, own, log, used>>
vars == <<files, stage, shared, at, compile, since, runs, edits>>

Sources == {"lib", "gen"}
Inputs == [Sources -> Versions]
NoInputs == [f \in Sources |-> "none"]
Unpinned == [gen |-> "none", reads |-> "none"]
Read == Versions \cup {"none", "mixed"}

TypeOK ==
    /\ disk \in Inputs /\ index \in Versions \cup {"none"}
    /\ entry \in [Tests -> [Sources -> Versions \cup {"none"}]]
    /\ stage \in {"off", "lookup", "tests", "report", "ended"} /\ fresh \in BOOLEAN
    /\ now \in [Sources -> Versions \cup {"none"}]
    /\ pinned \in [gen : Versions \cup {"none"}, reads : Read]
    /\ stamp \in [Sources -> Read] /\ unchecked \subseteq Sources /\ changed \subseteq Sources
    /\ at \in [Tests -> {"todo", "hit", "miss", "read", "looking", "queued", "building",
                         "built", "resolved", "ready", "loaded", "pass", "fail", "stored"}]
    /\ gen \in [Tests -> Versions \cup {"none"}] /\ own \in [Tests -> Read]
    /\ log \in [Tests -> [Sources -> Read]] /\ used \in [Tests -> SUBSET Versions]
    /\ since \in [Sources -> SUBSET Versions]
    /\ runs \in 0..MaxRuns /\ edits \in 0..MaxEdits

Init ==
    /\ disk \in Inputs /\ index = "none" /\ entry = [t \in Tests |-> NoInputs]
    /\ stage = "off" /\ fresh = FALSE /\ now = NoInputs /\ pinned = Unpinned
    /\ stamp = NoInputs /\ unchecked = {} /\ changed = {} /\ at = [t \in Tests |-> "todo"]
    /\ gen = [t \in Tests |-> "none"] /\ own = [t \in Tests |-> "none"]
    /\ log = [t \in Tests |-> NoInputs] /\ used = [t \in Tests |-> {}]
    /\ since = [f \in Sources |-> {}] /\ runs = 0 /\ edits = 0

-----------------------------------------------------------------------------
(* Reads, as logs and the watch keep them: the first, and whether a later   *)
(* one differed.                                                            *)

Noted(was, v) == IF was \in {"none", v} THEN v ELSE "mixed"

Watched_Last(f, v) == stamp' = [stamp EXCEPT ![f] = v]
Watched(f, v) == stamp' = [stamp EXCEPT ![f] = Noted(@, v)]

Logged(t, f, v) == log' = [log EXCEPT ![t][f] = Noted(@, v)]

Go(t, from, to) == at[t] \in from /\ at' = [at EXCEPT ![t] = to]

-----------------------------------------------------------------------------
(* The run: take_hits, before anything is compiled.                         *)

Begin ==
    /\ stage = "off" /\ runs < MaxRuns /\ runs' = runs + 1
    /\ stage' = "lookup" /\ fresh' \in BOOLEAN
    /\ since' = [f \in Sources |-> {disk[f]}]
    /\ UNCHANGED <<files, now, pinned, watch, at, compile, edits>>

(* Input::now, for the first entry that asks.                               *)
ReadNow(f) ==
    /\ stage = "lookup" /\ ~fresh /\ now[f] = "none"
    /\ \E t \in Tests : at[t] = "todo" /\ entry[t][f] # "none"
    /\ now' = [now EXCEPT ![f] = disk[f]]
    /\ UNCHANGED <<files, stage, fresh, pinned, watch, at, compile, since, runs, edits>>

Asks(t) == {f \in Sources : entry[t][f] # "none"}
Moved(t) == \E f \in Asks(t) : now[f] \notin {"none", entry[t][f]}
Lookup(t) ==
    /\ stage = "lookup"
    /\ \/ Go(t, {"todo"}, "hit") /\ ~fresh /\ entry[t] # NoInputs
          /\ \A f \in Asks(t) : now[f] = entry[t][f]
       \/ Go(t, {"todo"}, "miss") /\ (fresh \/ entry[t] = NoInputs \/ Moved(t))
    /\ UNCHANGED <<files, stage, shared, compile, since, runs, edits>>

StartTests ==
    /\ stage = "lookup" /\ stage' = "tests" /\ \A t \in Tests : at[t] # "todo"
    /\ UNCHANGED <<files, shared, at, compile, since, runs, edits>>

-----------------------------------------------------------------------------
(* The compile of test t: what every compile of its source reads, first.    *)

ReadLib(t, from, to) ==
    /\ stage = "tests" /\ Go(t, from, to)
    /\ Watched("lib", disk["lib"]) /\ Logged(t, "lib", disk["lib"])
    /\ used' = [used EXCEPT ![t] = @ \cup {disk["lib"]}]
    /\ UNCHANGED <<files, stage, fresh, now, pinned, unchecked, changed, gen, own, since, runs, edits>>

ReadEntry(t) == ReadLib(t, {"miss"}, "read")

(* GeneratorCache::get.                                                     *)
GetPinned(t) ==
    /\ pinned # Unpinned /\ Go(t, {"read"}, "ready")
    /\ gen' = [gen EXCEPT ![t] = pinned.gen] /\ Logged(t, "gen", pinned.reads)
    /\ UNCHANGED <<files, stage, shared, own, used, since, runs, edits>>

(* resolve_local: the source is read, and nothing notes it.                 *)
ReadGenerator(t) ==
    /\ pinned = Unpinned /\ Go(t, {"read"}, "looking")
    /\ gen' = [gen EXCEPT ![t] = disk["gen"]]
    /\ UNCHANGED <<files, stage, shared, own, log, used, since, runs, edits>>

(* What indexed_identity reads is noted, be it the version it looks for; it *)
(* reads what the index lists.                                              *)
Observed(t) ==
    IF index = "none" THEN UNCHANGED <<own, stamp>>
    ELSE own' = [own EXCEPT ![t] = Noted(@, disk["gen"])] /\ Watched("gen", disk["gen"])

Building(t) == at[t] \in {"building", "built"}
TryIndex(t) ==
    /\ ~fresh
    /\ at[t] = "queued" => \A u \in Tests : ~Building(u)
    /\ Observed(t)
    /\ IF index = disk["gen"]
       THEN /\ Go(t, {"looking", "queued"}, "resolved")
            /\ gen' = [gen EXCEPT ![t] = index]
       ELSE /\ Go(t, {"looking", "queued"}, IF at[t] = "looking" THEN "queued" ELSE "building")
            /\ UNCHANGED gen
    /\ UNCHANGED <<files, stage, fresh, now, pinned, unchecked, changed, log, used, since, runs, edits>>

(* compile_local, unlocked under --no-cache: the bytes read at first.  The   *)
(* disk may refuse the index.                                               *)
Build(t) ==
    /\ Go(t, {IF fresh THEN "looking" ELSE "building"}, "built") /\ index' \in {index, gen[t]}
    /\ UNCHANGED <<disk, entry, stage, shared, compile, since, runs, edits>>

ObserveClosure(t) ==
    /\ Go(t, {"built"}, "resolved") /\ Observed(t)
    /\ UNCHANGED <<files, stage, fresh, now, pinned, unchecked, changed, gen, log, used, since, runs, edits>>

(* GeneratorCache::pin: the first resolution, and its reads, are the run's. *)
Pin_OwnReads(t) ==
    /\ Go(t, {"resolved"}, "ready")
    /\ pinned' = IF pinned = Unpinned THEN [gen |-> gen[t], reads |-> own[t]] ELSE pinned
    /\ gen' = [gen EXCEPT ![t] = pinned'.gen] /\ Logged(t, "gen", own[t])
    /\ UNCHANGED <<files, stage, fresh, now, watch, own, used, since, runs, edits>>
Pin_LastWins(t) ==
    /\ Go(t, {"resolved"}, "ready")
    /\ pinned' = [gen |-> gen[t], reads |-> own[t]]
    /\ gen' = [gen EXCEPT ![t] = pinned'.gen] /\ Logged(t, "gen", pinned'.reads)
    /\ UNCHANGED <<files, stage, fresh, now, watch, own, used, since, runs, edits>>
Pin(t) ==
    /\ Go(t, {"resolved"}, "ready")
    /\ pinned' = IF pinned = Unpinned THEN [gen |-> gen[t], reads |-> own[t]] ELSE pinned
    /\ gen' = [gen EXCEPT ![t] = pinned'.gen] /\ Logged(t, "gen", pinned'.reads)
    /\ UNCHANGED <<files, stage, fresh, now, watch, own, used, since, runs, edits>>

(* The loader may read what the generator was given once more.              *)
LoadLib(t) == ReadLib(t, {"ready"}, "loaded")

(* What a test of known contents may come to: it needs what it generated.   *)
Outcomes(inputs) ==
    IF inputs["lib"] \in Effectful THEN {"pass", "fail"}
    ELSE IF inputs["lib"] = inputs["gen"] THEN {"pass"} ELSE {"fail"}
Compiled(t) == {[f \in Sources |-> IF f = "lib" THEN v ELSE gen[t]] : v \in used[t]}

RunTest(t) ==
    /\ \E o \in UNION {Outcomes(c) : c \in Compiled(t)} : Go(t, {"ready", "loaded"}, o)
    /\ UNCHANGED <<files, stage, shared, compile, since, runs, edits>>

-----------------------------------------------------------------------------
(* store_passes, once every test of the package ran, and the report.        *)

AllRan == \A t \in Tests : at[t] \in {"hit", "pass", "fail", "stored"}

Tracked(t) == \A f \in Sources : log[t][f] # "mixed"
Cacheable(t) == used[t] \cap Effectful = {}
Store(t) ==
    /\ stage = "tests" /\ AllRan /\ Go(t, {"pass"}, "stored")
    /\ entry' = IF Tracked(t) /\ Cacheable(t) THEN [entry EXCEPT ![t] = log[t]] ELSE entry
    /\ UNCHANGED <<disk, index, stage, shared, compile, since, runs, edits>>

BeginReport ==
    /\ stage = "tests" /\ AllRan /\ \A t \in Tests : at[t] # "pass"
    /\ stage' = "report" /\ unchecked' = Sources
    /\ UNCHANGED <<files, fresh, now, pinned, stamp, changed, at, compile, since, runs, edits>>

(* SourceWatch::changed, a source at a time.                                *)
Compare(f) ==
    /\ f \in unchecked /\ unchecked' = unchecked \ {f}
    /\ changed' = IF stamp[f] \in {"none", disk[f]} THEN changed ELSE changed \cup {f}
    /\ stage' = IF unchecked' = {} THEN "ended" ELSE "report"
    /\ UNCHANGED <<files, fresh, now, pinned, stamp, at, compile, since, runs, edits>>

(* The process exits, by an interrupt at any time.                          *)
Exit_MemoKept ==
    /\ stage # "off" /\ stage' = "off" /\ fresh' = FALSE /\ now' = now
    /\ pinned' = Unpinned /\ stamp' = NoInputs /\ unchecked' = {} /\ changed' = {}
    /\ at' = [t \in Tests |-> "todo"] /\ gen' = [t \in Tests |-> "none"]
    /\ own' = [t \in Tests |-> "none"] /\ log' = [t \in Tests |-> NoInputs]
    /\ used' = [t \in Tests |-> {}] /\ since' = [f \in Sources |-> {}]
    /\ UNCHANGED <<files, runs, edits>>
Exit ==
    /\ stage # "off" /\ stage' = "off" /\ fresh' = FALSE /\ now' = NoInputs
    /\ pinned' = Unpinned /\ stamp' = NoInputs /\ unchecked' = {} /\ changed' = {}
    /\ at' = [t \in Tests |-> "todo"] /\ gen' = [t \in Tests |-> "none"]
    /\ own' = [t \in Tests |-> "none"] /\ log' = [t \in Tests |-> NoInputs]
    /\ used' = [t \in Tests |-> {}] /\ since' = [f \in Sources |-> {}]
    /\ UNCHANGED <<files, runs, edits>>

(* The user saves a source.                                                 *)
Resolving == \E t \in Tests : at[t] \in {"looking", "queued", "building", "built"}
Edit(f) ==
    /\ edits < MaxEdits /\ edits' = edits + 1
    /\ f = "gen" /\ ~EditsInBuild => ~Resolving
    /\ \E v \in Versions \ {disk[f]} :
         /\ disk' = [disk EXCEPT ![f] = v]
         /\ since' = IF stage = "off" THEN since ELSE [since EXCEPT ![f] = @ \cup {v}]
    /\ UNCHANGED <<index, entry, stage, shared, at, compile, runs>>

Compile(t) ==
    \/ ReadEntry(t) \/ GetPinned(t) \/ ReadGenerator(t) \/ TryIndex(t) \/ Build(t)
    \/ ObserveClosure(t) \/ Pin(t) \/ LoadLib(t) \/ RunTest(t)

Next ==
    \/ \E t \in Tests : Lookup(t) \/ Compile(t) \/ Store(t)
    \/ \E f \in Sources : ReadNow(f) \/ Compare(f) \/ Edit(f)
    \/ Begin \/ StartTests \/ BeginReport \/ Exit

Spec == Init /\ [][Next]_vars

-----------------------------------------------------------------------------
(* docs/spec-testing.md:174: what is stored is true: a test compiled from   *)
(* the inputs its entry lists passes, however they were read.  An entry     *)
(* lists both, but for a generator whose index the disk refused.            *)
EntriesAreTrue == \A t \in Tests : entry[t] \in Inputs => Outcomes(entry[t]) = {"pass"}

(* And a file is answered for what its inputs held during the run, not      *)
(* before it.                                                               *)
HitsAreCurrent ==
    \A t \in Tests : at[t] = "hit" => \A f \in Asks(t) : entry[t][f] \in since[f]

(* run_cache.rs:288: however many compiles resolve the generator at once,   *)
(* and whatever happens to its source, a run has one.                       *)
OneGenerator ==
    \A t, u \in Tests : {at[t], at[u]} \subseteq {"ready", "loaded", "pass", "fail", "stored"}
        => gen[t] = gen[u]

(* test.rs:2502: a run that reports no change compiled one tree, an edit    *)
(* taken back before it ended included.                                     *)
SplitsAreReported ==
    stage = "ended" /\ changed = {} =>
        Cardinality(UNION {Compiled(t) : t \in Tests}) <= 1
=============================================================================
