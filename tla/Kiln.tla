-------------------------------- MODULE Kiln --------------------------------
(***************************************************************************)
(* wado-host/src/kiln/driver.rs: the pipeline that runs before a compile.  *)
(* Each invocation has a source its generator reads, outputs on disk and a *)
(* record of what they were generated from.  A compile resolves the        *)
(* generator, goes through its invocations one by one, runs those whose    *)
(* record is out of date, deletes the generated files it has no use for    *)
(* any more, and then loads the outputs.  Compiles run at once, in one     *)
(* process or several, at whatever versions they find, and meet in the     *)
(* file system alone: one read, rename or removal of a file is one step.   *)
(*                                                                         *)
(* A key is what a record holds of an invocation's dependencies: a version *)
(* of the generator, which all invocations use, and one of the source.  It *)
(* stands for the bytes generated from it too, a function of it.  No       *)
(* invocation reads what another one writes.                               *)
(***************************************************************************)
EXTENDS Naturals

CONSTANTS Inv,          \* the invocations of a package
          Compiles,     \* the compiles that may run at once
          Generators,   \* what the generator's source may be
          Versions,     \* what an invocation's source may be
          Files,        \* the names a generator may give its files
          Emits,        \* of each key: the files it generates,
          EntryOf,      \* and the one of them that is the entry module
          Projects      \* what each compile finds in its entry, which invocations
                        \* name one output_dir, what their sources begin at; bounds:
                        \* changes the user makes and pipelines cut short

Keys == Generators \X Versions
None == <<>>                \* no record, or no file
Edited == <<"edited">>      \* a file as no generator makes it

ASSUME KilnAssumption ==
    /\ Projects \subseteq [plan : [Compiles -> SUBSET Inv], shared : SUBSET Inv,
                            src : [Inv -> Versions], edits : Nat, stops : Nat]
    /\ Emits \in [Keys -> SUBSET Files] /\ EntryOf \in [Keys -> Files]
    /\ \A k \in Keys : EntryOf[k] \in Emits[k]
    /\ None \notin Keys /\ Edited \notin Keys

VARIABLES
    project,    \* the one of Projects
    gen, src,   \* the version the generator is at, and each invocation's source
    disk,       \* of each invocation and file name: what is there
    record,     \* of each invocation: the key in its <primary>.kiln.json
    stage,      \* of each compile: where run_pipeline is
    held,       \* of each compile: the generator it resolved
    verdict,    \* of each compile and invocation: what became of it
    meta,       \* of each compile and invocation: the key of its metadata
    left,       \* of each compile: the files still to check, write or visit
    modified,   \* of each compile: a checked file is not as recorded
    gens, srcs, \* of each compile: the versions current since it began
    crossed,    \* of each compile: the invocations another one crossed it in
    edits, stops

sources == <<gen, src>>
tree == <<project, sources, disk, record>>
history == <<gens, srcs, crossed>>
vars == <<tree, stage, held, verdict, meta, left, modified, history, edits, stops>>

TypeOK ==
    /\ project \in Projects
    /\ gen \in Generators /\ src \in [Inv -> Versions]
    /\ disk \in [Inv -> [Files -> Keys \cup {None, Edited}]]
    /\ record \in [Inv -> Keys \cup {None}]
    /\ stage \in [Compiles ->
         {"idle", "next", "key", "check", "load", "write", "save", "clean", "use"}]
    /\ held \in [Compiles -> Generators \cup {"none"}]
    /\ verdict \in [Compiles -> [Inv -> {"todo", "now", "hit", "modified", "stale", "ran"}]]
    /\ meta \in [Compiles -> [Inv -> Keys \cup {None}]]
    /\ left \in [Compiles -> SUBSET (Inv \X Files)] /\ modified \in [Compiles -> BOOLEAN]
    /\ gens \in [Compiles -> SUBSET Generators]
    /\ srcs \in [Compiles -> [Inv -> SUBSET Versions]]
    /\ crossed \in [Compiles -> SUBSET Inv]
    /\ edits \in 0..project.edits /\ stops \in 0..project.stops

(* A fresh checkout without a build directory.                              *)
Init ==
    /\ project \in Projects
    /\ gen \in Generators /\ src = project.src
    /\ disk = [i \in Inv |-> [f \in Files |-> None]]
    /\ record = [i \in Inv |-> None]
    /\ stage = [p \in Compiles |-> "idle"] /\ held = [p \in Compiles |-> "none"]
    /\ verdict = [p \in Compiles |-> [i \in Inv |-> "todo"]]
    /\ meta = [p \in Compiles |-> [i \in Inv |-> None]]
    /\ left = [p \in Compiles |-> {}] /\ modified = [p \in Compiles |-> FALSE]
    /\ gens = [p \in Compiles |-> {}] /\ srcs = [p \in Compiles |-> [i \in Inv |-> {}]]
    /\ crossed = [p \in Compiles |-> {}]
    /\ edits = 0 /\ stops = 0

-----------------------------------------------------------------------------
(* What the properties speak of: no code reads it.                          *)

Active(p) == stage[p] # "idle"
Plan(p) == project.plan[p]
Works(p, i) == Active(p) /\ i \in Plan(p)
Current(i) == <<gen, src[i]>>

(* The keys that were current since p began, a part at a time.              *)
Meanwhile(p, i) == gens[p] \X srcs[p][i]

(* Nothing that i depends on changed since p began.                         *)
Steady(p, i) == gens[p] = {gen} /\ srcs[p][i] = {src[i]}
Late(p, i) == Works(p, i) /\ ~Steady(p, i)

SameDir(i, j) == i = j \/ {i, j} \subseteq project.shared

(* Only the directories a compile wrote to are cleaned.  A compile sweeps   *)
(* the outputs of i when it cleans their directory after running another    *)
(* invocation that names it and not i, reused or not of its entry.          *)
Cleaned(p, j) == \E i \in Inv : verdict[p][i] = "ran" /\ SameDir(i, j)
Unkept(p) == {i \in Inv : Cleaned(p, i) /\ verdict[p][i] # "ran"}
Swept(p, i) == stage[p] = "clean" /\ i \in Unkept(p)

(* Of those of S, each compile under way is crossed in the ones that        *)
(* another has in hand too: they may work at different versions.            *)
Crossing(S) == crossed' = [p \in Compiles |->
    crossed[p] \cup {i \in S : Works(p, i) /\ \E q \in Compiles \ {p} : Works(q, i)}]

-----------------------------------------------------------------------------
(* run_pipeline, in compile p.                                              *)

Go(p, from, to) == stage[p] = from /\ stage' = [stage EXCEPT ![p] = to]

FilesOf(i, k) == {i} \X Emits[k]
ToDo(p, files) == left' = [left EXCEPT ![p] = files]
Ticks(p, i, f) == <<i, f>> \in left[p] /\ ToDo(p, left[p] \ {<<i, f>>})

(* resolve_modules reads the generator; what it reads is run later on.      *)
Begin(p) ==
    /\ Plan(p) # {} /\ Go(p, "idle", "next")
    /\ held' = [held EXCEPT ![p] = gen] /\ gens' = [gens EXCEPT ![p] = {gen}]
    /\ srcs' = [srcs EXCEPT ![p] = [i \in Inv |-> IF i \in Plan(p) THEN {src[i]} ELSE {}]]
    /\ crossed' = [q \in Compiles |->
         IF q = p THEN {i \in Plan(p) : \E r \in Compiles : Late(r, i) \/ Swept(r, i)}
         ELSE crossed[q] \cup {i \in Plan(p) : Late(q, i)}]
    /\ UNCHANGED <<tree, verdict, meta, left, modified, edits, stops>>

LoadRecord(p, i) ==
    /\ i \in Plan(p) /\ verdict[p][i] = "todo" /\ Go(p, "next", "key")
    /\ verdict' = [verdict EXCEPT ![p][i] = "now"]
    /\ meta' = [meta EXCEPT ![p][i] = record[i]]
    /\ UNCHANGED <<tree, held, left, modified, history, edits, stops>>

Ends(p, i, what) ==
    /\ verdict[p][i] = "now" /\ verdict' = [verdict EXCEPT ![p][i] = what]
    /\ modified' = [modified EXCEPT ![p] = FALSE]
    /\ UNCHANGED <<held, left, history, edits, stops>>

(* No generator can run on this host: what is there is used, with a warning, *)
(* and nothing more is said of it.                                          *)
ConsumeOnly(p, i) ==
    /\ Go(p, "key", "next") /\ Ends(p, i, "stale")
    /\ meta' = [meta EXCEPT ![p][i] = None] /\ UNCHANGED tree

(* cache_matches, up to the outputs.                                        *)
Matches(p, i) == meta[p][i] = <<held[p], src[i]>>

MatchKey(p, i) ==
    /\ verdict[p][i] = "now"
    /\ Go(p, "key", IF Matches(p, i) THEN "check" ELSE "load")
    /\ ToDo(p, IF Matches(p, i) THEN FilesOf(i, meta[p][i]) ELSE {})
    /\ UNCHANGED <<tree, held, verdict, meta, modified, history, edits, stops>>

CheckOutput_Regenerates(p, i) ==
    /\ verdict[p][i] = "now"
    /\ \E f \in Files :
         /\ Ticks(p, i, f) /\ Go(p, "check", IF disk[i][f] # meta[p][i] THEN "load" ELSE "check")
         /\ UNCHANGED modified
    /\ UNCHANGED <<tree, held, verdict, meta, history, edits, stops>>
CheckOutput_OnlyPresent(p, i) ==
    /\ verdict[p][i] = "now"
    /\ \E f \in Files :
         /\ Ticks(p, i, f) /\ Go(p, "check", IF disk[i][f] = None THEN "load" ELSE "check")
         /\ UNCHANGED modified
    /\ UNCHANGED <<tree, held, verdict, meta, history, edits, stops>>
CheckOutput(p, i) ==
    /\ verdict[p][i] = "now"
    /\ \E f \in Files :
         /\ Ticks(p, i, f) /\ Go(p, "check", IF disk[i][f] = None THEN "load" ELSE "check")
         /\ modified' = [modified EXCEPT ![p] = @ \/ disk[i][f] # meta[p][i]]
    /\ UNCHANGED <<tree, held, verdict, meta, history, edits, stops>>

Reuse(p, i) ==          \* Hit or HitButModified
    /\ left[p] = {} /\ Go(p, "check", "next")
    /\ Ends(p, i, IF modified[p] THEN "modified" ELSE "hit") /\ UNCHANGED <<tree, meta>>

(* execute reads the source now and runs the generator resolved before.     *)
(* The bytes hashed for the record are those the generator gets.            *)
Execute(p, i) ==
    /\ verdict[p][i] = "now" /\ Go(p, "load", "write")
    /\ meta' = [meta EXCEPT ![p][i] = <<held[p], src[i]>>]
    /\ ToDo(p, FilesOf(i, meta'[p][i]))
    /\ UNCHANGED <<tree, held, verdict, modified, history, edits, stops>>

WriteOutput(p, i) ==    \* write_atomic: its rename
    /\ verdict[p][i] = "now"
    /\ \E f \in Files :
         /\ Ticks(p, i, f) /\ Go(p, "write", IF left'[p] = {} THEN "save" ELSE "write")
         /\ disk' = [disk EXCEPT ![i][f] = meta[p][i]]
    /\ UNCHANGED <<project, sources, record, held, verdict, meta, modified, history, edits, stops>>

SaveRecord(p, i) ==
    /\ Go(p, "save", "next") /\ Ends(p, i, "ran")
    /\ record' = [record EXCEPT ![i] = meta[p][i]]
    /\ UNCHANGED <<project, sources, disk, meta>>

Verdicts(p) == {verdict[p][i] : i \in Plan(p)}

(* What this compile wrote is kept, and nothing is cleaned if an invocation *)
(* could not run.                                                           *)
Ran(p) == {i \in Inv : verdict[p][i] = "ran"}
Kept_NotEntries(p) ==
    UNION {FilesOf(i, meta[p][i]) \ {<<i, EntryOf[meta[p][i]]>>} : i \in Ran(p)}
Kept(p) == UNION {FilesOf(i, meta[p][i]) : i \in Ran(p)}

BeginClean(p) ==
    /\ Verdicts(p) \cap {"todo", "now"} = {}
    /\ \/ "stale" \in Verdicts(p) /\ Go(p, "next", "use") /\ UNCHANGED <<left, crossed>>
       \/ /\ "stale" \notin Verdicts(p) /\ Go(p, "next", "clean")
          /\ ToDo(p, ({i \in Inv : Cleaned(p, i)} \X Files) \ Kept(p))
          /\ crossed' = [q \in Compiles |-> crossed[q] \cup {i \in Unkept(p) : Works(q, i)}]
    /\ UNCHANGED <<tree, held, verdict, meta, modified, gens, srcs, edits, stops>>

(* walk_and_delete: one file of the walk.                                   *)
VisitFile(p) ==
    /\ stage[p] = "clean"
    /\ \E i \in Inv, f \in Files : Ticks(p, i, f) /\ disk' = [disk EXCEPT ![i][f] = None]
    /\ UNCHANGED <<project, sources, record, stage, held, verdict, meta, modified, history, edits, stops>>

EndClean_Early(p) ==
    /\ Go(p, "clean", "use")
    /\ UNCHANGED <<tree, held, verdict, meta, left, modified, history, edits, stops>>
EndClean(p) ==
    /\ left[p] = {} /\ Go(p, "clean", "use")
    /\ UNCHANGED <<tree, held, verdict, meta, left, modified, history, edits, stops>>

Leave(p) ==
    /\ stage' = [stage EXCEPT ![p] = "idle"] /\ held' = [held EXCEPT ![p] = "none"]
    /\ verdict' = [verdict EXCEPT ![p] = [i \in Inv |-> "todo"]]
    /\ meta' = [meta EXCEPT ![p] = [i \in Inv |-> None]]
    /\ ToDo(p, {}) /\ modified' = [modified EXCEPT ![p] = FALSE]
    /\ gens' = [gens EXCEPT ![p] = {}] /\ srcs' = [srcs EXCEPT ![p] = [i \in Inv |-> {}]]
    /\ crossed' = [crossed EXCEPT ![p] = {}]
    /\ UNCHANGED <<tree, edits>>

(* The loader reads what the redirects name.                                *)
Use(p) == stage[p] = "use" /\ Leave(p) /\ UNCHANGED stops

(* A read, the generator, a write or a removal fails, or the process is     *)
(* killed: nothing is undone.                                               *)
Stop(p) == Active(p) /\ stops < project.stops /\ stops' = stops + 1 /\ Leave(p)

-----------------------------------------------------------------------------
(* The user, at any time.  A source may change back.                        *)

Acts == edits < project.edits /\ edits' = edits + 1
     /\ UNCHANGED <<project, record, stage, held, verdict, meta, left, modified, stops>>

EditGenerator ==
    /\ Acts /\ gen' \in Generators \ {gen}
    /\ gens' = [p \in Compiles |-> IF Active(p) THEN gens[p] \cup {gen'} ELSE gens[p]]
    /\ Crossing(Inv) /\ UNCHANGED <<src, srcs, disk>>

EditSource(i) ==
    /\ Acts
    /\ \E v \in Versions \ {src[i]} :
         /\ src' = [src EXCEPT ![i] = v]
         /\ srcs' = [p \in Compiles |->
              IF Works(p, i) THEN [srcs[p] EXCEPT ![i] = @ \cup {v}] ELSE srcs[p]]
    /\ Crossing({i}) /\ UNCHANGED <<gen, gens, disk>>

(* An output is edited, its marker kept, or removed.  A compile under way   *)
(* is crossed by it too.                                                    *)
Tamper(i) ==
    /\ Acts
    /\ \E f \in Files, what \in {None, Edited} :
         disk[i][f] # None /\ disk' = [disk EXCEPT ![i][f] = what]
    /\ crossed' = [p \in Compiles |-> IF Works(p, i) THEN crossed[p] \cup {i} ELSE crossed[p]]
    /\ UNCHANGED <<sources, gens, srcs>>

Invocation(p, i) ==
    \/ LoadRecord(p, i) \/ ConsumeOnly(p, i) \/ MatchKey(p, i) \/ CheckOutput(p, i)
    \/ Reuse(p, i) \/ Execute(p, i) \/ WriteOutput(p, i) \/ SaveRecord(p, i)

Next ==
    \/ \E p \in Compiles :
         \/ \E i \in Inv : Invocation(p, i)
         \/ Begin(p) \/ BeginClean(p) \/ VisitFile(p) \/ EndClean(p) \/ Use(p) \/ Stop(p)
    \/ EditGenerator
    \/ \E p \in Compiles : \E i \in Plan(p) : EditSource(i) \/ Tamper(i)

Spec == Init /\ [][Next]_vars

-----------------------------------------------------------------------------
(* driver.rs:795: a compile that reached the end of its pipeline finds the  *)
(* entry module of every invocation, under the name its generator chose,    *)
(* but of those it warned it could not run and those it was crossed in.     *)
RedirectsResolve ==
    \A p \in Compiles : \A i \in Plan(p) :
        stage[p] = "use" /\ verdict[p][i] # "stale" /\ i \notin crossed[p] =>
            disk[i][EntryOf[meta[p][i]]] # None

(* docs/spec-kiln.md:759: what a compile loads without a warning is, file   *)
(* for file, what one key generates, whose generator and source were both   *)
(* current meanwhile: whatever was cut short before, however sources went   *)
(* back and forth and whatever compiles crossed each other before it began. *)
NeverSilentlyStale ==
    \A p \in Compiles : \A i \in Plan(p) :
        stage[p] = "use" /\ verdict[p][i] \in {"hit", "ran"} /\ i \notin crossed[p] =>
            /\ meta[p][i] \in Meanwhile(p, i)
            /\ \A f \in Emits[meta[p][i]] : disk[i][f] = meta[p][i]

(* driver.rs:21: and an invocation that ran leaves no other file behind,    *)
(* neither of an earlier version nor of another compile that was at one,    *)
(* unless the host could not run them all.                                  *)
OrphansGone ==
    \A p \in Compiles : \A i \in Plan(p) :
        /\ stage[p] = "use" /\ verdict[p][i] = "ran" /\ "stale" \notin Verdicts(p)
        /\ i \notin crossed[p]
        => {f \in Files : disk[i][f] # None} = Emits[meta[p][i]]

(* docs/spec-kiln.md:753: what is up to date, with no compile under way     *)
(* from before the last change, stays so, hand edits of its outputs         *)
(* included, until the user changes something or a compile sweeps it: no    *)
(* compile loses an output, overwrites it or decides to generate it again.  *)
UpToDate(i) ==
    /\ record[i] = Current(i) /\ \A f \in Emits[Current(i)] : disk[i][f] # None
    /\ \A p \in Compiles :
         /\ ~Late(p, i)
         /\ verdict[p][i] = "now" => stage[p] \in {"key", "check"} /\ meta[p][i] = Current(i)
         /\ ~Swept(p, i)
StaysUpToDate ==
    [][\A i \in Inv : UpToDate(i) /\ edits' = edits =>
         \/ UpToDate(i)' /\ \A f \in Emits[Current(i)] : disk'[i][f] = disk[i][f]
         \/ \E p \in Compiles : Swept(p, i)']_vars
=============================================================================
