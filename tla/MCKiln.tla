------------------------------- MODULE MCKiln -------------------------------
(* Kiln on a small instance, whose invocations are interchangeable and so   *)
(* are its compiles and its generators: no run asks for liveness.           *)
EXTENDS Kiln, FiniteSets, TLC

(* A source's first version makes two files; its second makes the other one *)
(* of them its entry, as a grammar that was renamed does, and no second.    *)
MCEmits == [k \in Keys |-> IF k[2] = "v1" THEN {"one", "two"} ELSE {"two"}]
MCEntryOf == [k \in Keys |-> IF k[2] = "v1" THEN "one" ELSE "two"]

(* The projects of n invocations in all compiles: sources begin at any      *)
(* version, if a compile has them.                                          *)
Plans(n) == {u \in [Compiles -> SUBSET Inv] :
               Cardinality({<<p, i>> \in Compiles \X Inv : i \in u[p]}) = n}
Alone(u) == \E p \in Compiles : \A q \in Compiles \ {p} : u[q] = {}
Same(u) == \A p, q \in Compiles : u[p] = u[q]
Project(u, s, e, n) ==
    {[plan |-> u, shared |-> s, src |-> v, edits |-> e, stops |-> n] :
       v \in {w \in [Inv -> Versions] :
                \A i \in Inv : (\A p \in Compiles : i \notin u[p]) => w[i] = "v1"}}

(* Two compiles of one invocation; of one each, in one directory; one of    *)
(* two; one of two beside one of one; and both of two, in one directory.    *)
(* The more there are, the fewer changes are made.                          *)
MCProjects == UNION (
         {Project(u, {}, 3, 1) : u \in {u \in Plans(2) : Same(u)}}
    \cup {Project(u, Inv, 1, 1) : u \in {u \in Plans(2) : ~Same(u) /\ ~Alone(u)}}
    \cup {Project(u, s, 2, 1) : u \in {u \in Plans(2) : Alone(u)}, s \in {{}, Inv}}
    \cup {Project(u, {}, 1, 0) : u \in Plans(3)}
    \cup {Project(u, Inv, 0, 1) : u \in Plans(4)})

KilnSymmetry == Permutations(Inv) \cup Permutations(Compiles) \cup Permutations(Generators)
=============================================================================
