------------------------------ MODULE DebugAlloc ------------------------------
(***************************************************************************)
(* wado-compiler/lib/core/allocator.wado: the debug allocator.  It takes   *)
(* each block at the heap frontier, with a tag in the word in front of it, *)
(* and poisons what is freed, so that a use after a free is found out.     *)
(* Addresses are the code's, from a heap base of 0.                        *)
(***************************************************************************)
EXTENDS LinearMemory

CONSTANTS Aligns,       \* alignments callers ask for: powers of 2
          NewSizes      \* and sizes

DebugAssumption == Aligns \subseteq Nat \ {0} /\ NewSizes \subseteq Nat \ {0}

VARIABLES mem,          \* of each address: what was written there last
          asked         \* of each block handed out and not freed: its newsize

vars == <<pages, frontier, mem, asked>>

Addresses == 0..MaxAddress - 1

TypeOK ==
    /\ mem \in [Addresses -> {"zero", "tag", "data", "poison"}]
    /\ frontier \in 8..MaxAddress
    /\ asked = [p \in DOMAIN asked |-> asked[p]]
    /\ \A p \in DOMAIN asked : p \in Nat /\ asked[p] \in NewSizes

Init ==
    /\ MemoryInit /\ mem = [a \in Addresses |-> "zero"] /\ asked = [p \in {} |-> 0]

(* The tag sits in the max(align, 4) bytes in front of the block.           *)
Gap_Align(align) == align
Gap(align) == IF align < 4 THEN 4 ELSE align

HandOut(p, newsize) ==
    /\ mem' = [a \in Addresses |->
         IF a \in p - 4..p - 1 THEN "tag"
         ELSE IF a \in p..p + newsize - 1 THEN "data" ELSE mem[a]]
    /\ asked' = [q \in DOMAIN asked \cup {p} |-> IF q = p THEN newsize ELSE asked[q]]

Alloc_Reused(align, newsize) ==
    LET p == Aligned(8, align) + Gap(align)
    IN  p \notin DOMAIN asked /\ Bump(align, Gap(align) + newsize) /\ HandOut(p, newsize)
Alloc(align, newsize) ==
    /\ Bump(align, Gap(align) + newsize)
    /\ HandOut(Start(align) + Gap(align), newsize)

(* The guard: what lies in front of the block.  Otherwise the call traps.   *)
Tagged(p) == mem[p - 4] = "tag"

Free_TagKept(p) ==
    /\ p \in DOMAIN asked /\ Tagged(p)
    /\ mem' = [a \in Addresses |-> IF a \in p..p + asked[p] - 1 THEN "poison" ELSE mem[a]]
    /\ asked' = [q \in DOMAIN asked \ {p} |-> asked[q]]
    /\ UNCHANGED <<pages, frontier>>
Free(p) ==
    /\ p \in DOMAIN asked /\ Tagged(p)
    /\ mem' = [a \in Addresses |-> IF a \in p - 4..p + asked[p] - 1 THEN "poison" ELSE mem[a]]
    /\ asked' = [q \in DOMAIN asked \ {p} |-> asked[q]]
    /\ UNCHANGED <<pages, frontier>>

Next ==
    \/ \E align \in Aligns, n \in NewSizes : Alloc(align, n)
    \/ \E p \in DOMAIN asked : Free(p)

Spec == Init /\ [][Next]_vars

-----------------------------------------------------------------------------
(* A block freed stays poisoned for good: whatever is read there, or freed  *)
(* there again, shows.                                                      *)
PoisonStays == [][\A a \in Addresses : mem[a] = "poison" => mem'[a] = "poison"]_vars

(* Freeing a block in use never traps, and freeing any other does, unless   *)
(* an owner wrote the tag's very word: there is a tag in front of each, and *)
(* nowhere else.                                                            *)
TagsAreLive ==
    \A p \in 12..MaxAddress - 1 : p \in DOMAIN asked <=> \A a \in p - 4..p - 1 : mem[a] = "tag"

(* What was handed out is memory the host granted, and no allocation that   *)
(* fits traps: rounding a growth up neither falls short nor asks too much.  *)
GrowthFits ==
    /\ frontier <= MemoryBytes /\ pages <= HostPages
    /\ \A align \in Aligns, n \in NewSizes : FitIsGranted(align, Gap(align) + n)

Promise == INSTANCE Allocator WITH
    Top <- MaxAddress, Sizes <- NewSizes, Data <- {"data"},
    live <- [p \in DOMAIN asked |-> [size |-> asked[p],
        data |-> IF \A a \in p..p + asked[p] - 1 : mem[a] = "data" THEN "data" ELSE "lost"]]
KeepsBlocks == Promise!Spec
=============================================================================
