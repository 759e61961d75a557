------------------------------- MODULE FreeList -------------------------------
(***************************************************************************)
(* wado-compiler/lib/core/allocator.wado: the free-list allocator behind   *)
(* `realloc`.  Blocks tile the heap from First to the frontier; a tag at   *)
(* each end of one holds its size and whether it is used.  Free blocks are *)
(* merged with free neighbours at once, and linked in bins by size.        *)
(*                                                                         *)
(* Addresses and sizes are the code's, from a heap base of 0.  Memory is   *)
(* kept by the eight bytes, as two words: tags, links and payloads all     *)
(* share it, and nothing is wiped.  An owner fills its block as it gets it.*)
(***************************************************************************)
EXTENDS Integers, FiniteSets, FiniteSetsExt

CONSTANTS NewSizes,     \* what callers ask for, in bytes
          Data,         \* words owners write, tags and addresses among them
          SmallBins,    \* exact bins: 32 in the code
          Top           \* bound: where growing memory traps

First == 152            \* past the bin heads, 8 mod 16

ASSUME FreeListAssumption ==
    /\ NewSizes \subseteq Nat \ {0} /\ Data \subseteq Nat
    /\ SmallBins \in Nat \ {0} /\ Top \in Nat /\ Top >= First /\ (Top - First) % 16 = 0

VARIABLES heap,         \* memory, the heads of the bins, the frontier
          asked         \* of each payload handed out and not freed: its newsize

vars == <<heap, asked>>

Cells == {First + 8 * i : i \in 0..(Top - First) \div 8 - 1}
Bins == 0..SmallBins

Init ==
    /\ heap = [mem |-> [c \in Cells |-> [lo |-> 0, hi |-> 0]],
               bin |-> [k \in Bins |-> 0], frontier |-> First]
    /\ asked = [p \in {} |-> 0]

-----------------------------------------------------------------------------
(* Words, tags and bins.                                                    *)

Store(h, a, v) == [h EXCEPT !.mem[a].lo = v]

Tag(h, a) == h.mem[a].lo
SizeIn(tag) == tag - (tag % 8)          \* fl_size
UsedIn(tag) == tag % 2                  \* fl_used
Size(h, b) == SizeIn(Tag(h, b))

(* The links of a free block are the first words of its payload.            *)
NextOf(h, b) == h.mem[b + 8].lo
PrevOf(h, b) == h.mem[b + 8].hi

Bin(size) ==
    LET k == (size - 32) \div 16 IN IF k < SmallBins THEN k ELSE SmallBins

SetTags(h, b, size, used) == Store(Store(h, b, size + used), b + size - 8, size + used)

Push(h, b, size) ==
    LET head == h.bin[Bin(size)]
        linked == [h EXCEPT !.mem[b + 8] = [lo |-> head, hi |-> 0], !.bin[Bin(size)] = b]
    IN  IF head = 0 THEN linked ELSE [linked EXCEPT !.mem[head + 8].hi = b]

Unlink_PrevKept(h, b) ==
    IF PrevOf(h, b) = 0 THEN [h EXCEPT !.bin[Bin(Size(h, b))] = NextOf(h, b)]
                        ELSE Store(h, PrevOf(h, b) + 8, NextOf(h, b))
Unlink(h, b) ==
    LET next == NextOf(h, b)
        prev == PrevOf(h, b)
        passed == IF prev = 0 THEN [h EXCEPT !.bin[Bin(Size(h, b))] = next]
                              ELSE Store(h, prev + 8, next)
    IN  IF next = 0 THEN passed ELSE [passed EXCEPT !.mem[next + 8].hi = prev]

(* The rest of a block is a block if it can hold its tags and links.        *)
Carve(h, b, was, size) ==
    IF was - size >= 32
    THEN Push(SetTags(SetTags(h, b, size, 1), b + size, was - size, 0), b + size, was - size)
    ELSE SetTags(h, b, was, 1)

-----------------------------------------------------------------------------
(* realloc with a newsize.                                                  *)

BlockSize(newsize) == ((newsize + 15) \div 16) * 16 + 16

(* The i-th block of a list, and 0 past its end.                            *)
Listed(h, k) ==
    LET at[i \in Nat] == IF i = 0 THEN h.bin[k]
                         ELSE IF at[i - 1] = 0 THEN 0 ELSE NextOf(h, at[i - 1])
    IN  at

MaxBlocks == (Top - First) \div 32

(* The head of the first bin that is sure to fit, or the first large block  *)
(* that does.                                                               *)
Fit_AnyLarge(h, size) ==
    LET small == {k \in Bin(size)..SmallBins : h.bin[k] # 0}
    IN  IF small = {} THEN 0 ELSE h.bin[Min(small)]
Fit(h, size) ==
    LET small == {k \in Bin(size)..SmallBins - 1 : h.bin[k] # 0}
        large == {i \in 0..MaxBlocks : /\ Listed(h, SmallBins)[i] # 0
                                       /\ Size(h, Listed(h, SmallBins)[i]) >= size}
    IN  CASE small # {} -> h.bin[Min(small)]
          [] small = {} /\ large # {} -> Listed(h, SmallBins)[Min(large)]
          [] OTHER -> 0

Fill(h, p, newsize, d) ==
    [h EXCEPT !.mem = [c \in Cells |->
        IF c \in p..p + newsize - 1 THEN [lo |-> d, hi |-> d] ELSE @[c]]]

HandOut(h, p, newsize, d) ==
    /\ heap' = Fill(h, p, newsize, d)
    /\ asked' = [q \in DOMAIN asked \cup {p} |-> IF q = p THEN newsize ELSE asked[q]]

AllocFree(newsize, d) ==
    LET size == BlockSize(newsize)
        b == Fit(heap, size)
    IN  /\ b # 0
        /\ HandOut(Carve(Unlink(heap, b), b, Size(heap, b), size), b + 8, newsize, d)

(* No fit: take fresh memory.  Past Top the call traps, and the instance    *)
(* with it.                                                                 *)
AllocFresh(newsize, d) ==
    LET size == BlockSize(newsize)
        b == heap.frontier
    IN  /\ Fit(heap, size) = 0 /\ b + size <= Top
        /\ HandOut(SetTags([heap EXCEPT !.frontier = b + size], b, size, 1), b + 8, newsize, d)

-----------------------------------------------------------------------------
(* realloc with a newsize of 0.                                             *)

MergeNext_Unread(h, b) == [h |-> h, b |-> b, size |-> Size(h, b)]
MergeNext(h, b) ==
    LET next == b + Size(h, b)
    IN  IF next < h.frontier /\ UsedIn(Tag(h, next)) = 0
        THEN [h |-> Unlink(h, next), b |-> b, size |-> Size(h, b) + Size(h, next)]
        ELSE [h |-> h, b |-> b, size |-> Size(h, b)]

MergePrev(m) ==
    LET foot == m.b - 8
        prev == m.b - SizeIn(Tag(m.h, foot))
    IN  IF m.b > First /\ UsedIn(Tag(m.h, foot)) = 0
        THEN [h |-> Unlink(m.h, prev), b |-> prev, size |-> m.size + SizeIn(Tag(m.h, foot))]
        ELSE m

Freed(h, b) ==
    LET m == MergePrev(MergeNext(h, b))
    IN  Push(SetTags(m.h, m.b, m.size, 0), m.b, m.size)

Free(p) ==
    /\ UsedIn(Tag(heap, p - 8)) = 1     \* or it traps
    /\ heap' = Freed(heap, p - 8)
    /\ asked' = [q \in DOMAIN asked \ {p} |-> asked[q]]

Next ==
    \/ \E n \in NewSizes, d \in Data : AllocFree(n, d) \/ AllocFresh(n, d)
    \/ \E p \in DOMAIN asked : Free(p)

Spec == Init /\ [][Next]_vars

-----------------------------------------------------------------------------
(* The heap as its tags tell it: blocks from First to the frontier, each    *)
(* starting where the one before it ends.                                   *)
Starts ==
    LET from[b \in Nat] ==
          IF b \notin Cells \/ b >= heap.frontier \/ Size(heap, b) < 32 THEN {b}
          ELSE {b} \cup from[b + Size(heap, b)]
    IN  from[First] \ {heap.frontier}

IsFree(b) == UsedIn(Tag(heap, b)) = 0

(* The tags at a block's ends agree, the last block ends at the frontier,   *)
(* the blocks in use are those handed out, large enough and aligned, and    *)
(* churn cannot shatter the heap: no two free blocks touch.                 *)
BlocksTile ==
    /\ \A b \in Starts :
         /\ b \in Cells /\ b % 16 = 8 /\ Size(heap, b) >= 32
         /\ b + Size(heap, b) \in Starts \cup {heap.frontier}
         /\ Tag(heap, b + Size(heap, b) - 8) = Tag(heap, b)
    /\ {b + 8 : b \in {c \in Starts : ~IsFree(c)}} = DOMAIN asked
    /\ \A p \in DOMAIN asked : asked[p] + 16 <= Size(heap, p - 8)
    /\ \A b \in Starts : IsFree(b) /\ b + Size(heap, b) < heap.frontier
         => ~IsFree(b + Size(heap, b))

(* A free block is in its bin, and once: what an unlink relies on when it   *)
(* takes its neighbours from the block alone.                               *)
BinsHoldTheFree ==
    \A k \in Bins :
        LET at == Listed(heap, k)
            free == {b \in Starts : IsFree(b) /\ Bin(Size(heap, b)) = k}
        IN  /\ {at[i] : i \in 0..MaxBlocks} \ {0} = free
            /\ at[Cardinality(free)] = 0
            /\ \A i \in 0..Cardinality(free) - 1 :
                 PrevOf(heap, at[i]) = IF i = 0 THEN 0 ELSE at[i - 1]

(* Payloads stay apart, and hold what their owners wrote.                   *)
Contents(p) ==
    LET words == UNION {{heap.mem[c].lo, heap.mem[c].hi} : c \in Cells \cap (p..p + asked[p] - 1)}
    IN  IF Cardinality(words) = 1 THEN CHOOSE d \in words : TRUE ELSE -1

Promise == INSTANCE Allocator WITH
    Sizes <- NewSizes,
    live <- [p \in DOMAIN asked |-> [size |-> asked[p], data |-> Contents(p)]]
KeepsBlocks == Promise!Spec
=============================================================================
