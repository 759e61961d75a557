----------------------------- MODULE LinearMemory -----------------------------
(***************************************************************************)
(* wado-compiler/lib/core/allocator.wado: `bump` and `grow_memory`, which  *)
(* take memory at the heap frontier and grow it by doubling, then by steps *)
(* of Step, or by what the request needs, rounded to a power of 2.  A      *)
(* request past the address space or the host's limit traps, and the       *)
(* instance ends: it has no step here.                                     *)
(***************************************************************************)
EXTENDS Naturals

CONSTANTS Page,         \* PAGE_SIZE
          Step,         \* 16 MB
          MaxAddress,   \* MAX_ADDRESS
          HostPages     \* where the host refuses to grow memory

MemoryAssumption ==
    /\ Page \in Nat /\ Page >= 8 /\ Step \in Nat \ {0} /\ Step % Page = 0
    /\ MaxAddress \in Nat /\ MaxAddress >= 8 /\ HostPages \in Nat \ {0}

VARIABLES pages, frontier

MemoryBytes == pages * Page

MemoryInit == pages = 1 /\ frontier = 8

PagesFor(bytes) == (bytes + Page - 1) \div Page

(* 1 << (64 - clz(n - 1)): the least power of 2 that is no less than n.     *)
PowerFor(n) == 2 ^ (CHOOSE k \in 0..n : 2 ^ k >= n /\ \A j \in 0..k - 1 : 2 ^ j < n)

GrowBy_Normal(deficit) == IF MemoryBytes < Step THEN MemoryBytes ELSE Step
GrowBy(deficit) ==
    LET normal == IF MemoryBytes < Step THEN MemoryBytes ELSE Step
    IN  IF deficit > normal THEN PowerFor(deficit) ELSE normal

(* The pages grown, of the two sizes tried; none if the host refuses both.  *)
Granted(deficit) ==
    LET first == PagesFor(GrowBy(deficit))
        second == PagesFor(deficit)
    IN  IF pages + first <= HostPages THEN {first}
        ELSE IF pages + second <= HostPages THEN {second} ELSE {}

(* The least multiple of `align` from a on.                                 *)
Aligned(a, align) == ((a + align - 1) \div align) * align

Start(align) == Aligned(frontier, align)

InAddresses(end) == end <= MaxAddress

Bump(align, size) ==
    LET end == Start(align) + size
    IN  /\ InAddresses(end) /\ frontier' = end
        /\ \/ end <= MemoryBytes /\ UNCHANGED pages
           \/ /\ end > MemoryBytes
              /\ \E more \in Granted(end - MemoryBytes) : pages' = pages + more

(* A request that fits in what the host grants is not refused: what the     *)
(* rounding of a growth asks for too much, the second try takes back.       *)
FitIsGranted(align, size) ==
    LET end == Start(align) + size
    IN  end \in MemoryBytes + 1..HostPages * Page => Granted(end - MemoryBytes) # {}
=============================================================================
