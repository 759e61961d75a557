------------------------------- MODULE Realloc -------------------------------
(***************************************************************************)
(* wado-compiler/lib/core/allocator.wado: `realloc` of a program.  The     *)
(* compiler exports one of the two allocators as it, by the program's      *)
(* world or by --allocator (select_allocator, wado-compiler/src/lib.rs),   *)
(* and the other is not linked.                                            *)
(***************************************************************************)
EXTENDS FreeList

CONSTANTS Page, Step, MaxAddress, HostPages,    \* as in LinearMemory
          Aligns, DebugSizes    \* what callers ask the debug allocator for

VARIABLES linked,           \* the allocator exported
          pages, frontier,  \* the debug allocator's memory, how far it is taken,
          mem, given        \* what is in it, and what was handed out

Debug == INSTANCE DebugAlloc WITH NewSizes <- DebugSizes, asked <- given

ASSUME ReallocAssumption == Debug!MemoryAssumption /\ Debug!DebugAssumption

every == <<linked, heap, asked, pages, frontier, mem, given>>

ReallocInit == linked \in {"debug", "freelist"} /\ Init /\ Debug!Init

FreeListRealloc == linked = "freelist" /\ Next /\ UNCHANGED <<linked, pages, frontier, mem, given>>
DebugRealloc == linked = "debug" /\ Debug!Next /\ UNCHANGED <<linked, heap, asked>>

ReallocNext == FreeListRealloc \/ DebugRealloc

ReallocSpec == ReallocInit /\ [][ReallocNext]_every

-----------------------------------------------------------------------------
(* The debug allocator's tags are in front of the blocks in use and nowhere *)
(* else, memory grows as far as the host allows, what is freed stays        *)
(* poisoned, and blocks stay apart and intact: see DebugAlloc.              *)
TagsAreLive == Debug!TagsAreLive
GrowthFits == Debug!GrowthFits
PoisonStays == Debug!PoisonStays
DebugKeepsBlocks == Debug!KeepsBlocks
=============================================================================
